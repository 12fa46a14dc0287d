----------------------- MODULE ExecTransactionProofs -----------------------
(***************************************************************************)
(* Proofs about the EXEC transaction coordinator, for every number of      *)
(* slots and every generation limit: a slot at rest is always encoded as   *)
(* its state demands, no call is ever nested, a file is closed once, and   *)
(* what a request publishes it publishes as a whole; and that the          *)
(* coordinator implements ExecPromise.                                     *)
(*                                                                         *)
(* The encoding rules say what a slot at rest looks like.  They are not    *)
(* inductive: they do not say what a service call finds when it returns,   *)
(* nor that what the slot claims is what the services hold.  The inductive *)
(* invariant puts the states in the order in which a request climbs them   *)
(* (Rank), and relates every field of the slot to that order (Forward), to *)
(* the stages that unwind it (Backward), to the other fields whatever the  *)
(* state (Deps), and to the services (Guarded, Backed).                    *)
(***************************************************************************)
EXTENDS ExecTransaction, WellFoundedInduction, TLAPS

(* The states with an operation on the C stack, by the kind of operation;  *)
(* all others are states of a slot at rest.                                *)
Beginning == {"OBSERVER_ACQUIRING", "OBSERVER_RELEASING"}

Advancing ==
  {"NAME_READING", "FILE_OPENING", "FILE_PROBING", "FILE_CLOSING",
   "PROCESS_FILE_CLOSING", "ENVIRONMENT_READING", "ENVIRONMENT_SCANNING",
   "ENVIRONMENT_ALLOCATING", "ENVIRONMENT_BUILDING", "IMAGE_READING",
   "LOAD_QUERYING", "LOAD_ALLOCATING", "RESIDENT_LOADING", "RELOCATING",
   "PARENT_SNAPSHOTTING", "SFT_PREPARING", "PROCESS_PARAMETER_READING",
   "PSP_PREPARING", "DRIVE_RESOLVING", "PROCESS_MEMORY_STAGING",
   "GLOBAL_MEMORY_STAGING", "HANDOFF_STAGING", "BACKEND_PREPARING",
   "COMMITTING", "JOURNAL_ABORTING"}

StagesLeft ==
  {"BACKEND_RELEASING", "JOURNAL_ABORTING", "SFT_ABORTING",
   "LOAD_LEASE_ABORTING", "ENVIRONMENT_LEASE_ABORTING",
   "ABORT_FILE_CLOSING", "OBSERVER_RELEASING"}

Resting ==
  CanAbort \cup {"VACANT", "ABORTED", "PUBLISHED", "POISONED"}

ControlOf(state, c) ==
  \/ c = "idle" /\ state \in Resting
  \/ c = "begin" /\ state \in Beginning
  \/ c = "advance" /\ state \in Advancing
  \/ c = "unwind" /\ state \in StagesLeft

(* How far a request has come. *)
Rank(state) ==
  CASE state \in {"OBSERVER_ACQUIRING", "OBSERVED", "NAME_READING",
                  "FILE_OPENING"} -> 1
    [] state \in {"FILE_OPEN", "FILE_PROBING", "FILE_PROBED",
                  "FILE_CLOSING", "FILE_CLOSED", "ENVIRONMENT_READING"} -> 2
    [] state \in {"ENV_READY", "ENVIRONMENT_SCANNING"} -> 3
    [] state = "ENVIRONMENT_ALLOCATING" -> 4
    [] state = "ENVIRONMENT_BUILDING" -> 5
    [] state \in {"ENVIRONMENT_BLOCK_READY", "IMAGE_READING"} -> 6
    [] state = "IMAGE_READY" -> 7
    [] state = "LOAD_QUERYING" -> 8
    [] state = "LOAD_ALLOCATING" -> 9
    [] state = "TARGET_READY" -> 10
    [] state = "RESIDENT_LOADING" -> 11
    [] state = "RESIDENT_READY" -> 12
    [] state = "RELOCATING" -> 13
    [] state \in {"IMAGE_PRIVATE", "PROCESS_FILE_CLOSING"} -> 14
    [] state \in {"PROCESS_FILE_CLOSED", "PARENT_SNAPSHOTTING"} -> 15
    [] state \in {"PARENT_SNAPSHOT_READY", "SFT_PREPARING"} -> 16
    [] state \in {"SFT_RESERVED", "PROCESS_PARAMETER_READING",
                  "PSP_PREPARING"} -> 17
    [] state \in {"PSP_PREPARED", "DRIVE_RESOLVING", "INITIAL_STATE_READY",
                  "PROCESS_MEMORY_STAGING"} -> 18
    [] state \in {"GLOBAL_STAGED", "GLOBAL_MEMORY_STAGING"} -> 19
    [] state \in {"GLOBAL_MEMORY_READY", "HANDOFF_STAGING"} -> 20
    [] state \in {"HANDOFF_READY", "BACKEND_PREPARING"} -> 21
    [] state \in {"BACKEND_DORMANT", "BACKEND_RELEASING"} -> 22
    [] state = "COMMITTING" -> 23
    [] state = "PUBLISHED" -> 24
    [] OTHER -> 0

(* What holds between the fields whatever the state. *)
Deps(s) ==
  /\ s.request \in Requests
  /\ s.journal = "uninitialized" <=> ~IsProcess(s)
  /\ s.journal # "poisoned"
  /\ s.file => s.name
  /\ s.source # "unused" => IsProcess(s)
  /\ s.envPlan => s.source \in {"parameter", "parent"}
  /\ s.envBlock => s.envPlan /\ s.file
  /\ s.plan => IsProcess(s) /\ s.image # "none" /\ s.parentPsp # 0
  /\ s.block => s.plan /\ s.file
  /\ s.resident # "none" => s.block
  /\ s.relocation # "none" => s.resident = "loaded" /\ s.image = "mz"
  /\ s.parent => s.block
  /\ s.batch # "batch"
  /\ s.batch = "jft" => IsProcess(s) /\ s.file
  /\ s.psp => IsProcess(s)
  /\ s.staged => s.journal = "staging" /\ s.block
  /\ s.envRebind => s.loadRebind
  /\ s.loadRebind => /\ s.block /\ s.envRebind = s.envBlock
                     /\ s.journal \in {"staging", "sealed"}
  /\ s.handoff => s.loadRebind /\ s.request = "exec0"
  /\ s.session => s.handoff
  /\ ~IsProcess(s) => s.runtime = 0

(* What a request has at the n-th rung on its way up: the executable and   *)
(* the environment,                                                        *)
FileRung(n, s) ==
  /\ s.file <=> n >= 2
  /\ s.name <=> n >= 2
  /\ n >= 3 => IsProcess(s) \/ n \in {6, 7}
  /\ IsProcess(s) => (s.source # "unused" <=> n >= 3)
  /\ n <= 3 => ~s.envPlan
  /\ n >= 4 /\ IsProcess(s) => (s.envPlan <=> s.source # "none")
  /\ n = 4 => s.envPlan
  /\ n <= 4 => ~s.envBlock
  /\ n >= 5 => (s.envBlock <=> s.envPlan)

(* the image and its block,                                                *)
ImageRung(n, s) ==
  /\ s.image # "none" <=> n >= 7
  /\ n >= 8 => s.parentPsp # 0
  /\ s.plan <=> n >= 9
  /\ s.block <=> n >= 10
  /\ n <= 10 => s.resident = "none"
  /\ n = 11 => s.resident = "planned"
  /\ n >= 12 => s.resident = "loaded"
  /\ n <= 12 => s.relocation = "none"
  /\ n = 13 => s.relocation # "none"
  /\ n >= 14 => s.relocation = IF s.image = "mz" THEN "applied" ELSE "none"

(* the child's file references, PSP and staged memory.                     *)
ChildRung(n, s) ==
  /\ s.parent <=> n >= 16
  /\ s.batch = "jft" <=> n >= 17
  /\ s.psp <=> n >= 18
  /\ s.staged <=> n >= 19 /\ n <= 22
  /\ s.loadRebind <=> n >= 20
  /\ s.handoff <=> n >= 21 /\ s.request = "exec0"
  /\ s.session <=> n >= 22 /\ s.request = "exec0"
  /\ n \in {21, 22} => s.request = "exec0"
  /\ IsProcess(s) => s.journal = IF n >= 23 THEN "sealed" ELSE "staging"

Rung(n, s) == FileRung(n, s) /\ ImageRung(n, s) /\ ChildRung(n, s)

Forward(s) ==
  /\ Rank(s.state) # 0 => Rung(Rank(s.state), s)
  /\ s.state = "ENVIRONMENT_READING" => IsProcess(s)
  /\ s.state = "ENVIRONMENT_SCANNING" => s.source # "none"
  /\ s.state = "HANDOFF_STAGING" => s.request = "exec0"

(* What is already given back on the way down. *)
Backward(s, c) ==
  /\ s.state = "JOURNAL_ABORTING" =>
       /\ ~s.session /\ s.file /\ s.journal = "staging"
       /\ c = "advance" => ~s.loadRebind
  /\ s.state \in {"SFT_ABORTING", "LOAD_LEASE_ABORTING",
                  "ENVIRONMENT_LEASE_ABORTING", "ABORT_FILE_CLOSING",
                  "OBSERVER_RELEASING", "ABORTED", "ABORTING"} =>
       ~s.session /\ ~s.staged /\ ~s.loadRebind /\ ~s.psp
  /\ s.state \in {"LOAD_LEASE_ABORTING", "ENVIRONMENT_LEASE_ABORTING",
                  "ABORT_FILE_CLOSING", "OBSERVER_RELEASING", "ABORTED",
                  "ABORTING"} => s.batch = "none"
  /\ s.state \in {"ENVIRONMENT_LEASE_ABORTING", "ABORT_FILE_CLOSING",
                  "OBSERVER_RELEASING", "ABORTED"} => ~s.block
  /\ s.state \in {"ABORT_FILE_CLOSING", "OBSERVER_RELEASING", "ABORTED"} =>
       ~s.envBlock
  /\ s.state \in {"OBSERVER_RELEASING", "ABORTED"} => ~s.file
  /\ s.state \in {"SFT_ABORTING", "LOAD_LEASE_ABORTING",
                  "ENVIRONMENT_LEASE_ABORTING", "ABORT_FILE_CLOSING",
                  "ABORTING"} => s.file
  /\ s.state = "FAILED" => (s.name <=> s.file)
  /\ Rank(s.state) = 0 => s.journal # "sealed"
  /\ \/ s.state = "OBSERVER_ACQUIRING" \/ c = "begin"
     \/ ~IsProcess(s) \/ s.runtime # 0
  /\ s.state = "OBSERVER_ACQUIRING" => s.runtime = 0

(* The gate covers the request from the acquired to the released observer. *)
ObserverOf(state) ==
  CASE state = "OBSERVER_ACQUIRING" -> "acquiring"
    [] state \in {"OBSERVER_RELEASING", "COMMITTING"} -> "releasing"
    [] state \in {"ABORTED", "PUBLISHED"} -> "released"
    [] OTHER -> "held"

Guarded(s, v) ==
  /\ s.observer = ObserverOf(s.state)
  /\ v.gate = IF s.observer \in {"held", "releasing"} THEN "held" ELSE "free"

(* The services hold what the slot says they hold. *)
Sealed(s) == s.state \in {"COMMITTING", "PUBLISHED"}

Backed(s, v) ==
  /\ v.file # "poisoned" /\ v.batch # "poisoned"
  /\ s.file <=> v.file # "none"
  /\ v.file \in {"open", "probed"} => v.closes = 0
  /\ s.state \in {"FILE_OPEN", "FILE_PROBING"} => v.file = "open"
  /\ Rank(s.state) >= 15 => v.file = "closed"
  /\ v.env = IF s.envBlock THEN IF Sealed(s) THEN "published" ELSE "active"
                           ELSE "none"
  /\ v.load = IF s.block THEN IF Sealed(s) THEN "published" ELSE "active"
                         ELSE "none"
  /\ v.batch = IF s.batch = "jft"
                 THEN IF Sealed(s) THEN "committed" ELSE "prepared"
                 ELSE "none"
  /\ IF s.session
       THEN v.backend = IF s.state = "PUBLISHED" THEN "runnable"
                                                 ELSE "dormant"
       ELSE v.backend \in {"none", "poisoned"}
  /\ v.backend = "poisoned" => v.backends
  /\ s.state = "FAILED" /\ s.loadRebind => v.backend = "poisoned"

(* A slot is vacant, or a live request in good order. *)
Sound(s, v, c) ==
  \/ /\ s = Vacant(s.index)
     /\ v.gate = "free" /\ v.file = "none" /\ v.env = "none"
     /\ v.load = "none" /\ v.batch = "none"
     /\ v.backend \in {"none", "poisoned"}
     /\ v.backend = "poisoned" => v.backends
  \/ /\ s.state # "VACANT"
     /\ Deps(s) /\ Forward(s) /\ Backward(s, c) /\ Guarded(s, v)
     /\ Backed(s, v)

IndInv ==
  /\ TypeOK
  /\ ControlOf(slot.state, call)
  /\ poisoned <=> slot.state = "POISONED"
  /\ svc.closes <= 1
  /\ poisoned /\ svc.load = "published" => svc.arena
  /\ ~poisoned => Sound(slot, svc, call)

-----------------------------------------------------------------------------
(* The ladder, spelled out.                                                *)

(* The rank of every state on the way up: how far exec_transaction.c has   *)
(* brought the request.                                                    *)
LEMMA Ladder ==
  /\ Rank("OBSERVER_ACQUIRING") = 1 /\ Rank("OBSERVED") = 1
  /\ Rank("NAME_READING") = 1 /\ Rank("FILE_OPENING") = 1
  /\ Rank("FILE_OPEN") = 2 /\ Rank("FILE_PROBING") = 2
  /\ Rank("FILE_PROBED") = 2 /\ Rank("FILE_CLOSING") = 2
  /\ Rank("FILE_CLOSED") = 2 /\ Rank("ENVIRONMENT_READING") = 2
  /\ Rank("ENV_READY") = 3 /\ Rank("ENVIRONMENT_SCANNING") = 3
  /\ Rank("ENVIRONMENT_ALLOCATING") = 4 /\ Rank("ENVIRONMENT_BUILDING") = 5
  /\ Rank("ENVIRONMENT_BLOCK_READY") = 6 /\ Rank("IMAGE_READING") = 6
  /\ Rank("IMAGE_READY") = 7 /\ Rank("LOAD_QUERYING") = 8
  /\ Rank("LOAD_ALLOCATING") = 9 /\ Rank("TARGET_READY") = 10
  /\ Rank("RESIDENT_LOADING") = 11 /\ Rank("RESIDENT_READY") = 12
  /\ Rank("RELOCATING") = 13 /\ Rank("IMAGE_PRIVATE") = 14
  /\ Rank("PROCESS_FILE_CLOSING") = 14 /\ Rank("PROCESS_FILE_CLOSED") = 15
  /\ Rank("PARENT_SNAPSHOTTING") = 15 /\ Rank("PARENT_SNAPSHOT_READY") = 16
  /\ Rank("SFT_PREPARING") = 16 /\ Rank("SFT_RESERVED") = 17
  /\ Rank("PROCESS_PARAMETER_READING") = 17 /\ Rank("PSP_PREPARING") = 17
  /\ Rank("PSP_PREPARED") = 18 /\ Rank("DRIVE_RESOLVING") = 18
  /\ Rank("INITIAL_STATE_READY") = 18 /\ Rank("PROCESS_MEMORY_STAGING") = 18
  /\ Rank("GLOBAL_STAGED") = 19 /\ Rank("GLOBAL_MEMORY_STAGING") = 19
  /\ Rank("GLOBAL_MEMORY_READY") = 20 /\ Rank("HANDOFF_STAGING") = 20
  /\ Rank("HANDOFF_READY") = 21 /\ Rank("BACKEND_PREPARING") = 21
  /\ Rank("BACKEND_DORMANT") = 22 /\ Rank("BACKEND_RELEASING") = 22
  /\ Rank("COMMITTING") = 23 /\ Rank("PUBLISHED") = 24
BY DEF Rank

(* States that are not on the way up. *)
LEMMA OffLadder ==
  /\ Rank("VACANT") = 0 /\ Rank("FAILED") = 0 /\ Rank("ABORTING") = 0
  /\ Rank("JOURNAL_ABORTING") = 0 /\ Rank("SFT_ABORTING") = 0
  /\ Rank("LOAD_LEASE_ABORTING") = 0
  /\ Rank("ENVIRONMENT_LEASE_ABORTING") = 0
  /\ Rank("ABORT_FILE_CLOSING") = 0 /\ Rank("OBSERVER_RELEASING") = 0
  /\ Rank("ABORTED") = 0 /\ Rank("POISONED") = 0
BY DEF Rank

(* Every state the coordinator passes through is one of its states. *)
Reached ==
  {"VACANT", "OBSERVER_ACQUIRING", "OBSERVED", "NAME_READING",
   "FILE_OPENING", "FAILED", "ABORTING", "OBSERVER_RELEASING", "ABORTED",
   "POISONED", "FILE_OPEN", "FILE_PROBING", "FILE_PROBED", "FILE_CLOSING",
   "FILE_CLOSED", "ENVIRONMENT_READING", "ENV_READY", "ENVIRONMENT_SCANNING",
   "ENVIRONMENT_ALLOCATING", "ENVIRONMENT_BUILDING",
   "ENVIRONMENT_BLOCK_READY", "IMAGE_READING", "IMAGE_READY",
   "LOAD_QUERYING", "LOAD_ALLOCATING", "TARGET_READY", "RESIDENT_LOADING",
   "RESIDENT_READY", "RELOCATING", "IMAGE_PRIVATE", "PROCESS_FILE_CLOSING",
   "PROCESS_FILE_CLOSED", "PARENT_SNAPSHOTTING", "PARENT_SNAPSHOT_READY",
   "SFT_PREPARING", "SFT_RESERVED", "PROCESS_PARAMETER_READING",
   "PSP_PREPARING", "PSP_PREPARED", "DRIVE_RESOLVING", "INITIAL_STATE_READY",
   "PROCESS_MEMORY_STAGING", "GLOBAL_STAGED", "GLOBAL_MEMORY_STAGING",
   "GLOBAL_MEMORY_READY", "HANDOFF_STAGING", "HANDOFF_READY",
   "BACKEND_PREPARING", "BACKEND_DORMANT", "BACKEND_RELEASING", "COMMITTING",
   "PUBLISHED", "JOURNAL_ABORTING", "SFT_ABORTING", "LOAD_LEASE_ABORTING",
   "ENVIRONMENT_LEASE_ABORTING", "ABORT_FILE_CLOSING"}

(* Every state a slot reaches is one of the enumeration. *)
LEMMA KnownStates == Reached \subseteq States
BY DEF Reached, States, FileInterval, SelectedInterval, EnvironmentInterval,
       LoadInterval, TargetInterval, ResidentInterval, RelocationInterval,
       ParentInterval, SftInterval, PspInterval, MemoryInterval

-----------------------------------------------------------------------------
(* What one step must establish.                                           *)

(* The parts of a live request. *)
Live ==
  /\ slot \in Slot /\ svc \in Services /\ svc.closes <= 1
  /\ Deps(slot) /\ Forward(slot) /\ Backward(slot, call)
  /\ Guarded(slot, svc) /\ Backed(slot, svc)
  /\ slot.state # "POISONED" /\ ControlOf(slot.state, call)
  /\ gens \in [1 .. SlotCount -> 0 .. GenerationMax]

(* A slot in use satisfies the live part of the invariant. *)
LEMMA LiveParts ==
  ASSUME IndInv, ~poisoned, slot.state # "VACANT"
  PROVE  Live
BY DEF IndInv, TypeOK, Sound, Vacant, Live

(* A request is at rest, or the call on the stack is of the kind its state *)
(* names.                                                                  *)
LEMMA AtRest ==
  ASSUME ControlOf(slot.state, call), slot.state \in Resting
  PROVE  call = "idle" /\ \A c : Entered(c) = c
BY DEF ControlOf, Resting, CanAbort, Beginning, Advancing, StagesLeft, Entered

(* In an advancing state the call on the stack is an advance. *)
LEMMA OnStack ==
  ASSUME ControlOf(slot.state, call),
         slot.state \in Advancing \ {"JOURNAL_ABORTING"}
  PROVE  call = "advance"
BY DEF ControlOf, Resting, CanAbort, Beginning, Advancing, StagesLeft

(* A live request stays one. *)
LEMMA StaysLive ==
  ASSUME IndInv, ~poisoned, UNCHANGED <<gens, poisoned>>,
         slot' \in Slot, svc' \in Services, svc'.closes <= 1,
         slot'.state \notin {"POISONED", "VACANT"},
         ControlOf(slot'.state, call'),
         Deps(slot'), Forward(slot'), Backward(slot', call'),
         Guarded(slot', svc'), Backed(slot', svc')
  PROVE  IndInv'
BY DEF IndInv, TypeOK, ControlOf, Sound

(* poison_transaction keeps the invariant when nothing is half published,  *)
(* or the arena is poisoned with it.                                       *)
LEMMA PoisonKeeps ==
  ASSUME IndInv, NEW s \in Slot, NEW v \in Services, PoisonWith(s, v),
         v.closes <= 1, v.load = "published" => v.arena
  PROVE  IndInv'
<1>1. slot'.state = "POISONED" /\ slot' \in Slot
  BY ZenonT(60) DEF PoisonWith, Slot, States
<1>3. poisoned' = TRUE /\ call' = "idle" /\ gens' = gens
  BY DEF PoisonWith
<1> QED
  BY <1>1, <1>3 DEF IndInv, TypeOK, ControlOf, Resting, PoisonWith, Services

(* poison_memory_domain always does. *)
LEMMA PoisonDomainKeeps ==
  ASSUME IndInv, NEW s \in Slot, NEW v \in Services, v.closes <= 1,
         PoisonDomainWith(s, v)
  PROVE  IndInv'
<1> DEFINE w == [v EXCEPT !.arena = TRUE]
<1>1. w \in Services /\ w.closes = v.closes /\ w.arena
  BY DEF Services
<1>2. PoisonWith(s, w)
  BY DEF PoisonDomainWith
<1> HIDE DEF w
<1> QED
  BY <1>1, <1>2, PoisonKeeps

(* Before the seal nothing is published. *)
LEMMA PoisonFrom ==
  ASSUME IndInv, Live, Rank(slot.state) <= 22, NEW s \in Slot,
         PoisonWith(s, svc) \/ PoisonDomainWith(s, svc)
  PROVE  IndInv'
<1> QED
  BY Ladder, PoisonKeeps, PoisonDomainKeeps, SMTT(40) DEF Live, Backed, Sealed

(* The slot as it is, with the services as they are. *)
LEMMA PoisonHere ==
  ASSUME IndInv, Live, Rank(slot.state) <= 22,
         PoisonTransaction \/ PoisonDomain
  PROVE  IndInv'
BY PoisonFrom DEF Live, PoisonTransaction, PoisonDomain

(* A file service whose answer is not known. *)
LEMMA FilePoisonKeeps ==
  ASSUME IndInv, Live, Rank(slot.state) <= 22,
         PoisonWith(slot, [svc EXCEPT !.file = "poisoned"])
  PROVE  IndInv'
<1> DEFINE v == [svc EXCEPT !.file = "poisoned"]
<1>1. v \in Services /\ v.closes <= 1 /\ v.load # "published"
  <2>1. svc \in Services /\ svc.closes <= 1 /\ svc.load # "published"
    BY Ladder DEF Live, Backed, Sealed
  <2> QED
    BY ONLY <2>1 DEF Services
<1>2. PoisonWith(slot, v)
  OBVIOUS
<1> HIDE DEF v
<1> QED
  BY <1>1, <1>2, PoisonKeeps DEF Live

(* The observer covers both ends of the step. *)
Covered(x) == ObserverOf(x) = "held"

(* In every other state the observer is held. *)
LEMMA CoveredStates ==
  ASSUME NEW x, x \notin Beginning, x \notin {"COMMITTING", "PUBLISHED",
                                             "ABORTED"}
  PROVE  Covered(x)
BY DEF Covered, ObserverOf, Beginning

(* A step up the ladder. *)
LEMMA Climbs ==
  ASSUME IndInv, ~poisoned, Live, Covered(slot.state),
         UNCHANGED <<gens, poisoned>>, NEW x, slot'.state = x, Rank(x) # 0,
         Covered(x), slot' \in Slot, svc' \in Services, svc'.closes <= 1,
         ControlOf(x, call'),
         slot'.observer = slot.observer, slot'.request = slot.request,
         slot'.runtime = slot.runtime, svc'.gate = svc.gate,
         Deps(slot'), Rung(Rank(x), slot'), Backed(slot', svc'),
         x = "ENVIRONMENT_READING" => IsProcess(slot'),
         x = "ENVIRONMENT_SCANNING" => slot'.source # "none",
         x = "HANDOFF_STAGING" => slot'.request = "exec0"
  PROVE  IndInv'
<1>1. Guarded(slot', svc')
  BY DEF Live, Guarded, Covered
<1>3. Forward(slot')
  BY DEF Forward
<1>4. x \notin {"POISONED", "VACANT"}
  BY OffLadder
<1> QED
  BY <1>1, OffLadder, <1>3, <1>4, StaysLive
  DEF Covered, ObserverOf, Live, ControlOf, Beginning, Backward, IsProcess

(* A step along a rung changes nothing but the state. *)
LEMMA Moves ==
  ASSUME IndInv, ~poisoned, Live, Covered(slot.state), NEW x \in Reached,
         Rank(x) = Rank(slot.state), Rank(x) # 0, Covered(x),
         ControlOf(x, call'), slot' = At(x), svc' = svc,
         UNCHANGED <<gens, poisoned>>,
         x = "ENVIRONMENT_READING" => IsProcess(slot),
         x \in {"FILE_OPEN", "FILE_PROBING"} => svc.file = "open",
         x = "ENVIRONMENT_SCANNING" => slot.source # "none",
         x = "HANDOFF_STAGING" => slot.request = "exec0"
  PROVE  IndInv'
<1>1. slot' \in Slot /\ slot'.state = x
  BY KnownStates DEF Live, Slot, At
<1>3. Deps(slot')
  BY DEF Live, Slot, At, Deps, IsProcess
<1>4. Rung(Rank(x), slot')
  BY DEF Live, Forward, Slot, At, Rung, FileRung, ImageRung, ChildRung, IsProcess
<1>5. Backed(slot', svc')
  BY <1>1, OffLadder DEF Live, Slot, At, Covered, ObserverOf, Sealed, Backed
<1> QED
  BY <1>1, <1>3, <1>4, <1>5, Climbs DEF Live, IsProcess, Slot, At

(* A callback that fails, or a check that refuses, leaves a failed slot. *)
LEMMA FailsWith ==
  ASSUME IndInv, ~poisoned, Live, Covered(slot.state),
         Rank(slot.state) \in 1 .. 22, slot' = At("FAILED"),
         svc' \in Services, svc'.gate = svc.gate, svc'.closes <= 1,
         call' = "idle", UNCHANGED <<gens, poisoned>>,
         Backed(slot', svc')
  PROVE  IndInv'
<1>1. slot' \in Slot /\ slot'.state = "FAILED"
  BY KnownStates DEF Live, Slot, At, Reached
<1>2. /\ slot'.observer = slot.observer /\ slot'.request = slot.request
      /\ slot'.runtime = slot.runtime /\ slot'.journal = slot.journal
      /\ slot'.name = slot.name /\ slot'.file = slot.file
  BY DEF Live, Slot, At
<1>3. Deps(slot')
  BY DEF Live, Slot, At, Deps, IsProcess
<1>4. (slot.name <=> slot.file) /\ slot.journal # "sealed"
  <2>1. Rung(Rank(slot.state), slot) /\ Deps(slot) /\ slot \in Slot
    BY DEF Live, Forward
  <2> QED
    BY <2>1 DEF Rung, FileRung, ChildRung, Deps, Slot, IsProcess
<1>5. Forward(slot') /\ Guarded(slot', svc')
  BY <1>1, <1>2, OffLadder DEF Forward, Guarded, ObserverOf, Live, Covered
<1>7. ControlOf("FAILED", "idle")
  BY DEF ControlOf, Resting, CanAbort
<1> QED
  BY <1>1, <1>3, <1>5, <1>2, <1>4, <1>7, StaysLive
  DEF Live, Covered, ObserverOf, ControlOf, Beginning, Backward, IsProcess

(* Below the rebinds, with nothing changed but the state. *)
LEMMA FailKeeps ==
  ASSUME IndInv, ~poisoned, Live, Covered(slot.state),
         Rank(slot.state) \in 1 .. 19, slot' = At("FAILED"), svc' = svc,
         call' = "idle", UNCHANGED <<gens, poisoned>>
  PROVE  IndInv'
<1> QED
  BY OffLadder, FailsWith, SMTT(40)
  DEF Live, Slot, At, Covered, ObserverOf, Sealed, Forward, Rung, ChildRung, Backed

(* An operation that the coordinator accepts finds a live slot at rest. *)
LEMMA Accepted ==
  ASSUME IndInv, Resolves,
         slot.state \in CanAbort \cup {"PUBLISHED", "ABORTED"}
  PROVE  /\ ~poisoned /\ Live /\ call = "idle"
         /\ \A c : Entered(c) = c
<1>1. ~poisoned /\ slot.state # "VACANT"
  BY DEF Resolves
<1>2. Live
  BY <1>1, LiveParts
<1> QED
  BY <1>1, <1>2, AtRest DEF Live, Resting

(* A callback that returns finds a live slot. *)
LEMMA CalledBack ==
  ASSUME IndInv, call # "idle"
  PROVE  ~poisoned /\ Live
<1> QED
  BY LiveParts DEF IndInv, ControlOf, Beginning, Advancing, StagesLeft

(* A state of a running operation, and a state at rest, by name. *)
LEMMA Runs ==
  ASSUME NEW x \in Advancing
  PROVE  ControlOf(x, "advance")
BY DEF ControlOf

(* A resting state has no call on the stack. *)
LEMMA Rests ==
  ASSUME NEW x \in Resting
  PROVE  ControlOf(x, "idle")
BY DEF ControlOf

-----------------------------------------------------------------------------
(* The executable                                                          *)

(* open and the read of the name. *)
LEMMA OpenKeeps ==
  ASSUME IndInv, Open
  PROVE  IndInv'
<1>1. Resolves /\ slot.state = "OBSERVED"
  BY DEF Open, Accepts
<1>2. ~poisoned /\ Live /\ Entered("advance") = "advance"
  BY <1>1, Accepted DEF CanAbort
<1> QED
  BY <1>1, <1>2, Moves, Ladder, Runs, CoveredStates
  DEF Advancing, Beginning, Reached, Open, Enter, Do

(* The program's name has been read, or could not be. *)
LEMMA NameReadKeeps ==
  ASSUME IndInv, ~poisoned, Live, NameRead
  PROVE  IndInv'
<1>1. slot.state = "NAME_READING"
  BY DEF NameRead
<1>2. call = "advance"
  BY <1>1, OnStack DEF Live, Advancing
<1>3. CASE Fail
  BY <1>1, <1>3, FailKeeps, Ladder, CoveredStates
  DEF Fail, Return, Do, Beginning
<1>4. CASE Continue(At("FILE_OPENING"), svc)
  BY <1>2, <1>4, <1>1, Moves, Ladder, Runs, CoveredStates
  DEF Continue, Do, Advancing, Beginning, Reached
<1> QED
  BY <1>3, <1>4 DEF NameRead

(* open publishes the file lease, or nothing. *)
LEMMA OpenedKeeps ==
  ASSUME IndInv, ~poisoned, Live, Opened
  PROVE  IndInv'
<1>1. slot.state = "FILE_OPENING"
  BY DEF Opened
<1>2. Rung(1, slot) /\ Covered(slot.state)
  BY <1>1, Ladder, CoveredStates, SMTT(40) DEF Live, Forward, Beginning
<1>3. CASE Return([slot EXCEPT !.state = "FILE_OPEN", !.name = TRUE,
                               !.file = TRUE],
                  [svc EXCEPT !.file = "open", !.closes = 0])
  <2>1. /\ slot' = [slot EXCEPT !.state = "FILE_OPEN", !.name = TRUE,
                                !.file = TRUE]
        /\ svc' = [svc EXCEPT !.file = "open", !.closes = 0]
        /\ call' = "idle" /\ UNCHANGED <<gens, poisoned>>
    BY <1>3 DEF Return, Do
  <2>2. /\ slot' \in Slot /\ slot'.state = "FILE_OPEN"
        /\ slot'.observer = slot.observer /\ slot'.request = slot.request
        /\ slot'.runtime = slot.runtime
    BY <2>1, KnownStates, ZenonT(60) DEF Live, Slot, Reached
  <2>3. /\ svc' \in Services /\ svc'.closes = 0 /\ svc'.file = "open"
        /\ svc'.gate = svc.gate /\ svc'.env = svc.env
        /\ svc'.load = svc.load /\ svc'.batch = svc.batch
        /\ svc'.backend = svc.backend /\ svc'.backends = svc.backends
    <3>1. svc \in Services /\ svc' = [svc EXCEPT !.file = "open", !.closes = 0]
      BY <2>1 DEF Live
    <3>2. PICK u : u = [svc EXCEPT !.file = "open"]
      OBVIOUS
    <3>3. u \in Services /\ svc' = [u EXCEPT !.closes = 0]
      BY <3>1, <3>2 DEF Services
    <3>4. svc' \in Services
      BY ONLY <3>3 DEF Services
    <3> QED
      BY ONLY <3>1, <3>4 DEF Services
  <2>4. Deps(slot')
    BY <2>1 DEF Live, Slot, Deps, IsProcess
  <2>5. Rung(2, slot')
    BY <1>2, <2>1 DEF Live, Slot, Rung, FileRung, ImageRung, ChildRung,
                      IsProcess
  <2>6. Backed(slot', svc')
    BY <2>1, <1>1, <2>2, <2>3, Ladder, SMTT(40) DEF Live, Slot, Backed, Sealed
  <2> QED
    BY <1>2, <2>1, <2>2, <2>3, <2>4, <2>5, <2>6, Climbs, Ladder, Rests,
       CoveredStates
    DEF Resting, CanAbort, Beginning
<1>4. CASE Fail
  BY <1>1, <1>2, <1>4, FailKeeps, Ladder DEF Fail, Return, Do
<1>5. CASE PoisonWith(slot, [svc EXCEPT !.file = "poisoned"])
  BY <1>1, <1>5, FilePoisonKeeps, Ladder
<1> QED
  BY <1>3, <1>4, <1>5 DEF Opened

(* probe and the answer to it. *)
LEMMA ProbeKeeps ==
  ASSUME IndInv, Probe
  PROVE  IndInv'
<1>1. Resolves /\ slot.state = "FILE_OPEN"
  BY DEF Probe, Accepts
<1>2. /\ ~poisoned /\ Live /\ \A c : Entered(c) = c
      /\ Rung(2, slot) /\ Covered(slot.state)
  BY <1>1, Accepted, Ladder, CoveredStates, SMTT(40)
  DEF CanAbort, Live, Forward, Beginning
<1>3. svc.file = "open"
  BY <1>1, <1>2 DEF Live, Backed
<1>4. CASE Enter("FILE_PROBING")
  BY <1>2, <1>4, <1>1, Moves, Ladder, Runs, CoveredStates, <1>3
  DEF Enter, Do, Advancing, Beginning, Reached
<1> QED
  BY <1>4 DEF Probe

(* The file has been opened and probed, or was refused. *)
LEMMA ProbedKeeps ==
  ASSUME IndInv, ~poisoned, Live, Probed
  PROVE  IndInv'
<1>1. slot.state = "FILE_PROBING"
  BY DEF Probed
<1>2. Rung(2, slot) /\ Covered(slot.state)
  BY <1>1, Ladder, CoveredStates DEF Live, Forward, Beginning
<1>3. svc.file = "open"
  BY <1>1, <1>2 DEF Live, Backed
<1>4. CASE Return(At("FILE_PROBED"), [svc EXCEPT !.file = "probed"])
  <2>1. /\ slot' = [slot EXCEPT !.state = "FILE_PROBED"]
        /\ svc' = [svc EXCEPT !.file = "probed"]
        /\ call' = "idle" /\ UNCHANGED <<gens, poisoned>>
    BY <1>4 DEF Return, Do, At
  <2>2. /\ slot' \in Slot /\ slot'.state = "FILE_PROBED"
        /\ slot'.observer = slot.observer /\ slot'.request = slot.request
        /\ slot'.runtime = slot.runtime
    BY <2>1, KnownStates DEF Live, Slot, Reached
  <2>3. /\ svc' \in Services
        /\ svc'.gate = svc.gate /\ svc'.file = "probed"
        /\ svc'.closes = svc.closes /\ svc'.env = svc.env
        /\ svc'.load = svc.load /\ svc'.batch = svc.batch
        /\ svc'.backend = svc.backend /\ svc'.backends = svc.backends
    BY <2>1 DEF Live, Services
  <2>4. Deps(slot')
    BY <1>2, <2>1
    DEF Live, Slot, Deps, IsProcess, Rung, FileRung, ImageRung, ChildRung
  <2>5. Rung(2, slot')
    BY <1>2, <2>1
    DEF Live, Slot, Deps, Rung, FileRung, ImageRung, ChildRung, IsProcess
  <2>6. Backed(slot', svc')
    <3>1. /\ slot'.file = slot.file /\ slot'.envBlock = slot.envBlock
          /\ slot'.block = slot.block /\ slot'.batch = slot.batch
          /\ slot'.session = slot.session
      BY <2>1 DEF Live, Slot
    <3> QED
      BY <1>1, <1>2, <1>3, <2>1, <2>2, <2>3, <3>1, Ladder
      DEF Live, Backed, Sealed, Rung, ImageRung, ChildRung, FileRung
  <2>7. /\ Covered("FILE_PROBED") /\ Rank("FILE_PROBED") = 2
        /\ ControlOf("FILE_PROBED", "idle")
        /\ svc'.closes <= 1
    BY <2>1, <2>3, Ladder, CoveredStates, Rests
    DEF Live, Beginning, Resting, CanAbort
  <2> QED
    BY <1>2, <2>1, <2>2, <2>3, <2>4, <2>5, <2>6, <2>7, Climbs
<1>5. CASE Return(At("FAILED"), [svc EXCEPT !.file = "probed"])
  <2>1. /\ slot' = At("FAILED") /\ svc' = [svc EXCEPT !.file = "probed"]
        /\ call' = "idle" /\ UNCHANGED <<gens, poisoned>>
    BY <1>5 DEF Return, Do
  <2>2. /\ svc' \in Services
        /\ svc'.gate = svc.gate /\ svc'.file = "probed"
        /\ svc'.closes = svc.closes /\ svc'.env = svc.env
        /\ svc'.load = svc.load /\ svc'.batch = svc.batch
        /\ svc'.backend = svc.backend /\ svc'.backends = svc.backends
    BY <2>1 DEF Live, Services
  <2>3. Backed(slot', svc')
    BY <1>2, <2>1, <1>1, <1>3, <2>2, OffLadder
    DEF Live, Slot, At, Rung, ChildRung, Backed, Sealed
  <2> QED
    BY <1>1, <1>2, <2>1, <2>2, <2>3, FailsWith, Ladder DEF Live
<1>6. CASE Fail
  BY <1>1, <1>2, <1>6, FailKeeps, Ladder DEF Fail, Return, Do
<1>7. CASE PoisonWith(slot, [svc EXCEPT !.file = "poisoned"])
  BY <1>1, <1>7, FilePoisonKeeps, Ladder
<1> QED
  BY <1>4, <1>5, <1>6, <1>7 DEF Probed

(* close, before or after the image has been loaded. *)
LEMMA CloseKeeps ==
  ASSUME IndInv, Close
  PROVE  IndInv'
<1>1. Resolves /\ slot.state \in {"FILE_PROBED", "IMAGE_PRIVATE"}
  BY DEF Close
<1>2. /\ ~poisoned /\ Live /\ Entered("advance") = "advance"
      /\ Covered(slot.state)
  BY <1>1, Accepted, CoveredStates DEF CanAbort, Beginning
<1>3. CASE slot.state = "FILE_PROBED"
  BY <1>2, <1>3, Moves, Ladder, Runs, CoveredStates
  DEF Close, Enter, Do, Advancing, Beginning, Reached
<1>4. CASE slot.state = "IMAGE_PRIVATE"
  BY <1>2, <1>4, Moves, Ladder, Runs, CoveredStates
  DEF Close, Enter, Do, Advancing, Beginning, Reached
<1> QED
  BY <1>1, <1>3, <1>4

(* finish_lease closes an open reader once and a closed one not again. *)
LEMMA FinishedOnce ==
  ASSUME NEW v \in Services, v.closes <= 1, NEW w, w = Finished(v),
         v.file \in {"open", "probed"} => v.closes = 0,
         v.file \in {"open", "probed", "closed"}
  PROVE  /\ w \in Services /\ w.closes <= 1 /\ w.file = "closed"
         /\ w.gate = v.gate /\ w.env = v.env /\ w.load = v.load
         /\ w.arena = v.arena /\ w.batch = v.batch /\ w.pdb = v.pdb
         /\ w.backend = v.backend /\ w.backends = v.backends
<1>1. CASE v.file = "closed"
  BY <1>1 DEF Finished
<1>2. CASE v.file # "closed"
  <2>1. w = [v EXCEPT !.file = "closed", !.closes = 1]
    <3>1. v.closes = 0
      BY <1>2
    <3> QED
      BY <1>2, <3>1 DEF Finished, Services
  <2>2. PICK u : u = [v EXCEPT !.file = "closed"]
    OBVIOUS
  <2>3. u \in Services /\ w = [u EXCEPT !.closes = 1]
    BY <2>1, <2>2 DEF Services
  <2>4. w \in Services
    BY ONLY <2>3 DEF Services
  <2> QED
    BY ONLY <2>1, <2>4, v \in Services DEF Services
<1> QED
  BY <1>1, <1>2

(* The reader of a request that goes no further. *)
LEMMA FileClosedKeeps ==
  ASSUME IndInv, ~poisoned, Live, Closed, slot.state = "FILE_CLOSING"
  PROVE  IndInv'
<1>1. slot.state = "FILE_CLOSING"
  OBVIOUS
<1>2. Rung(2, slot) /\ Covered(slot.state)
  BY <1>1, Ladder, CoveredStates, SMTT(40) DEF Live, Forward, Beginning
<1>3. svc.file \in {"open", "probed", "closed"}
  BY DEF Closed
<1>4. CASE Return(At("FILE_CLOSED"), Finished(svc))
  <2>1. /\ slot' = [slot EXCEPT !.state = "FILE_CLOSED"]
        /\ svc' = Finished(svc)
        /\ call' = "idle" /\ UNCHANGED <<gens, poisoned>>
    BY <1>4 DEF Return, Do, At
  <2>2. /\ slot' \in Slot /\ slot'.state = "FILE_CLOSED"
        /\ slot'.observer = slot.observer /\ slot'.request = slot.request
        /\ slot'.runtime = slot.runtime
    BY <2>1, KnownStates DEF Live, Slot, Reached
  <2>3. /\ svc' \in Services /\ svc'.closes <= 1
        /\ svc'.gate = svc.gate /\ svc'.file = "closed"
        /\ svc'.env = svc.env /\ svc'.load = svc.load
        /\ svc'.batch = svc.batch /\ svc'.backend = svc.backend
        /\ svc'.backends = svc.backends
    BY <1>3, <2>1, FinishedOnce DEF Live, Backed
  <2>4. Deps(slot')
    BY <1>2, <2>1
    DEF Live, Slot, Deps, IsProcess, Rung, FileRung, ImageRung, ChildRung
  <2>5. Rung(2, slot')
    BY <1>2, <2>1
    DEF Live, Slot, Deps, Rung, FileRung, ImageRung, ChildRung, IsProcess
  <2>6. Backed(slot', svc')
    BY <2>1, <1>1, <1>2, <2>2, <2>3, Ladder
    DEF Live, Slot, Backed, Sealed, Rung, ImageRung, ChildRung, FileRung
  <2>7. /\ Covered("FILE_CLOSED") /\ Rank("FILE_CLOSED") = 2
        /\ ControlOf("FILE_CLOSED", "idle")
        /\ svc'.closes <= 1
    BY <2>1, <2>3, Ladder, CoveredStates, Rests
    DEF Live, Beginning, Resting, CanAbort
  <2> QED
    BY <1>2, <2>1, <2>2, <2>3, <2>4, <2>5, <2>6, <2>7, Climbs
<1>5. CASE Fail
  BY <1>1, <1>2, <1>5, FailKeeps, Ladder DEF Fail, Return, Do
<1>6. CASE PoisonWith(slot, [svc EXCEPT !.file = "poisoned"])
  BY <1>1, <1>6, FilePoisonKeeps, Ladder
<1> QED
  BY <1>1, <1>4, <1>5, <1>6 DEF Closed

(* The reader of an image that has been loaded. *)
LEMMA ProcessFileClosedKeeps ==
  ASSUME IndInv, ~poisoned, Live, Closed, slot.state = "PROCESS_FILE_CLOSING"
  PROVE  IndInv'
<1>1. slot.state = "PROCESS_FILE_CLOSING"
  OBVIOUS
<1>2. Rung(14, slot) /\ Covered(slot.state)
  BY <1>1, Ladder, CoveredStates DEF Live, Forward, Beginning
<1>3. svc.file \in {"open", "probed", "closed"}
  BY DEF Closed
<1>4. CASE Return(At("PROCESS_FILE_CLOSED"), Finished(svc))
  <2>1. /\ slot' = [slot EXCEPT !.state = "PROCESS_FILE_CLOSED"]
        /\ svc' = Finished(svc)
        /\ call' = "idle" /\ UNCHANGED <<gens, poisoned>>
    BY <1>4 DEF Return, Do, At
  <2>2. /\ slot' \in Slot /\ slot'.state = "PROCESS_FILE_CLOSED"
        /\ slot'.observer = slot.observer /\ slot'.request = slot.request
        /\ slot'.runtime = slot.runtime
    BY <2>1, KnownStates DEF Live, Slot, Reached
  <2>3. /\ svc' \in Services /\ svc'.closes <= 1
        /\ svc'.gate = svc.gate /\ svc'.file = "closed"
        /\ svc'.env = svc.env /\ svc'.load = svc.load
        /\ svc'.batch = svc.batch /\ svc'.backend = svc.backend
        /\ svc'.backends = svc.backends
    BY <1>3, <2>1, FinishedOnce DEF Live, Backed
  <2>4. Deps(slot')
    BY <1>2, <2>1
    DEF Live, Slot, Deps, IsProcess, Rung, FileRung, ImageRung, ChildRung
  <2>5. Rung(15, slot')
    BY <1>2, <2>1
    DEF Live, Slot, Deps, Rung, FileRung, ImageRung, ChildRung, IsProcess
  <2>6. Backed(slot', svc')
    BY <2>1, <1>1, <1>2, <2>2, <2>3, Ladder, SMTT(40)
    DEF Live, Slot, Backed, Sealed, Rung, ImageRung, ChildRung, FileRung
  <2>7. /\ Covered("PROCESS_FILE_CLOSED") /\ Rank("PROCESS_FILE_CLOSED") = 15
        /\ ControlOf("PROCESS_FILE_CLOSED", "idle")
        /\ svc'.closes <= 1
    BY <2>1, <2>3, Ladder, CoveredStates, Rests
    DEF Live, Beginning, Resting, CanAbort
  <2> QED
    BY <1>2, <2>1, <2>2, <2>3, <2>4, <2>5, <2>6, <2>7, Climbs
<1>5. CASE Fail
  BY <1>1, <1>2, <1>5, FailKeeps, Ladder DEF Fail, Return, Do
<1>6. CASE PoisonWith(slot, [svc EXCEPT !.file = "poisoned"])
  BY <1>1, <1>6, FilePoisonKeeps, Ladder
<1> QED
  BY <1>1, <1>4, <1>5, <1>6 DEF Closed

(* The file has been closed, or its close failed. *)
LEMMA ClosedKeeps ==
  ASSUME IndInv, ~poisoned, Live, Closed
  PROVE  IndInv'
BY FileClosedKeeps, ProcessFileClosedKeeps DEF Closed

-----------------------------------------------------------------------------
(* The environment                                                         *)

(* select_environment and the read of the parameter block. *)
LEMMA SelectEnvironmentKeeps ==
  ASSUME IndInv, SelectEnvironment
  PROVE  IndInv'
<1>1. Resolves /\ slot.state = "FILE_PROBED" /\ IsProcess(slot)
  BY DEF SelectEnvironment, AcceptsProcess, Accepts
<1>2. /\ ~poisoned /\ Live /\ \A c : Entered(c) = c
      /\ Rung(2, slot) /\ Covered(slot.state)
  BY <1>1, Accepted, Ladder, CoveredStates, SMTT(40)
  DEF CanAbort, Live, Forward, Beginning
<1>3. CASE PoisonTransaction
  BY <1>1, <1>2, <1>3, PoisonHere, Ladder
<1>4. CASE Refuse("FAILED")
  BY <1>1, <1>2, <1>4, FailKeeps, Ladder DEF Refuse, Do
<1>5. CASE Enter("ENVIRONMENT_READING")
  BY <1>2, <1>5, <1>1, Moves, Ladder, Runs, CoveredStates
  DEF Enter, Do, Advancing, Beginning, Reached
<1> QED
  BY <1>3, <1>4, <1>5 DEF SelectEnvironment, Preflighted

(* It is known where the environment comes from. *)
LEMMA EnvironmentReadKeeps ==
  ASSUME IndInv, ~poisoned, Live, EnvironmentRead
  PROVE  IndInv'
<1>1. slot.state = "ENVIRONMENT_READING"
  BY DEF EnvironmentRead
<1>2. Rung(2, slot) /\ Covered(slot.state)
  BY <1>1, Ladder, CoveredStates DEF Live, Forward, Beginning
<1>3. IsProcess(slot)
  BY <1>1 DEF Live, Forward
<1>4. ASSUME NEW k \in {"parameter", "parent", "none"},
             Return([slot EXCEPT !.state = "ENV_READY", !.source = k], svc)
      PROVE  IndInv'
  <2>1. /\ slot' = [slot EXCEPT !.state = "ENV_READY", !.source = k]
        /\ svc' = svc
        /\ call' = "idle" /\ UNCHANGED <<gens, poisoned>>
    BY <1>4 DEF Return, Do
  <2>2. /\ slot' \in Slot /\ slot'.state = "ENV_READY"
        /\ slot'.observer = slot.observer /\ slot'.request = slot.request
        /\ slot'.runtime = slot.runtime
    BY <2>1, KnownStates, ZenonT(60) DEF Live, Slot, Reached
  <2>3. svc' \in Services /\ svc'.gate = svc.gate
    BY <2>1 DEF Live
  <2>4. Deps(slot')
    BY <1>2, <2>1, <1>3, <1>4
    DEF Live, Slot, Deps, IsProcess, Rung, FileRung, ImageRung, ChildRung
  <2>5. Rung(3, slot')
    BY <1>2, <2>1, <1>3, <1>4
    DEF Live, Slot, Deps, Rung, FileRung, ImageRung, ChildRung, IsProcess
  <2>6. Backed(slot', svc')
    BY <2>1, <1>1, <1>2, <2>2, <2>3, Ladder, SMTT(40)
    DEF Live, Slot, Backed, Sealed, Rung, ImageRung, ChildRung, FileRung
  <2>7. /\ Covered("ENV_READY") /\ Rank("ENV_READY") = 3
        /\ ControlOf("ENV_READY", "idle")
        /\ svc'.closes <= 1
    BY <2>1, <2>3, Ladder, CoveredStates, Rests
    DEF Live, Beginning, Resting, CanAbort
  <2> QED
    BY <1>2, <2>1, <2>2, <2>3, <2>4, <2>5, <2>6, <2>7, Climbs
<1>5. CASE Fail
  BY <1>1, <1>2, <1>5, FailKeeps, Ladder DEF Fail, Return, Do
<1>6. CASE PoisonTransaction
  BY <1>1, <1>6, PoisonHere, Ladder
<1> QED
  BY <1>4, <1>5, <1>6 DEF EnvironmentRead

(* prepare_environment: nothing to copy, no owner, or a scan. *)
LEMMA PrepareEnvironmentKeeps ==
  ASSUME IndInv, PrepareEnvironment
  PROVE  IndInv'
<1>1. Resolves /\ slot.state = "ENV_READY" /\ IsProcess(slot)
  BY DEF PrepareEnvironment, AcceptsProcess, Accepts
<1>2. /\ ~poisoned /\ Live /\ \A c : Entered(c) = c
      /\ Rung(3, slot) /\ Covered(slot.state)
  BY <1>1, Accepted, Ladder, CoveredStates, SMTT(40)
  DEF CanAbort, Live, Forward, Beginning
<1>3. CASE PoisonTransaction \/ PoisonDomain
  BY <1>1, <1>2, <1>3, PoisonHere, Ladder
<1>4. CASE Refuse("FAILED")
  BY <1>1, <1>2, <1>4, FailKeeps, Ladder DEF Refuse, Do
<1>5. CASE slot.source = "none" /\ Refuse("ENVIRONMENT_BLOCK_READY")
  <2>1. /\ slot' = [slot EXCEPT !.state = "ENVIRONMENT_BLOCK_READY"]
        /\ svc' = svc
        /\ call' = "idle" /\ UNCHANGED <<gens, poisoned>>
    BY <1>2, <1>5 DEF Refuse, Do, At
  <2>2. /\ slot' \in Slot /\ slot'.state = "ENVIRONMENT_BLOCK_READY"
        /\ slot'.observer = slot.observer /\ slot'.request = slot.request
        /\ slot'.runtime = slot.runtime
    BY <1>2, <2>1, KnownStates DEF Live, Slot, Reached
  <2>3. svc' \in Services /\ svc'.gate = svc.gate
    BY <1>2, <2>1 DEF Live
  <2>4. Deps(slot')
    BY <1>2, <2>1, <1>5
    DEF Live, Slot, Deps, IsProcess, Rung, FileRung, ImageRung, ChildRung
  <2>5. Rung(6, slot')
    BY <1>2, <2>1, <1>5
    DEF Live, Slot, Deps, Rung, FileRung, ImageRung, ChildRung, IsProcess
  <2>6. Backed(slot', svc')
    <3>1. /\ slot'.file = slot.file /\ slot'.envBlock = slot.envBlock
          /\ slot'.block = slot.block /\ slot'.batch = slot.batch
          /\ slot'.session = slot.session
      BY <1>2, <2>1 DEF Live, Slot
    <3> QED
      BY <1>1, <1>2, <2>1, <2>2, <2>3, <3>1, Ladder
      DEF Live, Backed, Sealed, Rung, ImageRung, ChildRung, FileRung
  <2>7. /\ Covered("ENVIRONMENT_BLOCK_READY") /\ Rank("ENVIRONMENT_BLOCK_READY") = 6
        /\ ControlOf("ENVIRONMENT_BLOCK_READY", "idle")
        /\ svc'.closes <= 1
    BY <1>2, <2>1, <2>3, Ladder, CoveredStates, Rests
    DEF Live, Beginning, Resting, CanAbort
  <2> QED
    BY <1>2, <2>1, <2>2, <2>3, <2>4, <2>5, <2>6, <2>7, Climbs
<1>6. CASE slot.source # "none" /\ Enter("ENVIRONMENT_SCANNING")
  BY <1>2, <1>6, <1>1, Moves, Ladder, Runs, CoveredStates
  DEF Enter, Do, Advancing, Beginning, Reached
<1> QED
  BY <1>3, <1>4, <1>5, <1>6
  DEF PrepareEnvironment, PreflightedArena, Preflighted

(* The environment has been scanned for its end. *)
LEMMA EnvironmentScannedKeeps ==
  ASSUME IndInv, ~poisoned, Live, EnvironmentScanned
  PROVE  IndInv'
<1>1. slot.state = "ENVIRONMENT_SCANNING"
  BY DEF EnvironmentScanned
<1>2. Rung(3, slot) /\ Covered(slot.state)
  BY <1>1, Ladder, CoveredStates, SMTT(40) DEF Live, Forward, Beginning
<1>3. slot.source # "none" /\ call = "advance"
  BY <1>1, OnStack DEF Live, Forward, Advancing
<1>4. CASE Continue([slot EXCEPT !.state = "ENVIRONMENT_ALLOCATING",
                                 !.envPlan = TRUE], svc)
  <2>1. /\ slot' = [slot EXCEPT !.state = "ENVIRONMENT_ALLOCATING",
                                !.envPlan = TRUE]
        /\ svc' = svc
        /\ call' = "advance" /\ UNCHANGED <<gens, poisoned>>
    BY <1>3, <1>4 DEF Continue, Do
  <2>2. /\ slot' \in Slot /\ slot'.state = "ENVIRONMENT_ALLOCATING"
        /\ slot'.observer = slot.observer /\ slot'.request = slot.request
        /\ slot'.runtime = slot.runtime
    BY <2>1, KnownStates, ZenonT(60) DEF Live, Slot, Reached
  <2>3. svc' \in Services /\ svc'.gate = svc.gate
    BY <2>1 DEF Live
  <2>4. Deps(slot')
    BY <1>2, <2>1, <1>3
    DEF Live, Slot, Deps, IsProcess, Rung, FileRung, ImageRung, ChildRung
  <2>5. Rung(4, slot')
    BY <1>2, <2>1, <1>3
    DEF Live, Slot, Deps, Rung, FileRung, ImageRung, ChildRung, IsProcess
  <2>6. Backed(slot', svc')
    <3>1. /\ slot'.file = slot.file /\ slot'.envBlock = slot.envBlock
          /\ slot'.block = slot.block /\ slot'.batch = slot.batch
          /\ slot'.session = slot.session
      BY <2>1 DEF Live, Slot
    <3> QED
      BY <1>1, <1>2, <2>1, <2>2, <2>3, <3>1, Ladder
      DEF Live, Backed, Sealed, Rung, ImageRung, ChildRung, FileRung
  <2>7. /\ Covered("ENVIRONMENT_ALLOCATING") /\ Rank("ENVIRONMENT_ALLOCATING") = 4
        /\ ControlOf("ENVIRONMENT_ALLOCATING", "advance")
        /\ svc'.closes <= 1
    BY <2>1, <2>3, Ladder, CoveredStates, Runs DEF Live, Beginning, Advancing
  <2> QED
    BY <1>2, <2>1, <2>2, <2>3, <2>4, <2>5, <2>6, <2>7, Climbs
<1>5. CASE Fail
  BY <1>1, <1>2, <1>5, FailKeeps, Ladder DEF Fail, Return, Do
<1>6. CASE PoisonDomain
  BY <1>1, <1>6, PoisonHere, Ladder
<1> QED
  BY <1>4, <1>5, <1>6 DEF EnvironmentScanned

(* The block for the environment has been leased, or was refused. *)
LEMMA EnvironmentAllocatedKeeps ==
  ASSUME IndInv, ~poisoned, Live, EnvironmentAllocated
  PROVE  IndInv'
<1>1. slot.state = "ENVIRONMENT_ALLOCATING"
  BY DEF EnvironmentAllocated
<1>2. Rung(4, slot) /\ Covered(slot.state)
  BY <1>1, Ladder, CoveredStates, SMTT(40) DEF Live, Forward, Beginning
<1>3. call = "advance"
  BY <1>1, OnStack DEF Live, Advancing
<1>4. CASE Continue([slot EXCEPT !.state = "ENVIRONMENT_BUILDING",
                                 !.envBlock = TRUE],
                    [svc EXCEPT !.env = "active"])
  <2>1. /\ slot' = [slot EXCEPT !.state = "ENVIRONMENT_BUILDING",
                                !.envBlock = TRUE]
        /\ svc' = [svc EXCEPT !.env = "active"]
        /\ call' = "advance" /\ UNCHANGED <<gens, poisoned>>
    BY <1>3, <1>4 DEF Continue, Do
  <2>2. /\ slot' \in Slot /\ slot'.state = "ENVIRONMENT_BUILDING"
        /\ slot'.observer = slot.observer /\ slot'.request = slot.request
        /\ slot'.runtime = slot.runtime
    BY <2>1, KnownStates, ZenonT(60) DEF Live, Slot, Reached
  <2>3. /\ svc' \in Services
        /\ svc'.gate = svc.gate /\ svc'.file = svc.file
        /\ svc'.closes = svc.closes /\ svc'.env = "active"
        /\ svc'.load = svc.load /\ svc'.batch = svc.batch
        /\ svc'.backend = svc.backend /\ svc'.backends = svc.backends
    BY <2>1 DEF Live, Services
  <2>4. Deps(slot')
    <3>1. slot.envPlan /\ slot.file /\ ~slot.loadRebind
      BY <1>2 DEF Live, Slot, Rung, FileRung, ChildRung
    <3> QED
      BY <2>1, <3>1, ZenonT(60) DEF Live, Slot, Deps, IsProcess
  <2>5. Rung(5, slot')
    BY <1>2, <2>1
    DEF Live, Slot, Deps, Rung, FileRung, ImageRung, ChildRung, IsProcess
  <2>6. Backed(slot', svc')
    BY <2>1, <1>1, <1>2, <2>2, <2>3, Ladder, SMTT(40)
    DEF Live, Slot, Backed, Sealed, Rung, ImageRung, ChildRung, FileRung
  <2>7. /\ Covered("ENVIRONMENT_BUILDING") /\ Rank("ENVIRONMENT_BUILDING") = 5
        /\ ControlOf("ENVIRONMENT_BUILDING", "advance")
        /\ svc'.closes <= 1
    BY <2>1, <2>3, Ladder, CoveredStates, Runs DEF Live, Beginning, Advancing
  <2> QED
    BY <1>2, <2>1, <2>2, <2>3, <2>4, <2>5, <2>6, <2>7, Climbs
<1>5. CASE Fail
  BY <1>1, <1>2, <1>5, FailKeeps, Ladder DEF Fail, Return, Do
<1>6. CASE PoisonDomain
  BY <1>1, <1>6, PoisonHere, Ladder
<1> QED
  BY <1>4, <1>5, <1>6 DEF EnvironmentAllocated

(* The environment has been written into its block. *)
LEMMA EnvironmentBuiltKeeps ==
  ASSUME IndInv, ~poisoned, Live, EnvironmentBuilt
  PROVE  IndInv'
<1>1. slot.state = "ENVIRONMENT_BUILDING"
  BY DEF EnvironmentBuilt
<1>2. Rung(5, slot) /\ Covered(slot.state)
  BY <1>1, Ladder, CoveredStates, SMTT(40) DEF Live, Forward, Beginning
<1>3. CASE Return(At("ENVIRONMENT_BLOCK_READY"), svc)
  <2>1. /\ slot' = [slot EXCEPT !.state = "ENVIRONMENT_BLOCK_READY"]
        /\ svc' = svc
        /\ call' = "idle" /\ UNCHANGED <<gens, poisoned>>
    BY <1>3 DEF Return, Do, At
  <2>2. /\ slot' \in Slot /\ slot'.state = "ENVIRONMENT_BLOCK_READY"
        /\ slot'.observer = slot.observer /\ slot'.request = slot.request
        /\ slot'.runtime = slot.runtime
    BY <2>1, KnownStates DEF Live, Slot, Reached
  <2>3. svc' \in Services /\ svc'.gate = svc.gate
    BY <2>1 DEF Live
  <2>4. Deps(slot')
    BY <1>2, <2>1
    DEF Live, Slot, Deps, IsProcess, Rung, FileRung, ImageRung, ChildRung
  <2>5. Rung(6, slot')
    BY <1>2, <2>1
    DEF Live, Slot, Deps, Rung, FileRung, ImageRung, ChildRung, IsProcess
  <2>6. Backed(slot', svc')
    <3>1. /\ slot'.file = slot.file /\ slot'.envBlock = slot.envBlock
          /\ slot'.block = slot.block /\ slot'.batch = slot.batch
          /\ slot'.session = slot.session
      BY <2>1 DEF Live, Slot
    <3> QED
      BY <1>1, <1>2, <2>1, <2>2, <2>3, <3>1, Ladder
      DEF Live, Backed, Sealed, Rung, ImageRung, ChildRung, FileRung
  <2>7. /\ Covered("ENVIRONMENT_BLOCK_READY") /\ Rank("ENVIRONMENT_BLOCK_READY") = 6
        /\ ControlOf("ENVIRONMENT_BLOCK_READY", "idle")
        /\ svc'.closes <= 1
    BY <2>1, <2>3, Ladder, CoveredStates, Rests
    DEF Live, Beginning, Resting, CanAbort
  <2> QED
    BY <1>2, <2>1, <2>2, <2>3, <2>4, <2>5, <2>6, <2>7, Climbs
<1>4. CASE Fail
  BY <1>1, <1>2, <1>4, FailKeeps, Ladder DEF Fail, Return, Do
<1>5. CASE PoisonDomain
  BY <1>1, <1>5, PoisonHere, Ladder
<1> QED
  BY <1>3, <1>4, <1>5 DEF EnvironmentBuilt

-----------------------------------------------------------------------------
(* The image and its block                                                 *)

(* inspect_image, for a process with its environment in place *)
LEMMA InspectProcessKeeps ==
  ASSUME IndInv, AcceptsProcess("ENVIRONMENT_BLOCK_READY"),
         PreflightedArena(WithReader(slot, Enter("IMAGE_READING")))
  PROVE  IndInv'
<1>1. Resolves /\ slot.state = "ENVIRONMENT_BLOCK_READY" /\ IsProcess(slot)
  BY DEF AcceptsProcess, Accepts
<1>2. /\ ~poisoned /\ Live /\ \A c : Entered(c) = c
      /\ Rung(6, slot) /\ Covered(slot.state)
  BY <1>1, Accepted, Ladder, CoveredStates, SMTT(40)
  DEF CanAbort, Live, Forward, Beginning
<1>3. CASE PoisonTransaction \/ PoisonDomain
  BY <1>1, <1>2, <1>3, PoisonHere, Ladder
<1>4. CASE Refuse("FAILED")
  BY <1>1, <1>2, <1>4, FailKeeps, Ladder DEF Refuse, Do
<1>5. CASE Enter("IMAGE_READING")
  BY <1>2, <1>5, <1>1, Moves, Ladder, Runs, CoveredStates
  DEF Enter, Do, Advancing, Beginning, Reached
<1> QED
  BY <1>3, <1>4, <1>5
  DEF PreflightedArena, Preflighted, WithReader, PoisonTransaction

(* and for an overlay, straight from the probed file. *)
LEMMA InspectOverlayKeeps ==
  ASSUME IndInv, Accepts("FILE_PROBED"), ~IsProcess(slot),
         WithReader(slot, Enter("IMAGE_READING"))
  PROVE  IndInv'
<1>1. Resolves /\ slot.state = "FILE_PROBED"
  BY DEF Accepts
<1>2. /\ ~poisoned /\ Live /\ \A c : Entered(c) = c
      /\ Rung(2, slot) /\ Covered(slot.state)
  BY <1>1, Accepted, Ladder, CoveredStates, SMTT(40)
  DEF CanAbort, Live, Forward, Beginning
<1>3. CASE PoisonTransaction
  BY <1>1, <1>2, <1>3, PoisonHere, Ladder
<1>4. CASE Enter("IMAGE_READING")
  <2>1. /\ slot' = [slot EXCEPT !.state = "IMAGE_READING"]
        /\ svc' = svc
        /\ call' = "advance" /\ UNCHANGED <<gens, poisoned>>
    BY <1>2, <1>4 DEF Enter, Do, At
  <2>2. /\ slot' \in Slot /\ slot'.state = "IMAGE_READING"
        /\ slot'.observer = slot.observer /\ slot'.request = slot.request
        /\ slot'.runtime = slot.runtime
    BY <1>2, <2>1, KnownStates DEF Live, Slot, Reached
  <2>3. svc' \in Services /\ svc'.gate = svc.gate
    BY <1>2, <2>1 DEF Live
  <2>4. Deps(slot')
    BY <1>2, <2>1
    DEF Live, Slot, Deps, IsProcess, Rung, FileRung, ImageRung, ChildRung
  <2>5. Rung(6, slot')
    BY <1>2, <2>1
    DEF Live, Slot, Deps, Rung, FileRung, ImageRung, ChildRung, IsProcess
  <2>6. Backed(slot', svc')
    BY <1>2, <2>1, <1>1, <2>2, <2>3, Ladder, SMTT(40)
    DEF Live, Slot, Backed, Sealed, Rung, ImageRung, ChildRung, FileRung
  <2>7. /\ Covered("IMAGE_READING") /\ Rank("IMAGE_READING") = 6
        /\ ControlOf("IMAGE_READING", "advance")
        /\ svc'.closes <= 1
    BY <1>2, <2>1, <2>3, Ladder, CoveredStates, Runs
    DEF Live, Beginning, Advancing
  <2> QED
    BY <1>2, <2>1, <2>2, <2>3, <2>4, <2>5, <2>6, <2>7, Climbs
<1> QED
  BY <1>3, <1>4 DEF WithReader, PoisonTransaction

(* The inspection of the image starts. *)
LEMMA InspectImageKeeps ==
  ASSUME IndInv, InspectImage
  PROVE  IndInv'
BY InspectProcessKeeps, InspectOverlayKeeps DEF InspectImage

(* The header of the image has been read. *)
LEMMA ImageInspectedKeeps ==
  ASSUME IndInv, ~poisoned, Live, ImageInspected
  PROVE  IndInv'
<1>1. slot.state = "IMAGE_READING"
  BY DEF ImageInspected
<1>2. Rung(6, slot) /\ Covered(slot.state)
  BY <1>1, Ladder, CoveredStates, SMTT(40) DEF Live, Forward, Beginning
<1>3. ASSUME NEW f \in {"com", "mz"},
             Return([slot EXCEPT !.state = "IMAGE_READY", !.image = f], svc)
      PROVE  IndInv'
  <2>1. /\ slot' = [slot EXCEPT !.state = "IMAGE_READY", !.image = f]
        /\ svc' = svc
        /\ call' = "idle" /\ UNCHANGED <<gens, poisoned>>
    BY <1>3 DEF Return, Do
  <2>2. /\ slot' \in Slot /\ slot'.state = "IMAGE_READY"
        /\ slot'.observer = slot.observer /\ slot'.request = slot.request
        /\ slot'.runtime = slot.runtime
    BY <2>1, KnownStates, ZenonT(60) DEF Live, Slot, Reached
  <2>3. svc' \in Services /\ svc'.gate = svc.gate
    BY <2>1 DEF Live
  <2>4. Deps(slot')
    BY <1>2, <2>1, <1>3
    DEF Live, Slot, Deps, IsProcess, Rung, FileRung, ImageRung, ChildRung
  <2>5. Rung(7, slot')
    BY <1>2, <2>1, <1>3
    DEF Live, Slot, Deps, Rung, FileRung, ImageRung, ChildRung, IsProcess
  <2>6. Backed(slot', svc')
    <3>1. /\ slot'.file = slot.file /\ slot'.envBlock = slot.envBlock
          /\ slot'.block = slot.block /\ slot'.batch = slot.batch
          /\ slot'.session = slot.session
      BY <2>1 DEF Live, Slot
    <3> QED
      BY <1>1, <1>2, <2>1, <2>2, <2>3, <3>1, Ladder
      DEF Live, Backed, Sealed, Rung, ImageRung, ChildRung, FileRung
  <2>7. /\ Covered("IMAGE_READY") /\ Rank("IMAGE_READY") = 7
        /\ ControlOf("IMAGE_READY", "idle")
        /\ svc'.closes <= 1
    BY <2>1, <2>3, Ladder, CoveredStates, Rests
    DEF Live, Beginning, Resting, CanAbort
  <2> QED
    BY <1>2, <2>1, <2>2, <2>3, <2>4, <2>5, <2>6, <2>7, Climbs
<1>4. CASE Fail
  BY <1>1, <1>2, <1>4, FailKeeps, Ladder DEF Fail, Return, Do
<1>5. CASE PoisonTransaction
  BY <1>1, <1>5, PoisonHere, Ladder
<1> QED
  BY <1>3, <1>4, <1>5 DEF ImageInspected

(* prepare_target needs an owner for the block. *)
LEMMA PrepareTargetKeeps ==
  ASSUME IndInv, PrepareTarget
  PROVE  IndInv'
<1>1. Resolves /\ slot.state = "IMAGE_READY" /\ IsProcess(slot)
  BY DEF PrepareTarget, AcceptsProcess, Accepts
<1>2. /\ ~poisoned /\ Live /\ \A c : Entered(c) = c
      /\ Rung(7, slot) /\ Covered(slot.state)
  BY <1>1, Accepted, Ladder, CoveredStates, SMTT(40)
  DEF CanAbort, Live, Forward, Beginning
<1>3. CASE PoisonTransaction \/ PoisonDomain
  BY <1>1, <1>2, <1>3, PoisonHere, Ladder
<1>4. CASE Refuse("FAILED")
  BY <1>1, <1>2, <1>4, FailKeeps, Ladder DEF Refuse, Do
<1>5. CASE slot.parentPsp # 0 /\ Enter("LOAD_QUERYING")
  <2>1. /\ slot' = [slot EXCEPT !.state = "LOAD_QUERYING"]
        /\ svc' = svc
        /\ call' = "advance" /\ UNCHANGED <<gens, poisoned>>
    BY <1>2, <1>5 DEF Enter, Do, At
  <2>2. /\ slot' \in Slot /\ slot'.state = "LOAD_QUERYING"
        /\ slot'.observer = slot.observer /\ slot'.request = slot.request
        /\ slot'.runtime = slot.runtime
    BY <1>2, <2>1, KnownStates DEF Live, Slot, Reached
  <2>3. svc' \in Services /\ svc'.gate = svc.gate
    BY <1>2, <2>1 DEF Live
  <2>4. Deps(slot')
    BY <1>2, <2>1, <1>1, <1>5
    DEF Live, Slot, Deps, IsProcess, Rung, FileRung, ImageRung, ChildRung
  <2>5. Rung(8, slot')
    BY <1>2, <2>1, <1>1, <1>5
    DEF Live, Slot, Deps, Rung, FileRung, ImageRung, ChildRung, IsProcess
  <2>6. Backed(slot', svc')
    <3>1. /\ slot'.file = slot.file /\ slot'.envBlock = slot.envBlock
          /\ slot'.block = slot.block /\ slot'.batch = slot.batch
          /\ slot'.session = slot.session
      BY <1>2, <2>1 DEF Live, Slot
    <3> QED
      BY <1>1, <1>2, <2>1, <2>2, <2>3, <3>1, Ladder
      DEF Live, Backed, Sealed, Rung, ImageRung, ChildRung, FileRung
  <2>7. /\ Covered("LOAD_QUERYING") /\ Rank("LOAD_QUERYING") = 8
        /\ ControlOf("LOAD_QUERYING", "advance")
        /\ svc'.closes <= 1
    BY <1>2, <2>1, <2>3, Ladder, CoveredStates, Runs
    DEF Live, Beginning, Advancing
  <2> QED
    BY <1>2, <2>1, <2>2, <2>3, <2>4, <2>5, <2>6, <2>7, Climbs
<1> QED
  BY <1>3, <1>4, <1>5
  DEF PrepareTarget, PreflightedOwner, Preflighted

(* The largest block is known, then allocated. *)
LEMMA LoadQueriedKeeps ==
  ASSUME IndInv, ~poisoned, Live, LoadQueried
  PROVE  IndInv'
<1>1. slot.state = "LOAD_QUERYING"
  BY DEF LoadQueried
<1>2. Rung(8, slot) /\ Covered(slot.state)
  BY <1>1, Ladder, CoveredStates DEF Live, Forward, Beginning
<1>3. call = "advance"
  BY <1>1, OnStack DEF Live, Advancing
<1>4. CASE Continue([slot EXCEPT !.state = "LOAD_ALLOCATING",
                                 !.plan = TRUE], svc)
  <2>1. /\ slot' = [slot EXCEPT !.state = "LOAD_ALLOCATING", !.plan = TRUE]
        /\ svc' = svc
        /\ call' = "advance" /\ UNCHANGED <<gens, poisoned>>
    BY <1>3, <1>4 DEF Continue, Do
  <2>2. /\ slot' \in Slot /\ slot'.state = "LOAD_ALLOCATING"
        /\ slot'.observer = slot.observer /\ slot'.request = slot.request
        /\ slot'.runtime = slot.runtime
    BY <2>1, KnownStates DEF Live, Slot, Reached
  <2>3. svc' \in Services /\ svc'.gate = svc.gate
    BY <2>1 DEF Live
  <2>4. Deps(slot')
    BY <1>2, <2>1
    DEF Live, Slot, Deps, IsProcess, Rung, FileRung, ImageRung, ChildRung
  <2>5. Rung(9, slot')
    BY <1>2, <2>1
    DEF Live, Slot, Deps, Rung, FileRung, ImageRung, ChildRung, IsProcess
  <2>6. Backed(slot', svc')
    BY <2>1, <1>1, <1>2, <2>2, <2>3, Ladder, SMTT(40)
    DEF Live, Slot, Backed, Sealed, Rung, ImageRung, ChildRung, FileRung
  <2>7. /\ Covered("LOAD_ALLOCATING") /\ Rank("LOAD_ALLOCATING") = 9
        /\ ControlOf("LOAD_ALLOCATING", "advance")
        /\ svc'.closes <= 1
    BY <2>1, <2>3, Ladder, CoveredStates, Runs DEF Live, Beginning, Advancing
  <2> QED
    BY <1>2, <2>1, <2>2, <2>3, <2>4, <2>5, <2>6, <2>7, Climbs
<1>5. CASE Fail
  BY <1>1, <1>2, <1>5, FailKeeps, Ladder DEF Fail, Return, Do
<1>6. CASE PoisonDomain \/ PoisonTransaction
  BY <1>1, <1>6, PoisonHere, Ladder
<1> QED
  BY <1>4, <1>5, <1>6 DEF LoadQueried

(* The block for the program has been leased, or was refused. *)
LEMMA LoadAllocatedKeeps ==
  ASSUME IndInv, ~poisoned, Live, LoadAllocated
  PROVE  IndInv'
<1>1. slot.state = "LOAD_ALLOCATING"
  BY DEF LoadAllocated
<1>2. Rung(9, slot) /\ Covered(slot.state)
  BY <1>1, Ladder, CoveredStates DEF Live, Forward, Beginning
<1>3. CASE Return([[slot EXCEPT !.block = TRUE]
                     EXCEPT !.state = "TARGET_READY"],
                  [svc EXCEPT !.load = "active"])
  <2>1. /\ slot' = [slot EXCEPT !.state = "TARGET_READY", !.block = TRUE]
        /\ svc' = [svc EXCEPT !.load = "active"]
        /\ call' = "idle" /\ UNCHANGED <<gens, poisoned>>
    BY <1>3 DEF Live, Slot, Return, Do
  <2>2. /\ slot' \in Slot /\ slot'.state = "TARGET_READY"
        /\ slot'.observer = slot.observer /\ slot'.request = slot.request
        /\ slot'.runtime = slot.runtime
    BY <2>1, KnownStates, ZenonT(60) DEF Live, Slot, Reached
  <2>3. /\ svc' \in Services
        /\ svc'.gate = svc.gate /\ svc'.file = svc.file
        /\ svc'.closes = svc.closes /\ svc'.env = svc.env
        /\ svc'.load = "active" /\ svc'.batch = svc.batch
        /\ svc'.backend = svc.backend /\ svc'.backends = svc.backends
    BY <2>1 DEF Live, Services
  <2>4. Deps(slot')
    BY <1>2, <2>1
    DEF Live, Slot, Deps, IsProcess, Rung, FileRung, ImageRung, ChildRung
  <2>5. Rung(10, slot')
    BY <1>2, <2>1
    DEF Live, Slot, Deps, Rung, FileRung, ImageRung, ChildRung, IsProcess
  <2>6. Backed(slot', svc')
    BY <2>1, <1>1, <1>2, <2>2, <2>3, Ladder, SMTT(40)
    DEF Live, Slot, Backed, Sealed, Rung, ImageRung, ChildRung, FileRung
  <2>7. /\ Covered("TARGET_READY") /\ Rank("TARGET_READY") = 10
        /\ ControlOf("TARGET_READY", "idle")
        /\ svc'.closes <= 1
    BY <2>1, <2>3, Ladder, CoveredStates, Rests
    DEF Live, Beginning, Resting, CanAbort
  <2> QED
    BY <1>2, <2>1, <2>2, <2>3, <2>4, <2>5, <2>6, <2>7, Climbs
<1>4. CASE Fail
  BY <1>1, <1>2, <1>4, FailKeeps, Ladder DEF Fail, Return, Do
<1>5. CASE PoisonDomainWith([slot EXCEPT !.block = TRUE],
                            [svc EXCEPT !.load = "active"])
  <2> DEFINE s == [slot EXCEPT !.block = TRUE]
             v == [svc EXCEPT !.load = "active"]
  <2>1. s \in Slot
    BY DEF Live, Slot
  <2>2. v \in Services /\ v.closes <= 1
    BY DEF Live, Services
  <2>3. PoisonDomainWith(s, v)
    BY <1>5
  <2> HIDE DEF s, v
  <2> QED
    BY <2>1, <2>2, <2>3, PoisonDomainKeeps
<1>6. CASE PoisonDomain
  BY <1>1, <1>6, PoisonHere, Ladder
<1> QED
  BY <1>3, <1>4, <1>5, <1>6 DEF LoadAllocated

(* load_resident reads the image into its block. *)
LEMMA LoadResidentKeeps ==
  ASSUME IndInv, LoadResident
  PROVE  IndInv'
<1>1. Resolves /\ slot.state = "TARGET_READY" /\ IsProcess(slot)
  BY DEF LoadResident, AcceptsProcess, Accepts
<1>2. /\ ~poisoned /\ Live /\ \A c : Entered(c) = c
      /\ Rung(10, slot) /\ Covered(slot.state)
  BY <1>1, Accepted, Ladder, CoveredStates, SMTT(40)
  DEF CanAbort, Live, Forward, Beginning
<1>3. CASE PoisonTransaction \/ PoisonDomain
  BY <1>1, <1>2, <1>3, PoisonHere, Ladder
<1>4. CASE Refuse("FAILED")
  BY <1>1, <1>2, <1>4, FailKeeps, Ladder DEF Refuse, Do
<1>5. [slot EXCEPT !.state = "RESIDENT_LOADING",
                    !.resident = "planned"] \in Slot
  BY <1>2, KnownStates, ZenonT(60) DEF Live, Slot, Reached
<1>6. CASE PoisonWith([slot EXCEPT !.state = "RESIDENT_LOADING",
                                   !.resident = "planned"], svc)
  BY <1>1, <1>2, <1>5, <1>6, PoisonFrom, Ladder
<1>7. CASE PoisonDomainWith([slot EXCEPT !.state = "RESIDENT_LOADING",
                                         !.resident = "planned"], svc)
  BY <1>1, <1>2, <1>5, <1>7, PoisonFrom, Ladder
<1>8. CASE Do([slot EXCEPT !.state = "RESIDENT_LOADING",
                           !.resident = "planned"], svc, Entered("advance"))
  <2>1. /\ slot' = [slot EXCEPT !.state = "RESIDENT_LOADING",
                                !.resident = "planned"]
        /\ svc' = svc
        /\ call' = "advance" /\ UNCHANGED <<gens, poisoned>>
    BY <1>2, <1>8 DEF Do
  <2>2. /\ slot' \in Slot /\ slot'.state = "RESIDENT_LOADING"
        /\ slot'.observer = slot.observer /\ slot'.request = slot.request
        /\ slot'.runtime = slot.runtime
    BY <1>2, <2>1, KnownStates, ZenonT(60) DEF Live, Slot, Reached
  <2>3. svc' \in Services /\ svc'.gate = svc.gate
    BY <1>2, <2>1 DEF Live
  <2>4. Deps(slot')
    BY <1>2, <2>1
    DEF Live, Slot, Deps, IsProcess, Rung, FileRung, ImageRung, ChildRung
  <2>5. Rung(11, slot')
    BY <1>2, <2>1
    DEF Live, Slot, Deps, Rung, FileRung, ImageRung, ChildRung, IsProcess
  <2>6. Backed(slot', svc')
    BY <1>2, <2>1, <1>1, <2>2, <2>3, Ladder, SMTT(40)
    DEF Live, Slot, Backed, Sealed, Rung, ImageRung, ChildRung, FileRung
  <2>7. /\ Covered("RESIDENT_LOADING") /\ Rank("RESIDENT_LOADING") = 11
        /\ ControlOf("RESIDENT_LOADING", "advance")
        /\ svc'.closes <= 1
    BY <1>2, <2>1, <2>3, Ladder, CoveredStates, Runs
    DEF Live, Beginning, Advancing
  <2> QED
    BY <1>2, <2>1, <2>2, <2>3, <2>4, <2>5, <2>6, <2>7, Climbs
<1> QED
  BY <1>3, <1>4, <1>6, <1>7, <1>8
  DEF LoadResident, PreflightedOwner, Preflighted, WithReader, WithBlock

(* The image has been read into its block. *)
LEMMA ResidentLoadedKeeps ==
  ASSUME IndInv, ~poisoned, Live, ResidentLoaded
  PROVE  IndInv'
<1>1. slot.state = "RESIDENT_LOADING"
  BY DEF ResidentLoaded
<1>2. Rung(11, slot) /\ Covered(slot.state)
  BY <1>1, Ladder, CoveredStates DEF Live, Forward, Beginning
<1>3. CASE Return([slot EXCEPT !.state = "RESIDENT_READY",
                               !.resident = "loaded"], svc)
  <2>1. /\ slot' = [slot EXCEPT !.state = "RESIDENT_READY",
                                !.resident = "loaded"]
        /\ svc' = svc
        /\ call' = "idle" /\ UNCHANGED <<gens, poisoned>>
    BY <1>3 DEF Return, Do
  <2>2. /\ slot' \in Slot /\ slot'.state = "RESIDENT_READY"
        /\ slot'.observer = slot.observer /\ slot'.request = slot.request
        /\ slot'.runtime = slot.runtime
    BY <2>1, KnownStates, ZenonT(60) DEF Live, Slot, Reached
  <2>3. svc' \in Services /\ svc'.gate = svc.gate
    BY <2>1 DEF Live
  <2>4. Deps(slot')
    BY <1>2, <2>1
    DEF Live, Slot, Deps, IsProcess, Rung, FileRung, ImageRung, ChildRung
  <2>5. Rung(12, slot')
    BY <1>2, <2>1
    DEF Live, Slot, Deps, Rung, FileRung, ImageRung, ChildRung, IsProcess
  <2>6. Backed(slot', svc')
    BY <2>1, <1>1, <1>2, <2>2, <2>3, Ladder, SMTT(40)
    DEF Live, Slot, Backed, Sealed, Rung, ImageRung, ChildRung, FileRung
  <2>7. /\ Covered("RESIDENT_READY") /\ Rank("RESIDENT_READY") = 12
        /\ ControlOf("RESIDENT_READY", "idle")
        /\ svc'.closes <= 1
    BY <2>1, <2>3, Ladder, CoveredStates, Rests
    DEF Live, Beginning, Resting, CanAbort
  <2> QED
    BY <1>2, <2>1, <2>2, <2>3, <2>4, <2>5, <2>6, <2>7, Climbs
<1>4. CASE Fail
  BY <1>1, <1>2, <1>4, FailKeeps, Ladder DEF Fail, Return, Do
<1>5. CASE PoisonDomain
  BY <1>1, <1>5, PoisonHere, Ladder
<1> QED
  BY <1>3, <1>4, <1>5 DEF ResidentLoaded

(* relocate_resident has something to do for an MZ image only. *)
LEMMA RelocateResidentKeeps ==
  ASSUME IndInv, RelocateResident
  PROVE  IndInv'
<1>1. Resolves /\ slot.state = "RESIDENT_READY" /\ IsProcess(slot)
  BY DEF RelocateResident, AcceptsProcess, Accepts
<1>2. /\ ~poisoned /\ Live /\ \A c : Entered(c) = c
      /\ Rung(12, slot) /\ Covered(slot.state)
  BY <1>1, Accepted, Ladder, CoveredStates, SMTT(40)
  DEF CanAbort, Live, Forward, Beginning
<1>3. CASE PoisonTransaction \/ PoisonDomain
  BY <1>1, <1>2, <1>3, PoisonHere, Ladder
<1>4. CASE Refuse("FAILED")
  BY <1>1, <1>2, <1>4, FailKeeps, Ladder DEF Refuse, Do
<1>5. [slot EXCEPT !.state = "RELOCATING",
                    !.relocation = "planned"] \in Slot
  BY <1>2, KnownStates, ZenonT(60) DEF Live, Slot, Reached
<1>6. CASE PoisonWith([slot EXCEPT !.state = "RELOCATING",
                                   !.relocation = "planned"], svc)
  BY <1>1, <1>2, <1>5, <1>6, PoisonFrom, Ladder
<1>7. CASE PoisonDomainWith([slot EXCEPT !.state = "RELOCATING",
                                         !.relocation = "planned"], svc)
  BY <1>1, <1>2, <1>5, <1>7, PoisonFrom, Ladder
<1>8. CASE Do([slot EXCEPT !.state = "RELOCATING",
                           !.relocation = "planned"], svc, Entered("advance"))
           /\ slot.image = "mz"
  <2>1. /\ slot' = [slot EXCEPT !.state = "RELOCATING",
                                !.relocation = "planned"]
        /\ svc' = svc
        /\ call' = "advance" /\ UNCHANGED <<gens, poisoned>>
    BY <1>2, <1>8 DEF Do
  <2>2. /\ slot' \in Slot /\ slot'.state = "RELOCATING"
        /\ slot'.observer = slot.observer /\ slot'.request = slot.request
        /\ slot'.runtime = slot.runtime
    BY <1>2, <2>1, KnownStates, ZenonT(60) DEF Live, Slot, Reached
  <2>3. svc' \in Services /\ svc'.gate = svc.gate
    BY <1>2, <2>1 DEF Live
  <2>4. Deps(slot')
    BY <1>2, <2>1, <1>1, <1>8
    DEF Live, Slot, Deps, IsProcess, Rung, FileRung, ImageRung, ChildRung
  <2>5. Rung(13, slot')
    BY <1>2, <2>1, <1>1, <1>8
    DEF Live, Slot, Deps, Rung, FileRung, ImageRung, ChildRung, IsProcess
  <2>6. Backed(slot', svc')
    BY <1>2, <2>1, <1>1, <2>2, <2>3, Ladder, SMTT(40)
    DEF Live, Slot, Backed, Sealed, Rung, ImageRung, ChildRung, FileRung
  <2>7. /\ Covered("RELOCATING") /\ Rank("RELOCATING") = 13
        /\ ControlOf("RELOCATING", "advance")
        /\ svc'.closes <= 1
    BY <1>2, <2>1, <2>3, Ladder, CoveredStates, Runs
    DEF Live, Beginning, Advancing
  <2> QED
    BY <1>2, <2>1, <2>2, <2>3, <2>4, <2>5, <2>6, <2>7, Climbs
<1>9. CASE slot.image = "com" /\ Refuse("IMAGE_PRIVATE")
  <2>1. /\ slot' = [slot EXCEPT !.state = "IMAGE_PRIVATE"]
        /\ svc' = svc
        /\ call' = "idle" /\ UNCHANGED <<gens, poisoned>>
    BY <1>2, <1>9 DEF Refuse, Do, At
  <2>2. /\ slot' \in Slot /\ slot'.state = "IMAGE_PRIVATE"
        /\ slot'.observer = slot.observer /\ slot'.request = slot.request
        /\ slot'.runtime = slot.runtime
    BY <1>2, <2>1, KnownStates DEF Live, Slot, Reached
  <2>3. svc' \in Services /\ svc'.gate = svc.gate
    BY <1>2, <2>1 DEF Live
  <2>4. Deps(slot')
    BY <1>2, <2>1, <1>9
    DEF Live, Slot, Deps, IsProcess, Rung, FileRung, ImageRung, ChildRung
  <2>5. Rung(14, slot')
    BY <1>2, <2>1, <1>9
    DEF Live, Slot, Deps, Rung, FileRung, ImageRung, ChildRung, IsProcess
  <2>6. Backed(slot', svc')
    BY <1>2, <2>1, <1>1, <2>2, <2>3, Ladder, SMTT(40)
    DEF Live, Slot, Backed, Sealed, Rung, ImageRung, ChildRung, FileRung
  <2>7. /\ Covered("IMAGE_PRIVATE") /\ Rank("IMAGE_PRIVATE") = 14
        /\ ControlOf("IMAGE_PRIVATE", "idle")
        /\ svc'.closes <= 1
    BY <1>2, <2>1, <2>3, Ladder, CoveredStates, Rests
    DEF Live, Beginning, Resting, CanAbort
  <2> QED
    BY <1>2, <2>1, <2>2, <2>3, <2>4, <2>5, <2>6, <2>7, Climbs
<1> QED
  BY <1>3, <1>4, <1>6, <1>7, <1>8, <1>9
  DEF RelocateResident, PreflightedArena, Preflighted, WithReader, WithBlock

(* The image has been relocated. *)
LEMMA RelocatedKeeps ==
  ASSUME IndInv, ~poisoned, Live, Relocated
  PROVE  IndInv'
<1>1. slot.state = "RELOCATING"
  BY DEF Relocated
<1>2. Rung(13, slot) /\ Covered(slot.state)
  BY <1>1, Ladder, CoveredStates, SMTT(40) DEF Live, Forward, Beginning
<1>3. CASE Return([slot EXCEPT !.state = "IMAGE_PRIVATE",
                               !.relocation = "applied"], svc)
  <2>1. /\ slot' = [slot EXCEPT !.state = "IMAGE_PRIVATE",
                                !.relocation = "applied"]
        /\ svc' = svc
        /\ call' = "idle" /\ UNCHANGED <<gens, poisoned>>
    BY <1>3 DEF Return, Do
  <2>2. /\ slot' \in Slot /\ slot'.state = "IMAGE_PRIVATE"
        /\ slot'.observer = slot.observer /\ slot'.request = slot.request
        /\ slot'.runtime = slot.runtime
    BY <2>1, KnownStates, ZenonT(60) DEF Live, Slot, Reached
  <2>3. svc' \in Services /\ svc'.gate = svc.gate
    BY <2>1 DEF Live
  <2>4. Deps(slot')
    BY <1>2, <2>1
    DEF Live, Slot, Deps, IsProcess, Rung, FileRung, ImageRung, ChildRung
  <2>5. Rung(14, slot')
    BY <1>2, <2>1
    DEF Live, Slot, Deps, Rung, FileRung, ImageRung, ChildRung, IsProcess
  <2>6. Backed(slot', svc')
    BY <2>1, <1>1, <1>2, <2>2, <2>3, Ladder, SMTT(40)
    DEF Live, Slot, Backed, Sealed, Rung, ImageRung, ChildRung, FileRung
  <2>7. /\ Covered("IMAGE_PRIVATE") /\ Rank("IMAGE_PRIVATE") = 14
        /\ ControlOf("IMAGE_PRIVATE", "idle")
        /\ svc'.closes <= 1
    BY <2>1, <2>3, Ladder, CoveredStates, Rests
    DEF Live, Beginning, Resting, CanAbort
  <2> QED
    BY <1>2, <2>1, <2>2, <2>3, <2>4, <2>5, <2>6, <2>7, Climbs
<1>4. CASE Fail
  BY <1>1, <1>2, <1>4, FailKeeps, Ladder DEF Fail, Return, Do
<1>5. CASE PoisonDomain
  BY <1>1, <1>5, PoisonHere, Ladder
<1> QED
  BY <1>3, <1>4, <1>5 DEF Relocated

-----------------------------------------------------------------------------
(* The child: parent snapshot, file references, PSP                        *)

(* capture_parent_snapshot *)
LEMMA CaptureParentKeeps ==
  ASSUME IndInv, CaptureParent
  PROVE  IndInv'
<1>1. Resolves /\ slot.state = "PROCESS_FILE_CLOSED" /\ IsProcess(slot)
  BY DEF CaptureParent, AcceptsProcess, Accepts
<1>2. /\ ~poisoned /\ Live /\ \A c : Entered(c) = c
      /\ Rung(15, slot) /\ Covered(slot.state)
  BY <1>1, Accepted, Ladder, CoveredStates, SMTT(40)
  DEF CanAbort, Live, Forward, Beginning
<1>3. CASE PoisonTransaction
  BY <1>1, <1>2, <1>3, PoisonHere, Ladder
<1>4. CASE Refuse("FAILED")
  BY <1>1, <1>2, <1>4, FailKeeps, Ladder DEF Refuse, Do
<1>5. CASE Enter("PARENT_SNAPSHOTTING")
  BY <1>2, <1>5, <1>1, Moves, Ladder, Runs, CoveredStates
  DEF Enter, Do, Advancing, Beginning, Reached
<1> QED
  BY <1>3, <1>4, <1>5 DEF CaptureParent, Preflighted

(* The parent's snapshot has been taken. *)
LEMMA ParentCapturedKeeps ==
  ASSUME IndInv, ~poisoned, Live, ParentCaptured
  PROVE  IndInv'
<1>1. slot.state = "PARENT_SNAPSHOTTING"
  BY DEF ParentCaptured
<1>2. Rung(15, slot) /\ Covered(slot.state)
  BY <1>1, Ladder, CoveredStates, SMTT(40) DEF Live, Forward, Beginning
<1>3. CASE Return([slot EXCEPT !.state = "PARENT_SNAPSHOT_READY",
                               !.parent = TRUE], svc)
  <2>1. /\ slot' = [slot EXCEPT !.state = "PARENT_SNAPSHOT_READY",
                                !.parent = TRUE]
        /\ svc' = svc
        /\ call' = "idle" /\ UNCHANGED <<gens, poisoned>>
    BY <1>3 DEF Return, Do
  <2>2. /\ slot' \in Slot /\ slot'.state = "PARENT_SNAPSHOT_READY"
        /\ slot'.observer = slot.observer /\ slot'.request = slot.request
        /\ slot'.runtime = slot.runtime
    BY <2>1, KnownStates, ZenonT(60) DEF Live, Slot, Reached
  <2>3. svc' \in Services /\ svc'.gate = svc.gate
    BY <2>1 DEF Live
  <2>4. Deps(slot')
    BY <1>2, <2>1
    DEF Live, Slot, Deps, IsProcess, Rung, FileRung, ImageRung, ChildRung
  <2>5. Rung(16, slot')
    BY <1>2, <2>1
    DEF Live, Slot, Deps, Rung, FileRung, ImageRung, ChildRung, IsProcess
  <2>6. Backed(slot', svc')
    BY <2>1, <1>1, <1>2, <2>2, <2>3, Ladder, SMTT(40)
    DEF Live, Slot, Backed, Sealed, Rung, ImageRung, ChildRung, FileRung
  <2>7. /\ Covered("PARENT_SNAPSHOT_READY") /\ Rank("PARENT_SNAPSHOT_READY") = 16
        /\ ControlOf("PARENT_SNAPSHOT_READY", "idle")
        /\ svc'.closes <= 1
    BY <2>1, <2>3, Ladder, CoveredStates, Rests
    DEF Live, Beginning, Resting, CanAbort
  <2> QED
    BY <1>2, <2>1, <2>2, <2>3, <2>4, <2>5, <2>6, <2>7, Climbs
<1>4. CASE Fail
  BY <1>1, <1>2, <1>4, FailKeeps, Ladder DEF Fail, Return, Do
<1>5. CASE PoisonTransaction
  BY <1>1, <1>5, PoisonHere, Ladder
<1> QED
  BY <1>3, <1>4, <1>5 DEF ParentCaptured

(* prepare_inheritance reserves the child's file references. *)
LEMMA PrepareInheritanceKeeps ==
  ASSUME IndInv, PrepareInheritance
  PROVE  IndInv'
<1>1. Resolves /\ slot.state = "PARENT_SNAPSHOT_READY"
  BY DEF PrepareInheritance, Accepts
<1>2. /\ ~poisoned /\ Live /\ \A c : Entered(c) = c
      /\ Rung(16, slot) /\ Covered(slot.state)
  BY <1>1, Accepted, Ladder, CoveredStates, SMTT(40)
  DEF CanAbort, Live, Forward, Beginning
<1>3. CASE PoisonTransaction
  BY <1>1, <1>2, <1>3, PoisonHere, Ladder
<1>4. CASE Refuse("FAILED")
  BY <1>1, <1>2, <1>4, FailKeeps, Ladder DEF Refuse, Do
<1>5. CASE Enter("SFT_PREPARING")
  BY <1>2, <1>5, <1>1, Moves, Ladder, Runs, CoveredStates
  DEF Enter, Do, Advancing, Beginning, Reached
<1> QED
  BY <1>3, <1>4, <1>5 DEF PrepareInheritance, Preflighted

(* The references on inherited files have been taken. *)
LEMMA SftPreparedKeeps ==
  ASSUME IndInv, ~poisoned, Live, SftPrepared
  PROVE  IndInv'
<1>1. slot.state = "SFT_PREPARING"
  BY DEF SftPrepared
<1>2. Rung(16, slot) /\ Covered(slot.state)
  BY <1>1, Ladder, CoveredStates, SMTT(40) DEF Live, Forward, Beginning
<1>3. CASE Return([slot EXCEPT !.state = "SFT_RESERVED", !.batch = "jft"],
                  [svc EXCEPT !.batch = "prepared"])
  <2>1. /\ slot' = [slot EXCEPT !.state = "SFT_RESERVED", !.batch = "jft"]
        /\ svc' = [svc EXCEPT !.batch = "prepared"]
        /\ call' = "idle" /\ UNCHANGED <<gens, poisoned>>
    BY <1>3 DEF Return, Do
  <2>2. /\ slot' \in Slot /\ slot'.state = "SFT_RESERVED"
        /\ slot'.observer = slot.observer /\ slot'.request = slot.request
        /\ slot'.runtime = slot.runtime
    BY <2>1, KnownStates, ZenonT(60) DEF Live, Slot, Reached
  <2>3. /\ svc' \in Services
        /\ svc'.gate = svc.gate /\ svc'.file = svc.file
        /\ svc'.closes = svc.closes /\ svc'.env = svc.env
        /\ svc'.load = svc.load /\ svc'.batch = "prepared"
        /\ svc'.backend = svc.backend /\ svc'.backends = svc.backends
    BY <2>1 DEF Live, Services
  <2>4. Deps(slot')
    BY <1>2, <2>1
    DEF Live, Slot, Deps, IsProcess, Rung, FileRung, ImageRung, ChildRung
  <2>5. Rung(17, slot')
    BY <1>2, <2>1
    DEF Live, Slot, Deps, Rung, FileRung, ImageRung, ChildRung, IsProcess
  <2>6. Backed(slot', svc')
    BY <2>1, <1>1, <1>2, <2>2, <2>3, Ladder
    DEF Live, Slot, Backed, Sealed, Rung, ImageRung, ChildRung, FileRung
  <2>7. /\ Covered("SFT_RESERVED") /\ Rank("SFT_RESERVED") = 17
        /\ ControlOf("SFT_RESERVED", "idle")
        /\ svc'.closes <= 1
    BY <2>1, <2>3, Ladder, CoveredStates, Rests
    DEF Live, Beginning, Resting, CanAbort
  <2> QED
    BY <1>2, <2>1, <2>2, <2>3, <2>4, <2>5, <2>6, <2>7, Climbs
<1>4. CASE Fail
  BY <1>1, <1>2, <1>4, FailKeeps, Ladder DEF Fail, Return, Do
<1>5. CASE PoisonDomainWith([slot EXCEPT !.batch = "batch"],
                            [svc EXCEPT !.batch = "poisoned"])
  <2> DEFINE s == [slot EXCEPT !.batch = "batch"]
             v == [svc EXCEPT !.batch = "poisoned"]
  <2>1. s \in Slot
    BY DEF Live, Slot
  <2>2. v \in Services /\ v.closes <= 1
    BY DEF Live, Services
  <2>3. PoisonDomainWith(s, v)
    BY <1>5
  <2> HIDE DEF s, v
  <2> QED
    BY <2>1, <2>2, <2>3, PoisonDomainKeeps
<1> QED
  BY <1>3, <1>4, <1>5 DEF SftPrepared

(* prepare_psp reads the parameters and builds the PSP image. *)
LEMMA PreparePspKeeps ==
  ASSUME IndInv, PreparePsp
  PROVE  IndInv'
<1>1. Resolves /\ slot.state = "SFT_RESERVED"
  BY DEF PreparePsp, Accepts
<1>2. /\ ~poisoned /\ Live /\ \A c : Entered(c) = c
      /\ Rung(17, slot) /\ Covered(slot.state)
  BY <1>1, Accepted, Ladder, CoveredStates, SMTT(40)
  DEF CanAbort, Live, Forward, Beginning
<1>3. CASE PoisonTransaction
  BY <1>1, <1>2, <1>3, PoisonHere, Ladder
<1>4. CASE Refuse("FAILED")
  BY <1>1, <1>2, <1>4, FailKeeps, Ladder DEF Refuse, Do
<1>5. CASE Enter("PROCESS_PARAMETER_READING")
  BY <1>2, <1>5, <1>1, Moves, Ladder, Runs, CoveredStates
  DEF Enter, Do, Advancing, Beginning, Reached
<1> QED
  BY <1>3, <1>4, <1>5 DEF PreparePsp, Preflighted

(* The parameter block has been read. *)
LEMMA ParametersReadKeeps ==
  ASSUME IndInv, ~poisoned, Live, ParametersRead
  PROVE  IndInv'
<1>1. slot.state = "PROCESS_PARAMETER_READING"
  BY DEF ParametersRead
<1>2. Rung(17, slot) /\ Covered(slot.state)
  BY <1>1, Ladder, CoveredStates, SMTT(40) DEF Live, Forward, Beginning
<1>4. CASE Continue(At("PSP_PREPARING"), svc)
  BY <1>1, OnStack, <1>4, <1>2, Moves, Ladder, Runs, CoveredStates
  DEF Continue, Do, Advancing, Beginning, Reached, Live
<1>5. CASE Fail
  BY <1>1, <1>2, <1>5, FailKeeps, Ladder DEF Fail, Return, Do
<1>6. CASE PoisonDomain
  BY <1>1, <1>6, PoisonHere, Ladder
<1> QED
  BY <1>4, <1>5, <1>6 DEF ParametersRead

(* The PSP has been prepared. *)
LEMMA PspPreparedKeeps ==
  ASSUME IndInv, ~poisoned, Live, PspPrepared
  PROVE  IndInv'
<1>1. slot.state = "PSP_PREPARING"
  BY DEF PspPrepared
<1>2. Rung(17, slot) /\ Covered(slot.state)
  BY <1>1, Ladder, CoveredStates, SMTT(40) DEF Live, Forward, Beginning
<1>3. CASE Return([slot EXCEPT !.state = "PSP_PREPARED", !.psp = TRUE], svc)
  <2>1. /\ slot' = [slot EXCEPT !.state = "PSP_PREPARED", !.psp = TRUE]
        /\ svc' = svc
        /\ call' = "idle" /\ UNCHANGED <<gens, poisoned>>
    BY <1>3 DEF Return, Do
  <2>2. /\ slot' \in Slot /\ slot'.state = "PSP_PREPARED"
        /\ slot'.observer = slot.observer /\ slot'.request = slot.request
        /\ slot'.runtime = slot.runtime
    BY <2>1, KnownStates, ZenonT(60) DEF Live, Slot, Reached
  <2>3. svc' \in Services /\ svc'.gate = svc.gate
    BY <2>1 DEF Live
  <2>4. Deps(slot')
    BY <1>2, <2>1
    DEF Live, Slot, Deps, IsProcess, Rung, FileRung, ImageRung, ChildRung
  <2>5. Rung(18, slot')
    BY <1>2, <2>1
    DEF Live, Slot, Deps, Rung, FileRung, ImageRung, ChildRung, IsProcess
  <2>6. Backed(slot', svc')
    BY <2>1, <1>1, <1>2, <2>2, <2>3, Ladder, SMTT(40)
    DEF Live, Slot, Backed, Sealed, Rung, ImageRung, ChildRung, FileRung
  <2>7. /\ Covered("PSP_PREPARED") /\ Rank("PSP_PREPARED") = 18
        /\ ControlOf("PSP_PREPARED", "idle")
        /\ svc'.closes <= 1
    BY <2>1, <2>3, Ladder, CoveredStates, Rests
    DEF Live, Beginning, Resting, CanAbort
  <2> QED
    BY <1>2, <2>1, <2>2, <2>3, <2>4, <2>5, <2>6, <2>7, Climbs
<1>4. CASE Fail
  BY <1>1, <1>2, <1>4, FailKeeps, Ladder DEF Fail, Return, Do
<1>5. CASE PoisonDomain
  BY <1>1, <1>5, PoisonHere, Ladder
<1> QED
  BY <1>3, <1>4, <1>5 DEF PspPrepared

(* finalize_initial_state asks for the drives of the FCBs. *)
LEMMA FinalizeInitialStateKeeps ==
  ASSUME IndInv, FinalizeInitialState
  PROVE  IndInv'
<1>1. Resolves /\ slot.state = "PSP_PREPARED"
  BY DEF FinalizeInitialState, Accepts
<1>3. CASE Enter("DRIVE_RESOLVING")
  BY <1>1, Accepted, Ladder, CoveredStates, <1>3, Moves, Runs, SMTT(40)
  DEF Enter, Do, Advancing, Beginning, Reached, CanAbort, Live, Forward
<1> QED
  BY <1>3 DEF FinalizeInitialState

(* The drives of the FCBs have been resolved. *)
LEMMA DrivesResolvedKeeps ==
  ASSUME IndInv, ~poisoned, Live, DrivesResolved
  PROVE  IndInv'
<1>1. slot.state = "DRIVE_RESOLVING"
  BY DEF DrivesResolved
<1>2. Rung(18, slot) /\ Covered(slot.state)
  BY <1>1, Ladder, CoveredStates, SMTT(40) DEF Live, Forward, Beginning
<1>3. CASE Return(At("INITIAL_STATE_READY"), svc)
  BY <1>2, <1>3, <1>1, Moves, Ladder, Rests, CoveredStates
  DEF Return, Do, Resting, CanAbort, Beginning, Reached
<1>4. CASE Fail
  BY <1>1, <1>2, <1>4, FailKeeps, Ladder DEF Fail, Return, Do
<1>5. CASE PoisonTransaction
  BY <1>1, <1>5, PoisonHere, Ladder
<1> QED
  BY <1>3, <1>4, <1>5 DEF DrivesResolved

-----------------------------------------------------------------------------
(* Staging                                                                 *)

(* process_memory_stage_failure, from a slot s without rebinds             *)
LEMMA StageFailedKeeps ==
  ASSUME IndInv, ~poisoned, Live, Rank(slot.state) \in 18 .. 20,
         Covered(slot.state), call = "advance", NEW s \in Slot, Deps(s),
         StageFailed(s), ~s.loadRebind, ~s.session, s.file,
         s.journal = "staging", s.block,
         s.observer = slot.observer, s.request = slot.request,
         s.runtime = slot.runtime, slot.file, s.envBlock = slot.envBlock,
         s.block = slot.block, s.batch = slot.batch, ~slot.session
  PROVE  IndInv'
<1>1. ASSUME NEW some \in {s.staged, TRUE},
             Continue([s EXCEPT !.state = "JOURNAL_ABORTING",
                                !.staged = some], svc)
      PROVE  IndInv'
  <2>1. /\ slot' = [s EXCEPT !.state = "JOURNAL_ABORTING", !.staged = some]
        /\ svc' = svc /\ call' = "advance" /\ UNCHANGED <<gens, poisoned>>
    BY <1>1 DEF Continue, Do
  <2>3. slot' \in Slot /\ slot'.state = "JOURNAL_ABORTING"
    BY <2>1, <1>1, KnownStates, ZenonT(60) DEF Slot, Reached
  <2>4. /\ ~slot'.loadRebind /\ ~slot'.session /\ slot'.file
        /\ slot'.journal = "staging" /\ slot'.observer = slot.observer
        /\ slot'.request = slot.request /\ slot'.runtime = slot.runtime
        /\ slot'.envBlock = slot.envBlock /\ slot'.block = slot.block
        /\ slot'.batch = slot.batch
    BY <2>1 DEF Slot
  <2>5. Deps(slot')
    BY <2>1 DEF Slot, Deps, IsProcess
  <2>7. Backward(slot', call')
    BY <2>3, <2>4 DEF Live, Covered, ObserverOf, Backward, IsProcess
  <2>8. Backed(slot', svc')
    BY <2>3, <2>1, <2>4, OffLadder DEF Covered, ObserverOf, Sealed, Live, Backed
  <2>9. ControlOf("JOURNAL_ABORTING", "advance")
    BY Runs DEF Advancing
  <2> QED
    BY <2>1, <2>3, <2>5, <2>4, OffLadder, <2>7, <2>8, <2>9, StaysLive
    DEF Live, Forward, Guarded, ObserverOf, Covered
<1>2. CASE PoisonDomainWith([s EXCEPT !.journal = "poisoned"], svc)
  BY <1>2, PoisonFrom DEF Slot
<1>3. CASE PoisonWith(s, svc)
  BY <1>3, PoisonFrom
<1> QED
  BY <1>1, <1>2, <1>3 DEF StageFailed

(* The slot itself has none below the global stage. *)
LEMMA StageFailedHere ==
  ASSUME IndInv, ~poisoned, Live, Covered(slot.state), call = "advance",
         Rank(slot.state) \in {18, 19}, StageFailed(slot)
  PROVE  IndInv'
<1>2. slot \in Slot /\ Deps(slot) /\ Rank(slot.state) \in 18 .. 20
  BY DEF Live
<1> QED
  BY <1>2, StageFailedKeeps, SMTT(40)
  DEF Live, Forward, Rung, FileRung, ImageRung, ChildRung

(* stage_process_memory writes the PSP through the journal. *)
LEMMA StageProcessMemoryKeeps ==
  ASSUME IndInv, StageProcessMemory
  PROVE  IndInv'
<1>1. Resolves /\ slot.state = "INITIAL_STATE_READY"
  BY DEF StageProcessMemory, Accepts
<1>3. CASE Enter("PROCESS_MEMORY_STAGING")
  BY <1>1, Accepted, Ladder, CoveredStates, <1>3, Moves, Runs, SMTT(40)
  DEF Enter, Do, Advancing, Beginning, Reached, CanAbort, Live, Forward
<1> QED
  BY <1>3 DEF StageProcessMemory

(* The process's own bytes have been staged in the journal. *)
LEMMA ProcessMemoryStagedKeeps ==
  ASSUME IndInv, ~poisoned, Live, ProcessMemoryStaged
  PROVE  IndInv'
<1>1. slot.state = "PROCESS_MEMORY_STAGING"
  BY DEF ProcessMemoryStaged
<1>2. Rung(18, slot) /\ Covered(slot.state)
  BY <1>1, Ladder, CoveredStates, SMTT(40) DEF Live, Forward, Beginning
<1>4. CASE Return([slot EXCEPT !.state = "GLOBAL_STAGED", !.staged = TRUE],
                  svc)
  <2>1. /\ slot' = [slot EXCEPT !.state = "GLOBAL_STAGED", !.staged = TRUE]
        /\ svc' = svc
        /\ call' = "idle" /\ UNCHANGED <<gens, poisoned>>
    BY <1>4 DEF Return, Do
  <2>2. /\ slot' \in Slot /\ slot'.state = "GLOBAL_STAGED"
        /\ slot'.observer = slot.observer /\ slot'.request = slot.request
        /\ slot'.runtime = slot.runtime
    BY <2>1, KnownStates, ZenonT(60) DEF Live, Slot, Reached
  <2>3. svc' \in Services /\ svc'.gate = svc.gate
    BY <2>1 DEF Live
  <2>4. Deps(slot')
    BY <1>2, <2>1
    DEF Live, Slot, Deps, IsProcess, Rung, FileRung, ImageRung, ChildRung
  <2>5. Rung(19, slot')
    BY <1>2, <2>1
    DEF Live, Slot, Deps, Rung, FileRung, ImageRung, ChildRung, IsProcess
  <2>6. Backed(slot', svc')
    BY <2>1, <1>1, <1>2, <2>2, <2>3, Ladder, SMTT(40)
    DEF Live, Slot, Backed, Sealed, Rung, ImageRung, ChildRung, FileRung
  <2>7. /\ Covered("GLOBAL_STAGED") /\ Rank("GLOBAL_STAGED") = 19
        /\ ControlOf("GLOBAL_STAGED", "idle")
        /\ svc'.closes <= 1
    BY <2>1, <2>3, Ladder, CoveredStates, Rests
    DEF Live, Beginning, Resting, CanAbort
  <2> QED
    BY <1>2, <2>1, <2>2, <2>3, <2>4, <2>5, <2>6, <2>7, Climbs
<1>5. CASE StageFailed(slot)
  BY <1>1, <1>2, OnStack, <1>5, StageFailedHere, Ladder DEF Live, Advancing
<1> QED
  BY <1>4, <1>5 DEF ProcessMemoryStaged

(* stage_global_memory adds the rebinds of the blocks to the child. *)
LEMMA StageGlobalMemoryKeeps ==
  ASSUME IndInv, StageGlobalMemory
  PROVE  IndInv'
<1>1. Resolves /\ slot.state = "GLOBAL_STAGED"
  BY DEF StageGlobalMemory, Accepts
<1>2. /\ ~poisoned /\ Live /\ \A c : Entered(c) = c
      /\ Rung(19, slot) /\ Covered(slot.state)
  BY <1>1, Accepted, Ladder, CoveredStates, SMTT(40)
  DEF CanAbort, Live, Forward, Beginning
<1>3. CASE PoisonTransaction
  BY <1>1, <1>2, <1>3, PoisonHere, Ladder
<1>4. CASE Refuse("FAILED")
  BY <1>1, <1>2, <1>4, FailKeeps, Ladder DEF Refuse, Do
<1>5. CASE Enter("GLOBAL_MEMORY_STAGING")
  BY <1>2, <1>5, <1>1, Moves, Ladder, Runs, CoveredStates
  DEF Enter, Do, Advancing, Beginning, Reached
<1> QED
  BY <1>3, <1>4, <1>5 DEF StageGlobalMemory, Preflighted

(* The global bytes and the rebind plans have been staged. *)
LEMMA GlobalMemoryStagedKeeps ==
  ASSUME IndInv, ~poisoned, Live, GlobalMemoryStaged
  PROVE  IndInv'
<1>1. slot.state = "GLOBAL_MEMORY_STAGING"
  BY DEF GlobalMemoryStaged
<1>2. Rung(19, slot) /\ Covered(slot.state)
  BY <1>1, Ladder, CoveredStates, SMTT(40) DEF Live, Forward, Beginning
<1>4. CASE Return([slot EXCEPT !.state = "GLOBAL_MEMORY_READY",
                               !.envRebind = slot.envBlock,
                               !.loadRebind = TRUE], svc)
  <2>1. /\ slot' = [slot EXCEPT !.state = "GLOBAL_MEMORY_READY",
                                !.envRebind = slot.envBlock,
                                !.loadRebind = TRUE]
        /\ svc' = svc
        /\ call' = "idle" /\ UNCHANGED <<gens, poisoned>>
    BY <1>4 DEF Return, Do
  <2>2. /\ slot' \in Slot /\ slot'.state = "GLOBAL_MEMORY_READY"
        /\ slot'.observer = slot.observer /\ slot'.request = slot.request
        /\ slot'.runtime = slot.runtime
    BY <2>1, KnownStates, ZenonT(60) DEF Live, Slot, Reached
  <2>3. svc' \in Services /\ svc'.gate = svc.gate
    BY <2>1 DEF Live
  <2>4. Deps(slot')
    BY <1>2, <2>1
    DEF Live, Slot, Deps, IsProcess, Rung, FileRung, ImageRung, ChildRung
  <2>5. Rung(20, slot')
    BY <1>2, <2>1
    DEF Live, Slot, Deps, Rung, FileRung, ImageRung, ChildRung, IsProcess
  <2>6. Backed(slot', svc')
    BY <2>1, <1>1, <1>2, <2>2, <2>3, Ladder, SMTT(40)
    DEF Live, Slot, Backed, Sealed, Rung, ImageRung, ChildRung, FileRung
  <2>7. /\ Covered("GLOBAL_MEMORY_READY") /\ Rank("GLOBAL_MEMORY_READY") = 20
        /\ ControlOf("GLOBAL_MEMORY_READY", "idle")
        /\ svc'.closes <= 1
    BY <2>1, <2>3, Ladder, CoveredStates, Rests
    DEF Live, Beginning, Resting, CanAbort
  <2> QED
    BY <1>2, <2>1, <2>2, <2>3, <2>4, <2>5, <2>6, <2>7, Climbs
<1>5. CASE StageFailed(slot)
  BY <1>1, <1>2, OnStack, <1>5, StageFailedHere, Ladder DEF Live, Advancing
<1>6. CASE PoisonDomain
  BY <1>1, <1>6, PoisonHere, Ladder
<1> QED
  BY <1>4, <1>5, <1>6 DEF GlobalMemoryStaged

(* prepare_handoff is for a child that is executed. *)
LEMMA PrepareHandoffKeeps ==
  ASSUME IndInv, PrepareHandoff
  PROVE  IndInv'
<1>1. Resolves /\ slot.state = "GLOBAL_MEMORY_READY"
  BY DEF PrepareHandoff, Accepts
<1>3. CASE slot.request = "exec0" /\ Enter("HANDOFF_STAGING")
  BY <1>1, Accepted, Ladder, CoveredStates, <1>3, Moves, Runs, SMTT(40)
  DEF Enter, Do, Advancing, Beginning, Reached, CanAbort, Live, Forward
<1> QED
  BY <1>3 DEF PrepareHandoff

(* The hand-off has been staged. *)
LEMMA HandoffStagedKeeps ==
  ASSUME IndInv, ~poisoned, Live, HandoffStaged
  PROVE  IndInv'
<1>1. slot.state = "HANDOFF_STAGING"
  BY DEF HandoffStaged
<1>2. Rung(20, slot) /\ Covered(slot.state)
  BY <1>1, Ladder, CoveredStates, SMTT(40) DEF Live, Forward, Beginning
<1>3. call = "advance" /\ slot.request = "exec0"
  BY <1>1, OnStack DEF Live, Forward, Advancing
<1>4. CASE Return([slot EXCEPT !.state = "HANDOFF_READY", !.handoff = TRUE],
                  svc)
  <2>1. /\ slot' = [slot EXCEPT !.state = "HANDOFF_READY", !.handoff = TRUE]
        /\ svc' = svc
        /\ call' = "idle" /\ UNCHANGED <<gens, poisoned>>
    BY <1>4 DEF Return, Do
  <2>2. /\ slot' \in Slot /\ slot'.state = "HANDOFF_READY"
        /\ slot'.observer = slot.observer /\ slot'.request = slot.request
        /\ slot'.runtime = slot.runtime
    BY <2>1, KnownStates, ZenonT(60) DEF Live, Slot, Reached
  <2>3. svc' \in Services /\ svc'.gate = svc.gate
    BY <2>1 DEF Live
  <2>4. Deps(slot')
    BY <1>2, <2>1, <1>3
    DEF Live, Slot, Deps, IsProcess, Rung, FileRung, ImageRung, ChildRung
  <2>5. Rung(21, slot')
    BY <1>2, <2>1, <1>3
    DEF Live, Slot, Deps, Rung, FileRung, ImageRung, ChildRung, IsProcess
  <2>6. Backed(slot', svc')
    BY <2>1, <1>1, <1>2, <2>2, <2>3, Ladder, SMTT(40)
    DEF Live, Slot, Backed, Sealed, Rung, ImageRung, ChildRung, FileRung
  <2>7. /\ Covered("HANDOFF_READY") /\ Rank("HANDOFF_READY") = 21
        /\ ControlOf("HANDOFF_READY", "idle")
        /\ svc'.closes <= 1
    BY <2>1, <2>3, Ladder, CoveredStates, Rests
    DEF Live, Beginning, Resting, CanAbort
  <2> QED
    BY <1>2, <2>1, <2>2, <2>3, <2>4, <2>5, <2>6, <2>7, Climbs
<1>5. CASE StageFailed(WithoutRebinds(slot))
  <2> DEFINE s == WithoutRebinds(slot)
  <2>2. Deps(s)
    BY DEF Live, Slot, WithoutRebinds, Deps, IsProcess
  <2>3. slot.file /\ slot.journal = "staging" /\ ~slot.session /\ slot.block
    BY <1>2, <1>3 DEF Rung, FileRung, ImageRung, ChildRung, IsProcess
  <2>4. Rank(slot.state) \in 18 .. 20
    BY <1>1, Ladder
  <2> HIDE DEF s
  <2> QED
    BY <1>2, <1>3, <1>5, <2>2, <2>3, <2>4, StageFailedKeeps, ZenonT(60)
    DEF s, Live, Slot, WithoutRebinds
<1> QED
  BY <1>4, <1>5 DEF HandoffStaged

-----------------------------------------------------------------------------
(* The backend session and the seal                                        *)

(* prepare_backend asks for a dormant session. *)
LEMMA PrepareBackendKeeps ==
  ASSUME IndInv, PrepareBackend
  PROVE  IndInv'
<1>1. Resolves /\ slot.state = "HANDOFF_READY"
  BY DEF PrepareBackend, Accepts
<1>3. CASE Enter("BACKEND_PREPARING")
  BY <1>1, Accepted, Ladder, CoveredStates, <1>3, Moves, Runs, SMTT(40)
  DEF Enter, Do, Advancing, Beginning, Reached, CanAbort, Live, Forward
<1> QED
  BY <1>3 DEF PrepareBackend

(* The backend session has been prepared, was refused or is poisoned. *)
LEMMA BackendPreparedKeeps ==
  ASSUME IndInv, ~poisoned, Live, BackendPrepared
  PROVE  IndInv'
<1>1. slot.state = "BACKEND_PREPARING"
  BY DEF BackendPrepared
<1>2. Rung(21, slot) /\ Covered(slot.state)
  BY <1>1, Ladder, CoveredStates, SMTT(40) DEF Live, Forward, Beginning
<1>3. CASE Return(At("HANDOFF_READY"), svc)
  BY <1>2, <1>3, <1>1, Moves, Ladder, Rests, CoveredStates
  DEF Return, Do, Resting, CanAbort, Beginning, Reached
<1>4. CASE Return([slot EXCEPT !.state = "BACKEND_DORMANT", !.session = TRUE],
                  [svc EXCEPT !.backend = "dormant"])
  <2>1. /\ slot' = [slot EXCEPT !.state = "BACKEND_DORMANT",
                                !.session = TRUE]
        /\ svc' = [svc EXCEPT !.backend = "dormant"]
        /\ call' = "idle" /\ UNCHANGED <<gens, poisoned>>
    BY <1>4 DEF Return, Do
  <2>2. /\ slot' \in Slot /\ slot'.state = "BACKEND_DORMANT"
        /\ slot'.observer = slot.observer /\ slot'.request = slot.request
        /\ slot'.runtime = slot.runtime
    BY <2>1, KnownStates, ZenonT(60) DEF Live, Slot, Reached
  <2>3. /\ svc' \in Services
        /\ svc'.gate = svc.gate /\ svc'.file = svc.file
        /\ svc'.closes = svc.closes /\ svc'.env = svc.env
        /\ svc'.load = svc.load /\ svc'.batch = svc.batch
        /\ svc'.backend = "dormant" /\ svc'.backends = svc.backends
    BY <2>1 DEF Live, Services
  <2>4. Deps(slot')
    BY <1>2, <2>1
    DEF Live, Slot, Deps, IsProcess, Rung, FileRung, ImageRung, ChildRung
  <2>5. Rung(22, slot')
    BY <1>2, <2>1
    DEF Live, Slot, Deps, Rung, FileRung, ImageRung, ChildRung, IsProcess
  <2>6. Backed(slot', svc')
    BY <2>1, <1>1, <1>2, <2>2, <2>3, Ladder, SMTT(40)
    DEF Live, Slot, Backed, Sealed, Rung, ImageRung, ChildRung, FileRung
  <2>7. /\ Covered("BACKEND_DORMANT") /\ Rank("BACKEND_DORMANT") = 22
        /\ ControlOf("BACKEND_DORMANT", "idle")
        /\ svc'.closes <= 1
    BY <2>1, <2>3, Ladder, CoveredStates, Rests
    DEF Live, Beginning, Resting, CanAbort
  <2> QED
    BY <1>2, <2>1, <2>2, <2>3, <2>4, <2>5, <2>6, <2>7, Climbs
<1>5. CASE Return(At("FAILED"),
                  [svc EXCEPT !.backends = TRUE, !.backend = "poisoned"])
  <2>1. /\ slot' = At("FAILED")
        /\ svc' = [svc EXCEPT !.backends = TRUE, !.backend = "poisoned"]
        /\ call' = "idle" /\ UNCHANGED <<gens, poisoned>>
    BY <1>5 DEF Return, Do
  <2>2. /\ svc' \in Services
        /\ svc'.gate = svc.gate /\ svc'.file = svc.file
        /\ svc'.closes = svc.closes /\ svc'.env = svc.env
        /\ svc'.load = svc.load /\ svc'.batch = svc.batch
        /\ svc'.backend = "poisoned" /\ svc'.backends
    BY <2>1 DEF Live, Services
  <2>3. Backed(slot', svc')
    BY <1>2, <2>1, <1>1, <2>2, OffLadder
    DEF Live, Slot, At, Rung, ChildRung, Backed, Sealed
  <2> QED
    BY <1>1, <1>2, <2>1, <2>2, <2>3, FailsWith, Ladder DEF Live
<1> QED
  BY <1>3, <1>4, <1>5 DEF BackendPrepared

(* What dos_exec_seal_commit_load_only leaves of the services. *)
LEMMA CommittedServices ==
  ASSUME NEW v \in Services, NEW w, w = Committed(v), v.gen < RuntimeMax,
         v.pdb # 0
  PROVE  /\ w \in Services /\ w.gate = v.gate /\ w.file = v.file
         /\ w.closes = v.closes /\ w.load = "published"
         /\ w.env = (IF v.env = "active" THEN "published" ELSE v.env)
         /\ w.batch = "committed" /\ w.backend = v.backend
         /\ w.backends = v.backends /\ w.arena = v.arena
         /\ w.pdb \in Psps \ {v.pdb}
<1>2. PICK g, p : g = v.gen + 1 /\ p = Child(v.pdb)
  OBVIOUS
<1>3. PICK e : e = IF v.env = "active" THEN "published" ELSE v.env
  OBVIOUS
<1>4. e \in {"none", "active", "published"}
  BY <1>3 DEF Services
<1>5. w = [v EXCEPT !.env = e, !.load = "published", !.batch = "committed",
                    !.gen = g, !.pdb = p]
  BY <1>2, <1>3 DEF Committed, Services
<1>6. g \in 1 .. RuntimeMax /\ p \in Psps \ {v.pdb}
  BY SlotAssumption, <1>2 DEF Services, Psps, Child
<1>7. w \in Services /\ w.pdb = p /\ w.env = e
  BY ONLY <1>4, <1>5, <1>6, v \in Services DEF Services
<1> QED
  BY <1>3, <1>5, <1>6, <1>7 DEF Services

(* The seal: everything that is private becomes the child's in one step. *)
LEMMA SealKeeps ==
  ASSUME IndInv, ~poisoned, Live, call = "idle", \A c : Entered(c) = c,
         \/ slot.state = "BACKEND_DORMANT" /\ slot.request = "exec0"
         \/ slot.state = "GLOBAL_MEMORY_READY" /\ slot.request = "exec1",
         Seal
  PROVE  IndInv'
<1>1. CASE PoisonDomain
  BY <1>1, PoisonHere, Ladder
<1>2. CASE /\ ParentCurrent
           /\ Do([slot EXCEPT !.state = "COMMITTING", !.journal = "sealed",
                              !.staged = FALSE, !.observer = "releasing"],
                 Committed(svc), Entered("advance"))
  <2>1. /\ slot' = [slot EXCEPT !.state = "COMMITTING",
                                !.journal = "sealed", !.staged = FALSE,
                                !.observer = "releasing"]
        /\ svc' = Committed(svc)
        /\ call' = "advance" /\ UNCHANGED <<gens, poisoned>>
    BY <1>2 DEF Do
  <2>2. /\ slot' \in Slot /\ slot'.state = "COMMITTING"
        /\ slot'.observer = "releasing" /\ slot'.request = slot.request
        /\ slot'.runtime = slot.runtime
    <3>1. slot \in Slot /\ "COMMITTING" \in States
      BY KnownStates DEF Live, Reached
    <3>2. slot' = [slot EXCEPT !.state = "COMMITTING",
                                !.journal = "sealed", !.staged = FALSE,
                                !.observer = "releasing"]
      BY <2>1
    <3>3. PICK u : u = [slot EXCEPT !.state = "COMMITTING",
                                     !.journal = "sealed"]
      OBVIOUS
    <3>4. /\ u \in Slot
          /\ slot' = [u EXCEPT !.staged = FALSE, !.observer = "releasing"]
      BY ONLY <3>1, <3>2, <3>3, ZenonT(60) DEF Slot
    <3>5. slot' \in Slot
      BY ONLY <3>4, ZenonT(60) DEF Slot
    <3> QED
      BY ONLY <3>1, <3>2, <3>5 DEF Slot
  <2>3. \/ Rung(20, slot) /\ slot.request = "exec1"
        \/ Rung(22, slot) /\ slot.request = "exec0"
    <3>1. CASE slot.state = "BACKEND_DORMANT"
      BY <3>1, Ladder DEF Live, Forward
    <3>2. CASE slot.state = "GLOBAL_MEMORY_READY"
      BY <3>2, Ladder DEF Live, Forward
    <3> QED
      BY <3>1, <3>2
  <2>5. /\ svc' \in Services /\ svc'.closes = svc.closes
        /\ svc'.gate = svc.gate /\ svc'.file = svc.file
        /\ svc'.load = "published" /\ svc'.batch = "committed"
        /\ svc'.env = (IF svc.env = "active" THEN "published" ELSE svc.env)
        /\ svc'.backend = svc.backend /\ svc'.backends = svc.backends
    BY <2>1, <1>2, <2>3, CommittedServices DEF Live, ParentCurrent, Rung, ImageRung
  <2>6. Deps(slot')
    BY <2>1, <2>3 DEF Live, Slot, Deps, IsProcess
  <2>7. Rung(23, slot')
    BY <2>1, <2>3 DEF Live, Slot, Rung, FileRung, ImageRung, ChildRung,
                      IsProcess
  <2>8. Guarded(slot', svc')
    BY <2>2, <2>5 DEF Live, Guarded, ObserverOf
  <2>9. Backward(slot', call')
    BY <2>1, <2>2, Ladder DEF Live, Backward, IsProcess
  <2>11. Forward(slot') /\ ControlOf("COMMITTING", "advance")
    BY <2>2, <2>7, Ladder, Runs DEF Forward, Advancing
  <2> QED
    BY <2>1, <2>2, <2>5, <2>6, <2>8, <2>9, <2>3, Ladder, <2>11, StaysLive, SMTT(40)
    DEF Live, Slot, Rung, ImageRung, ChildRung, Backed, Sealed
<1> QED
  BY <1>1, <1>2 DEF Seal

(* The seal of a request to execute. *)
LEMMA SealExecuteKeeps ==
  ASSUME IndInv, SealExecute
  PROVE  IndInv'
BY Accepted, SealKeeps DEF SealExecute, Accepts, CanAbort

(* The seal of a request to load only. *)
LEMMA SealLoadOnlyKeeps ==
  ASSUME IndInv, SealLoadOnly
  PROVE  IndInv'
BY Accepted, SealKeeps DEF SealLoadOnly, Accepts, CanAbort

(* The observer of a sealed request is released. *)
LEMMA SealReleasedKeeps ==
  ASSUME IndInv, ~poisoned, Live, SealReleased
  PROVE  IndInv'
<1>1. slot.state = "COMMITTING"
  BY DEF SealReleased
<1>2. Rung(23, slot)
  BY <1>1, Ladder DEF Live, Forward
<1> DEFINE s == [slot EXCEPT !.observer = "released"]
           v == [svc EXCEPT !.gate = "free"]
<1>3. ASSUME NEW b \in {"none", "runnable", "poisoned"},
             Return([s EXCEPT !.state = "PUBLISHED"],
                    [v EXCEPT !.backend = b]),
             \/ slot.request = "exec1" /\ b = svc.backend
             \/ slot.request = "exec0" /\ b = "runnable"
      PROVE  IndInv'
  <2>1. /\ slot' = [slot EXCEPT !.state = "PUBLISHED",
                                !.observer = "released"]
        /\ svc' = [svc EXCEPT !.gate = "free", !.backend = b]
        /\ call' = "idle" /\ UNCHANGED <<gens, poisoned>>
    BY <1>3 DEF Return, Do, Live, Slot, Services
  <2>2. /\ slot' \in Slot /\ slot'.state = "PUBLISHED"
        /\ slot'.observer = "released" /\ slot'.request = slot.request
        /\ slot'.runtime = slot.runtime
    BY <2>1, KnownStates, ZenonT(60) DEF Live, Slot, Reached
  <2>3. /\ svc' \in Services /\ svc'.gate = "free" /\ svc'.file = svc.file
        /\ svc'.closes = svc.closes /\ svc'.env = svc.env
        /\ svc'.load = svc.load /\ svc'.batch = svc.batch
        /\ svc'.backend = b /\ svc'.backends = svc.backends
    BY <1>3, <2>1 DEF Live, Services
  <2>4. Deps(slot')
    BY <2>1 DEF Live, Slot, Deps, IsProcess
  <2>5. Rung(24, slot')
    BY <1>2, <2>1 DEF Live, Slot, Rung, FileRung, ImageRung, ChildRung,
                      IsProcess
  <2>6. Guarded(slot', svc')
    BY <2>2, <2>3 DEF Guarded, ObserverOf
  <2>8. Backed(slot', svc')
    <3>1. /\ slot'.file = slot.file /\ slot'.envBlock = slot.envBlock
          /\ slot'.block = slot.block /\ slot'.batch = slot.batch
          /\ slot'.session = slot.session
      BY <2>1 DEF Live, Slot
    <3>2. slot.session <=> slot.request = "exec0"
      BY <1>2 DEF Rung, ChildRung
    <3>3. Sealed(slot) /\ Sealed(slot')
      BY <1>1, <2>2 DEF Sealed
    <3> QED
      BY <1>1, <1>3, <2>2, <2>3, <3>1, <3>2, <3>3, Ladder DEF Live, Backed
  <2>9. Forward(slot') /\ ControlOf("PUBLISHED", "idle")
    BY <2>2, <2>5, Ladder, Rests DEF Forward, Resting
  <2> QED
    BY <2>1, <2>2, <2>3, <2>4, <2>6, <1>1, OnStack, Ladder, <2>8, <2>9, StaysLive
    DEF Live, Backward, Advancing, IsProcess
<1>4. CASE slot.request = "exec1" /\ Return([s EXCEPT !.state = "PUBLISHED"], v)
  <2>2. svc.backend \in {"none", "poisoned"}
    BY <1>2, <1>4 DEF Live, Backed, Rung, ChildRung
  <2>3. v = [v EXCEPT !.backend = svc.backend]
    BY DEF Live, Services
  <2> HIDE DEF s, v
  <2> QED
    BY <1>3, <1>4, <2>2, <2>3
<1>5. CASE /\ slot.request = "exec0"
           /\ Return([s EXCEPT !.state = "PUBLISHED"],
                     [v EXCEPT !.backend = "runnable"])
  <2> HIDE DEF s, v
  <2> QED
    BY <1>3, <1>5
<1>6. CASE PoisonDomainWith(s, v)
  <2>1. s \in Slot
    BY DEF Live, Slot
  <2>2. v \in Services /\ v.closes <= 1
    BY DEF Live, Services
  <2> HIDE DEF s, v
  <2> QED
    BY <1>6, <2>1, <2>2, PoisonDomainKeeps
<1> QED
  BY <1>4, <1>5, <1>6 DEF SealReleased

(* or cannot be: the services are quarantined with the child. *)
LEMMA SealQuarantinedKeeps ==
  ASSUME IndInv, ~poisoned, Live, SealQuarantined
  PROVE  IndInv'
<1> DEFINE s == [slot EXCEPT !.observer = "poisoned", !.journal = "poisoned"]
           v == [svc EXCEPT !.gate = "quarantined", !.runtime = TRUE]
<1>1. s \in Slot
  <2>1. slot \in Slot
    BY DEF Live
  <2>2. PICK u : u = [slot EXCEPT !.observer = "poisoned"]
    OBVIOUS
  <2>3. u \in Slot
    BY ONLY <2>1, <2>2 DEF Slot
  <2>4. [u EXCEPT !.journal = "poisoned"] \in Slot
    BY ONLY <2>3 DEF Slot
  <2>5. s = [u EXCEPT !.journal = "poisoned"]
    BY ONLY <2>1, <2>2 DEF Slot
  <2> QED
    BY <2>4, <2>5
<1>2. v \in Services /\ v.closes <= 1
  BY DEF Live, Services
<1>3. PoisonDomainWith(s, v)
  BY DEF SealQuarantined
<1> HIDE DEF s, v
<1> QED
  BY <1>1, <1>2, <1>3, PoisonDomainKeeps

(* clear_slot_binding leaves a slot. *)
LEMMA VacantSlot ==
  ASSUME NEW i \in 1 .. SlotCount
  PROVE  Vacant(i) \in Slot
<1> QED
  BY KnownStates, SlotAssumption DEF Slot, Vacant, Reached

(* A slot that is vacated holds nothing. *)
LEMMA StaysVacant ==
  ASSUME IndInv, ~poisoned, UNCHANGED <<gens, poisoned>>,
         slot \in Slot, slot' = Vacant(slot.index), call' = "idle",
         svc' \in Services, svc'.closes <= 1,
         svc'.gate = "free", svc'.file = "none", svc'.env = "none",
         svc'.load = "none", svc'.batch = "none",
         svc'.backend \in {"none", "poisoned"},
         svc'.backend = "poisoned" => svc'.backends
  PROVE  IndInv'
<1>2. ControlOf("VACANT", "idle")
  BY Rests DEF Resting
<1> QED
  BY VacantSlot, KnownStates, <1>2 DEF IndInv, TypeOK, Sound, Slot, Vacant

(* retire_published gives the generation back; the child keeps the rest. *)
LEMMA RetirePublishedKeeps ==
  ASSUME IndInv, RetirePublished
  PROVE  IndInv'
<1>1. Resolves /\ slot.state = "PUBLISHED"
  BY DEF RetirePublished, Accepts
<1>2. ~poisoned /\ Live /\ \A c : Entered(c) = c
  BY <1>1, Accepted
<1>3. /\ slot' = Vacant(slot.index)
      /\ svc' = [svc EXCEPT !.file = "none", !.batch = "none",
                            !.env = "none", !.load = "none",
                            !.backend = "none"]
      /\ call' = "idle" /\ UNCHANGED <<gens, poisoned>>
  BY <1>2 DEF RetirePublished, Do
<1>4. svc.gate = "free"
  BY <1>1, <1>2 DEF Live, Guarded, ObserverOf
<1> QED
  BY <1>2, <1>3, <1>4, StaysVacant DEF Live, Services

-----------------------------------------------------------------------------
(* begin                                                                   *)

(* reserve_slot's scan finds the first slot that can be reserved. *)
LEMMA FirstReservable ==
  ASSUME gens \in [1 .. SlotCount -> 0 .. GenerationMax], Reservable # {}
  PROVE  (CHOOSE i \in Reservable : \A j \in Reservable : i <= j)
           \in Reservable
<1>1. Reservable \subseteq Nat
  BY SlotAssumption DEF Reservable
<1>2. PICK i \in Reservable : \A j \in Reservable :
               ~(<<j, i>> \in OpToRel(<, Nat))
  BY <1>1, WFMin, NatLessThanWellFounded
<1>3. ASSUME NEW j \in Reservable
      PROVE  i <= j
  <2>1. i \in Nat /\ j \in Nat
    BY <1>1, <1>2
  <2>3. ~(j < i)
    BY <1>2, <2>1, Zenon DEF OpToRel
  <2> QED
    BY <2>1, <2>3
<1> QED
  BY <1>3

(* begin reserves it and calls the observer. *)
LEMMA BeginKeeps ==
  ASSUME IndInv, NEW q \in Requests, Begin(q)
  PROVE  IndInv'
<1>1. ~poisoned /\ slot.state = "VACANT" /\ Reservable # {}
  BY DEF Begin, Admits
<1>2. /\ svc \in Services /\ svc.closes <= 1
      /\ gens \in [1 .. SlotCount -> 0 .. GenerationMax]
      /\ svc.gate = "free" /\ svc.file = "none" /\ svc.env = "none"
      /\ svc.load = "none" /\ svc.batch = "none"
      /\ svc.backend \in {"none", "poisoned"}
      /\ svc.backend = "poisoned" => svc.backends
  BY <1>1 DEF IndInv, TypeOK, Sound
<1>4. PICK i : i = CHOOSE m \in Reservable : \A j \in Reservable : m <= j
  OBVIOUS
<1>5. i \in 1 .. SlotCount /\ gens[i] < GenerationMax
  BY <1>1, <1>2, <1>4, FirstReservable DEF Reservable
<1>6. PICK j : j = IF q = "overlay" THEN "uninitialized" ELSE "staging"
  OBVIOUS
<1>7. PICK u : u = Vacant(i)
  OBVIOUS
<1>8. /\ slot' = [u EXCEPT
                    !.state = "OBSERVER_ACQUIRING", !.request = q,
                    !.observer = "acquiring", !.journal = j]
      /\ gens' = [gens EXCEPT ![i] = gens[i] + 1]
      /\ call' = "begin" /\ svc' = svc /\ poisoned' = FALSE
  BY <1>1, AtRest, <1>4, <1>6, <1>7 DEF Begin, Vacant, IndInv, Resting
<1>9. gens' \in [1 .. SlotCount -> 0 .. GenerationMax]
  BY <1>2, <1>5, <1>8, SlotAssumption
<1>10. /\ slot' \in Slot /\ slot'.state = "OBSERVER_ACQUIRING"
       /\ slot'.request = q /\ slot'.observer = "acquiring"
       /\ slot'.journal = j
  <2>1. u \in Slot /\ "OBSERVER_ACQUIRING" \in States
    BY <1>5, <1>7, VacantSlot, KnownStates DEF Reached
  <2>2. j \in {"uninitialized", "staging"}
    BY <1>6
  <2>3. PICK w : w = [u EXCEPT !.state = "OBSERVER_ACQUIRING",
                               !.request = q]
    OBVIOUS
  <2>4. w \in Slot
    BY ONLY <2>1, <2>3, q \in Requests DEF Slot
  <2>5. PICK x : x = [w EXCEPT !.observer = "acquiring"]
    OBVIOUS
  <2>6. x \in Slot
    BY ONLY <2>4, <2>5 DEF Slot
  <2>7. slot' = [x EXCEPT !.journal = j]
    BY ONLY <1>8, <2>1, <2>3, <2>5 DEF Slot
  <2>8. slot' \in Slot
    BY ONLY <2>2, <2>6, <2>7 DEF Slot
  <2> QED
    BY ONLY <1>8, <2>1, <2>8 DEF Slot
<1>11. /\ ~slot'.name /\ ~slot'.file /\ slot'.source = "unused"
       /\ ~slot'.envPlan /\ ~slot'.envBlock /\ slot'.image = "none"
       /\ ~slot'.plan /\ ~slot'.block /\ slot'.resident = "none"
       /\ slot'.relocation = "none" /\ ~slot'.parent
       /\ slot'.batch = "none" /\ ~slot'.psp /\ ~slot'.staged
       /\ ~slot'.envRebind /\ ~slot'.loadRebind /\ ~slot'.handoff
       /\ ~slot'.session /\ slot'.runtime = 0
  BY <1>7, <1>8 DEF Vacant
<1>12. Deps(slot')
  BY <1>6, <1>10, <1>11 DEF Deps, IsProcess, Requests
<1>14. Forward(slot') /\ Backward(slot', call') /\ Guarded(slot', svc')
  BY <1>2, <1>8, <1>10, <1>11, <1>6, Ladder
  DEF Forward, Backward, Guarded, ObserverOf, Rung, FileRung, ImageRung, ChildRung,
      IsProcess, Requests
<1>15. Backed(slot', svc')
  BY <1>2, <1>8, <1>10, <1>11, Ladder, SMTT(40) DEF Backed, Sealed
<1>16. ControlOf("OBSERVER_ACQUIRING", "begin")
  BY DEF ControlOf, Beginning
<1> QED
  BY <1>2, <1>8, <1>9, <1>10, <1>12, <1>14, <1>15, <1>16
  DEF IndInv, TypeOK, Sound

(* dos_exec_observer_acquire or _release with an answer that is not known. *)
LEMMA GatePoisonKeeps ==
  ASSUME IndInv, ~poisoned, Live, Rank(slot.state) <= 22,
         PoisonWith([slot EXCEPT !.observer = "poisoned"],
                    [svc EXCEPT !.gate = "quarantined"])
  PROVE  IndInv'
<1> DEFINE s == [slot EXCEPT !.observer = "poisoned"]
           v == [svc EXCEPT !.gate = "quarantined"]
<1>1. s \in Slot
  BY DEF Live, Slot
<1>2. svc.load # "published"
  BY Ladder DEF Live, Backed, Sealed
<1>3. v \in Services /\ v.closes <= 1 /\ v.load # "published"
  BY <1>2 DEF Live, Services
<1>4. PoisonWith(s, v)
  OBVIOUS
<1> HIDE DEF s, v
<1> QED
  BY <1>1, <1>3, <1>4, PoisonKeeps

(* The observer could not be acquired: the slot is vacant again. *)
LEMMA AcquireRefusedKeeps ==
  ASSUME IndInv, ~poisoned, Live, AcquireRefused
  PROVE  IndInv'
<1>1. slot.state = "OBSERVER_ACQUIRING"
  BY DEF AcquireRefused
<1>3. /\ ~slot.file /\ ~slot.envBlock /\ ~slot.block /\ ~slot.session
      /\ slot.batch # "jft"
  BY <1>1, Ladder DEF Rung, FileRung, ImageRung, ChildRung, Live, Forward
<1> QED
  BY <1>1, <1>3, StaysVacant
  DEF Live, AcquireRefused, Return, Do, Guarded, ObserverOf, Backed

(* The gate is held; a process request remembers its parent. *)
LEMMA AcquiredKeeps ==
  ASSUME IndInv, ~poisoned, Live, Acquired
  PROVE  IndInv'
<1>1. slot.state = "OBSERVER_ACQUIRING"
  BY DEF Acquired
<1>2. Rung(1, slot) /\ call = "begin" /\ slot.runtime = 0
  BY <1>1, Ladder
  DEF Live, Forward, Backward, ControlOf, Resting, CanAbort, Advancing,
      StagesLeft
<1> DEFINE s == [slot EXCEPT !.observer = "held"]
           v == [svc EXCEPT !.gate = "held"]
<1>3. /\ s \in Slot /\ v \in Services /\ v.closes = svc.closes
      /\ v.load = svc.load /\ v.gate = "held" /\ v.file = svc.file
      /\ v.env = svc.env /\ v.batch = svc.batch
      /\ v.backend = svc.backend /\ v.backends = svc.backends
  BY DEF Live, Slot, Services
<1>4. ASSUME NEW x \in {"OBSERVED", "OBSERVER_RELEASING"},
             slot' \in Slot, slot'.state = x, svc' = v,
             UNCHANGED <<gens, poisoned>>,
             slot'.observer = ObserverOf(x), ControlOf(x, call'),
             call' = "begin" \/ ~IsProcess(slot') \/ slot'.runtime # 0,
             ~IsProcess(slot') => slot'.runtime = 0,
             \A f \in {"request", "name", "file", "source", "envPlan",
                       "envBlock", "image", "plan", "block", "resident",
                       "relocation", "parent", "batch", "psp", "journal",
                       "staged", "envRebind", "loadRebind", "handoff",
                       "session"} : slot'[f] = slot[f]
      PROVE  IndInv'
  <2>1. /\ slot'.request = slot.request /\ slot'.name = slot.name
        /\ slot'.file = slot.file /\ slot'.source = slot.source
        /\ slot'.envPlan = slot.envPlan /\ slot'.envBlock = slot.envBlock
        /\ slot'.image = slot.image /\ slot'.plan = slot.plan
        /\ slot'.block = slot.block /\ slot'.resident = slot.resident
        /\ slot'.relocation = slot.relocation /\ slot'.parent = slot.parent
        /\ slot'.batch = slot.batch /\ slot'.psp = slot.psp
        /\ slot'.journal = slot.journal /\ slot'.staged = slot.staged
        /\ slot'.envRebind = slot.envRebind
        /\ slot'.loadRebind = slot.loadRebind
        /\ slot'.handoff = slot.handoff /\ slot'.session = slot.session
    BY <1>4
  <2>2. Rung(1, slot') /\ slot.journal # "sealed" /\ slot.batch = "none"
    BY <1>2, <2>1
    DEF Live, Deps, Slot, Rung, FileRung, ImageRung, ChildRung, IsProcess
  <2>4. Forward(slot')
    BY <1>4, <2>2, Ladder, OffLadder DEF Forward
  <2>5. Backward(slot', call')
    BY <1>4, <2>1, <2>2
    DEF Backward, Rung, FileRung, ImageRung, ChildRung
  <2>6. Guarded(slot', svc')
    BY <1>3, <1>4 DEF Guarded, ObserverOf
  <2>7. Backed(slot', svc')
    BY <1>1, <1>3, <1>4, <2>1, Ladder, OffLadder, SMTT(40) DEF Live, Backed, Sealed
  <2> HIDE DEF v
  <2> QED
    BY <1>3, <1>4, <1>2, <2>1, <2>4, <2>5, <2>6, <2>7, StaysLive
    DEF Live, Deps, Rung, FileRung, ImageRung, ChildRung, IsProcess
<1>5. CASE ~IsProcess(slot) /\ Return([s EXCEPT !.state = "OBSERVED"], v)
  <2>1. /\ slot' = [s EXCEPT !.state = "OBSERVED"] /\ svc' = v
        /\ call' = "idle" /\ UNCHANGED <<gens, poisoned>>
    BY <1>5 DEF Return, Do
  <2>2. slot' \in Slot /\ slot'.state = "OBSERVED"
    BY <1>3, <2>1, KnownStates, ZenonT(60) DEF Slot, Reached
  <2>3. slot'.observer = ObserverOf("OBSERVED") /\ ControlOf("OBSERVED", "idle")
    BY <1>3, <2>1, Rests DEF Slot, ObserverOf, Resting, CanAbort
  <2>4. \A f \in {"request", "name", "file", "source", "envPlan",
                  "envBlock", "image", "plan", "block", "resident",
                  "relocation", "parent", "batch", "psp", "journal",
                  "staged", "envRebind", "loadRebind", "handoff",
                  "session"} : slot'[f] = slot[f]
    BY <2>1 DEF Live, Slot
  <2>5. slot'.runtime = 0 /\ ~IsProcess(slot')
    BY <1>2, <1>5, <2>1 DEF Live, Slot, IsProcess
  <2> HIDE DEF s, v
  <2> QED
    BY <1>4, <2>1, <2>2, <2>3, <2>4, <2>5
<1>6. CASE PoisonWith(s, v)
  <2> HIDE DEF s, v
  <2> QED
    BY <1>3, <1>6, <1>1, PoisonKeeps DEF Live, Backed, Sealed
<1>7. CASE /\ IsProcess(slot)
           /\ Return([s EXCEPT !.state = "OBSERVED", !.runtime = svc.gen,
                               !.parentPsp = svc.pdb], v)
  <2>1. /\ slot' = [s EXCEPT !.state = "OBSERVED", !.runtime = svc.gen,
                             !.parentPsp = svc.pdb]
        /\ svc' = v /\ call' = "idle" /\ UNCHANGED <<gens, poisoned>>
    BY <1>7 DEF Return, Do
  <2>2. slot' \in Slot /\ slot'.state = "OBSERVED" /\ slot'.runtime # 0
    <3>1. svc.gen \in 0 .. RuntimeMax /\ svc.gen # 0 /\ svc.pdb \in 0 .. 2
      BY SlotAssumption DEF Live, Services, Psps
    <3>2. PICK u : u = [s EXCEPT !.state = "OBSERVED"]
      OBVIOUS
    <3>3. u \in Slot /\ u.state = "OBSERVED"
      BY <1>3, <3>2, KnownStates, ZenonT(60) DEF Slot, Reached
    <3>4. PICK w : w = [u EXCEPT !.runtime = svc.gen]
      OBVIOUS
    <3>5. w \in Slot /\ w.state = "OBSERVED" /\ w.runtime # 0
      BY ONLY <3>1, <3>3, <3>4 DEF Slot
    <3>6. slot' = [w EXCEPT !.parentPsp = svc.pdb]
      BY <1>3, <2>1, <3>2, <3>4 DEF Slot
    <3> QED
      BY ONLY <3>1, <3>5, <3>6 DEF Slot
  <2>3. slot'.observer = ObserverOf("OBSERVED") /\ ControlOf("OBSERVED", "idle")
    BY <1>3, <2>1, Rests DEF Slot, ObserverOf, Resting, CanAbort
  <2>4. \A f \in {"request", "name", "file", "source", "envPlan",
                  "envBlock", "image", "plan", "block", "resident",
                  "relocation", "parent", "batch", "psp", "journal",
                  "staged", "envRebind", "loadRebind", "handoff",
                  "session"} : slot'[f] = slot[f]
    BY <2>1 DEF Live, Slot
  <2>5. IsProcess(slot')
    BY <1>7, <2>4 DEF IsProcess
  <2> HIDE DEF s, v
  <2> QED
    BY <1>4, <2>1, <2>2, <2>3, <2>4, <2>5
<1>8. CASE Continue([s EXCEPT !.state = "OBSERVER_RELEASING",
                              !.observer = "releasing"], v)
  <2>1. /\ slot' = [s EXCEPT !.state = "OBSERVER_RELEASING",
                             !.observer = "releasing"]
        /\ svc' = v /\ call' = "begin" /\ UNCHANGED <<gens, poisoned>>
    BY <1>2, <1>8 DEF Continue, Do
  <2>2. slot' \in Slot /\ slot'.state = "OBSERVER_RELEASING"
    BY <1>3, <2>1, KnownStates, ZenonT(60) DEF Slot, Reached
  <2>3. /\ slot'.observer = ObserverOf("OBSERVER_RELEASING")
        /\ ControlOf("OBSERVER_RELEASING", "begin")
    BY <1>3, <2>1 DEF Slot, ObserverOf, ControlOf, Beginning
  <2>4. \A f \in {"request", "name", "file", "source", "envPlan",
                  "envBlock", "image", "plan", "block", "resident",
                  "relocation", "parent", "batch", "psp", "journal",
                  "staged", "envRebind", "loadRebind", "handoff",
                  "session"} : slot'[f] = slot[f]
    BY <2>1 DEF Live, Slot
  <2>5. slot'.runtime = 0
    BY <1>2, <2>1 DEF Live, Slot
  <2> HIDE DEF s, v
  <2> QED
    BY <1>4, <2>1, <2>2, <2>3, <2>4, <2>5
<1> QED
  BY <1>5, <1>6, <1>7, <1>8 DEF Acquired

(* A begin that failed gives the observer back and leaves the slot vacant. *)
LEMMA BeginGivenUpKeeps ==
  ASSUME IndInv, ~poisoned, Live, BeginGivenUp
  PROVE  IndInv'
<1>2. /\ ~slot.file /\ ~slot.envBlock /\ ~slot.block /\ ~slot.session
      /\ slot.batch = "none"
  BY DEF Live, Backward, BeginGivenUp
<1>3. /\ svc.file = "none" /\ svc.env = "none"
      /\ svc.load = "none" /\ svc.batch = "none"
      /\ svc.backend \in {"none", "poisoned"}
      /\ svc.backend = "poisoned" => svc.backends
  BY <1>2 DEF Live, Backed
<1>4. /\ slot' = Vacant(slot.index) /\ svc' = [svc EXCEPT !.gate = "free"]
      /\ call' = "idle" /\ UNCHANGED <<gens, poisoned>>
  BY DEF BeginGivenUp, Return, Do
<1> QED
  BY <1>3, <1>4, StaysVacant DEF Live, Services

-----------------------------------------------------------------------------
(* abort                                                                   *)

(* What each stage is owed, by its position. *)
LEMMA OwesAt ==
  ASSUME NEW s
  PROVE  /\ Stages[1] = "BACKEND_RELEASING"
         /\ Stages[2] = "JOURNAL_ABORTING"
         /\ Stages[3] = "SFT_ABORTING" /\ Stages[4] = "LOAD_LEASE_ABORTING"
         /\ Stages[5] = "ENVIRONMENT_LEASE_ABORTING"
         /\ Stages[6] = "ABORT_FILE_CLOSING"
         /\ Stages[7] = "OBSERVER_RELEASING"
         /\ Owes(s)["BACKEND_RELEASING"] = s.session
         /\ Owes(s)["JOURNAL_ABORTING"] = (s.journal = "staging" /\ s.staged)
         /\ Owes(s)["SFT_ABORTING"] = (s.batch # "none")
         /\ Owes(s)["LOAD_LEASE_ABORTING"] = s.block
         /\ Owes(s)["ENVIRONMENT_LEASE_ABORTING"] = s.envBlock
         /\ Owes(s)["ABORT_FILE_CLOSING"] = s.file
         /\ Owes(s)["OBSERVER_RELEASING"] = TRUE
BY DEF Stages, Owes

(* abort enters the first stage that is owed something: the stages before  *)
(* it are owed nothing.                                                    *)
LEMMA NextStageFirst ==
  ASSUME NEW s \in Slot, NEW x, x = NextStage(s)
  PROVE  /\ x \in StagesLeft
         /\ x = "BACKEND_RELEASING" <=> s.session
         /\ x = "JOURNAL_ABORTING" => s.staged /\ s.journal = "staging"
         /\ x \notin {"BACKEND_RELEASING", "JOURNAL_ABORTING"} =>
              ~(s.journal = "staging" /\ s.staged)
         /\ x = "SFT_ABORTING" => s.batch # "none"
         /\ x \in {"LOAD_LEASE_ABORTING", "ENVIRONMENT_LEASE_ABORTING",
                   "ABORT_FILE_CLOSING", "OBSERVER_RELEASING"} =>
              s.batch = "none"
         /\ x = "LOAD_LEASE_ABORTING" => s.block
         /\ x \in {"ENVIRONMENT_LEASE_ABORTING", "ABORT_FILE_CLOSING",
                   "OBSERVER_RELEASING"} => ~s.block
         /\ x = "ENVIRONMENT_LEASE_ABORTING" => s.envBlock
         /\ x \in {"ABORT_FILE_CLOSING", "OBSERVER_RELEASING"} =>
              ~s.envBlock
         /\ x = "ABORT_FILE_CLOSING" <=>
              /\ ~s.session /\ ~(s.journal = "staging" /\ s.staged)
              /\ s.batch = "none" /\ ~s.block /\ ~s.envBlock /\ s.file
         /\ x = "OBSERVER_RELEASING" => ~s.file
<1> DEFINE D(k) == Owes(s)[Stages[k]]
           P(k) == D(k) /\ \A j \in 1 .. k - 1 : ~D(j)
<1>1. /\ D(1) <=> s.session
      /\ D(2) <=> (s.journal = "staging" /\ s.staged)
      /\ D(3) <=> (s.batch # "none")
      /\ D(4) <=> s.block
      /\ D(5) <=> s.envBlock
      /\ D(6) <=> s.file
      /\ D(7)
  BY OwesAt
<1>2. PICK k : k = CHOOSE n \in 1 .. 7 : P(n)
  OBVIOUS
<1>3. x = Stages[k]
  BY <1>2 DEF NextStage
<1> HIDE DEF D
<1>4. \E n \in 1 .. 7 : P(n)
  <2>1. CASE D(1)
    <3>1. P(1) BY <2>1
    <3> QED BY <3>1
  <2>2. CASE ~D(1) /\ D(2)
    <3>1. P(2) BY <2>2
    <3> QED BY <3>1
  <2>3. CASE ~D(1) /\ ~D(2) /\ D(3)
    <3>1. P(3) BY <2>3
    <3> QED BY <3>1
  <2>4. CASE ~D(1) /\ ~D(2) /\ ~D(3) /\ D(4)
    <3>1. P(4) BY <2>4
    <3> QED BY <3>1
  <2>5. CASE ~D(1) /\ ~D(2) /\ ~D(3) /\ ~D(4) /\ D(5)
    <3>1. P(5) BY <2>5
    <3> QED BY <3>1
  <2>6. CASE ~D(1) /\ ~D(2) /\ ~D(3) /\ ~D(4) /\ ~D(5) /\ D(6)
    <3>1. P(6) BY <2>6
    <3> QED BY <3>1
  <2>7. CASE ~D(1) /\ ~D(2) /\ ~D(3) /\ ~D(4) /\ ~D(5) /\ ~D(6)
    <3>1. P(7) BY <1>1, <2>7
    <3> QED BY <3>1
  <2> QED
    BY <2>1, <2>2, <2>3, <2>4, <2>5, <2>6, <2>7
<1>5. k \in 1 .. 7 /\ P(k)
  BY <1>2, <1>4
<1>7. /\ D(k)
      /\ k > 1 => ~D(1)
      /\ k > 2 => ~D(2)
      /\ k > 3 => ~D(3)
      /\ k > 4 => ~D(4)
      /\ k > 5 => ~D(5)
      /\ k > 6 => ~D(6)
  BY <1>5
<1> HIDE DEF P
<1>8. /\ Stages[1] = "BACKEND_RELEASING"
      /\ Stages[2] = "JOURNAL_ABORTING"
      /\ Stages[3] = "SFT_ABORTING" /\ Stages[4] = "LOAD_LEASE_ABORTING"
      /\ Stages[5] = "ENVIRONMENT_LEASE_ABORTING"
      /\ Stages[6] = "ABORT_FILE_CLOSING"
      /\ Stages[7] = "OBSERVER_RELEASING"
  BY OwesAt
<1>9. CASE k = 1
  BY <1>1, <1>3, <1>7, <1>8, <1>9 DEF StagesLeft
<1>10. CASE k = 2
  BY <1>1, <1>3, <1>7, <1>8, <1>10 DEF StagesLeft
<1>11. CASE k = 3
  BY <1>1, <1>3, <1>7, <1>8, <1>11 DEF StagesLeft
<1>12. CASE k = 4
  BY <1>1, <1>3, <1>7, <1>8, <1>12 DEF StagesLeft
<1>13. CASE k = 5
  BY <1>1, <1>3, <1>7, <1>8, <1>13 DEF StagesLeft
<1>14. CASE k = 6
  BY <1>1, <1>3, <1>7, <1>8, <1>14 DEF StagesLeft
<1>15. CASE k = 7
  BY <1>1, <1>3, <1>7, <1>8, <1>15 DEF StagesLeft
<1> QED
  BY <1>5, <1>9, <1>10, <1>11, <1>12, <1>13, <1>14, <1>15

(* The slot with which abort enters its next callback: what it owes is     *)
(* still there, what went before is gone.                                  *)
LEMMA Unwound ==
  ASSUME NEW s \in Slot, Deps(s), ~s.session, s.journal # "sealed",
         NEW t, t = Unwinding(s)
  PROVE  /\ t \in Slot /\ Deps(t) /\ ~t.session
         /\ t.state = NextStage(s)
         /\ t.observer = (IF t.state = "OBSERVER_RELEASING" THEN "releasing"
                                                            ELSE s.observer)
         /\ t.index = s.index /\ t.request = s.request
         /\ t.runtime = s.runtime /\ t.name = s.name /\ t.file = s.file
         /\ t.envBlock = s.envBlock /\ t.block = s.block
         /\ t.batch = s.batch /\ t.staged = s.staged
         /\ t.journal # "sealed"
         /\ t.state = "JOURNAL_ABORTING" => t.journal = s.journal
         /\ t.state # "JOURNAL_ABORTING" => ~t.loadRebind /\ ~t.psp
<1>1. PICK x : x = NextStage(s)
  OBVIOUS
<1>2. /\ x \in StagesLeft /\ x # "BACKEND_RELEASING" /\ x \in States
      /\ x # "JOURNAL_ABORTING" => ~(s.journal = "staging" /\ s.staged)
  BY <1>1, NextStageFirst, KnownStates DEF StagesLeft, Reached
<1>3. PICK u : u = IF x = "JOURNAL_ABORTING" THEN s ELSE PastJournal(s)
  OBVIOUS
<1>4. t = [u EXCEPT !.state = x,
                    !.observer = IF x = "OBSERVER_RELEASING"
                                   THEN "releasing" ELSE @]
  BY <1>1, <1>2, <1>3 DEF Unwinding
<1>5. /\ u \in Slot /\ Deps(u) /\ ~u.session
      /\ u.index = s.index /\ u.request = s.request
      /\ u.runtime = s.runtime /\ u.name = s.name /\ u.file = s.file
      /\ u.envBlock = s.envBlock /\ u.block = s.block
      /\ u.batch = s.batch /\ u.staged = s.staged
      /\ u.journal # "sealed" /\ u.observer = s.observer
      /\ x = "JOURNAL_ABORTING" => u.journal = s.journal
      /\ x # "JOURNAL_ABORTING" => ~u.loadRebind /\ ~u.psp
  <2>1. CASE x = "JOURNAL_ABORTING"
    BY <1>3, <2>1
  <2>2. CASE x # "JOURNAL_ABORTING" /\ s.journal # "staging"
    BY <1>3, <2>2, ZenonT(60) DEF PastJournal, Slot, Deps, IsProcess
  <2>3. CASE x # "JOURNAL_ABORTING" /\ s.journal = "staging"
    <3>2. u = [s EXCEPT !.psp = FALSE, !.envRebind = FALSE,
                        !.loadRebind = FALSE, !.handoff = FALSE,
                        !.session = FALSE, !.journal = "aborted",
                        !.staged = FALSE]
      BY <1>3, <2>3 DEF PastJournal, WithoutRebinds, Slot
    <3>3. u \in Slot
      <4>1. PICK v : v = [s EXCEPT !.psp = FALSE, !.envRebind = FALSE,
                                   !.loadRebind = FALSE]
        OBVIOUS
      <4>2. v \in Slot
        BY ONLY <4>1, s \in Slot, ZenonT(60) DEF Slot
      <4>3. PICK w : w = [v EXCEPT !.handoff = FALSE, !.session = FALSE]
        OBVIOUS
      <4>4. w \in Slot
        BY ONLY <4>2, <4>3, ZenonT(60) DEF Slot
      <4>5. PICK y : y = [w EXCEPT !.staged = FALSE]
        OBVIOUS
      <4>6. y \in Slot
        BY ONLY <4>4, <4>5, ZenonT(60) DEF Slot
      <4>7. u = [y EXCEPT !.journal = "aborted"]
        BY ONLY <3>2, <4>1, <4>3, <4>5, s \in Slot DEF Slot
      <4> QED
        BY ONLY <4>6, <4>7 DEF Slot
    <3>4. Deps(u)
      BY <2>3, <3>2 DEF Slot, Deps, IsProcess
    <3>5. /\ u.index = s.index /\ u.request = s.request
          /\ u.runtime = s.runtime /\ u.name = s.name /\ u.file = s.file
          /\ u.envBlock = s.envBlock /\ u.block = s.block
          /\ u.batch = s.batch /\ u.observer = s.observer
      BY ONLY <3>2, s \in Slot DEF Slot
    <3>6. /\ ~u.session /\ ~u.staged /\ u.journal = "aborted"
          /\ ~u.loadRebind /\ ~u.psp
      BY ONLY <3>2, s \in Slot DEF Slot
    <3>7. u.staged = s.staged
      BY <1>2, <2>3, <3>3, <3>6 DEF Slot
    <3> QED
      BY <2>3, <3>3, <3>4, <3>5, <3>6, <3>7
  <2> QED
    BY <2>1, <2>2, <2>3
<1>6. /\ t \in Slot /\ t.state = x /\ t.index = u.index
      /\ t.observer = (IF x = "OBSERVER_RELEASING" THEN "releasing"
                                                   ELSE u.observer)
      /\ t.request = u.request /\ t.runtime = u.runtime /\ t.name = u.name
      /\ t.file = u.file /\ t.envBlock = u.envBlock /\ t.block = u.block
      /\ t.batch = u.batch /\ t.staged = u.staged
      /\ t.journal = u.journal /\ t.session = u.session
      /\ t.loadRebind = u.loadRebind /\ t.psp = u.psp
  <2>1. PICK o : o = IF x = "OBSERVER_RELEASING" THEN "releasing"
                                                 ELSE u.observer
    OBVIOUS
  <2>2. u \in Slot /\ x \in States
    BY <1>2, <1>5
  <2>3. t = [u EXCEPT !.state = x, !.observer = o]
    BY ONLY <1>4, <2>1, <2>2 DEF Slot
  <2>4. o \in {"idle", "acquiring", "held", "releasing", "released",
               "poisoned"}
    BY ONLY <2>1, <2>2 DEF Slot
  <2>5. t \in Slot /\ t.observer = o
    BY ONLY <2>2, <2>3, <2>4, ZenonT(60) DEF Slot
  <2>6. /\ t.state = x /\ t.index = u.index
        /\ t.request = u.request /\ t.runtime = u.runtime
        /\ t.name = u.name /\ t.file = u.file /\ t.envBlock = u.envBlock
        /\ t.block = u.block /\ t.batch = u.batch /\ t.staged = u.staged
        /\ t.journal = u.journal /\ t.session = u.session
        /\ t.loadRebind = u.loadRebind /\ t.psp = u.psp
    BY ONLY <2>2, <2>3 DEF Slot
  <2> QED
    BY <2>1, <2>5, <2>6
<1> QED
  BY <1>1, <1>5, <1>6, <1>4 DEF Slot, Deps, IsProcess

(* The services hold what the unwinding slot s says. *)
StillBacked(s, v) ==
  /\ v.file # "poisoned" /\ v.batch # "poisoned"
  /\ s.file <=> v.file # "none"
  /\ v.file \in {"open", "probed"} => v.closes = 0
  /\ v.env = IF s.envBlock THEN "active" ELSE "none"
  /\ v.load = IF s.block THEN "active" ELSE "none"
  /\ v.batch = IF s.batch = "jft" THEN "prepared" ELSE "none"
  /\ v.backend \in {"none", "poisoned"}
  /\ v.backend = "poisoned" => v.backends

(* A step of abort: what slot s still owes decides the next callback. *)
LEMMA UnwindingKeeps ==
  ASSUME IndInv, ~poisoned, UNCHANGED <<gens, poisoned>>,
         NEW s \in Slot, Deps(s), ~s.session, s.journal # "sealed",
         s.observer = "held", ~IsProcess(s) \/ s.runtime # 0,
         slot' = Unwinding(s), call' = "unwind",
         svc' \in Services, svc'.closes <= 1, svc'.gate = "held",
         StillBacked(s, svc')
  PROVE  IndInv'
<1>1. PICK t : t = slot'
  OBVIOUS
<1>2. /\ t \in Slot /\ Deps(t) /\ ~t.session
      /\ t.state = NextStage(s)
      /\ t.observer = (IF t.state = "OBSERVER_RELEASING" THEN "releasing"
                                                         ELSE s.observer)
      /\ t.request = s.request
      /\ t.runtime = s.runtime /\ t.name = s.name /\ t.file = s.file
      /\ t.envBlock = s.envBlock /\ t.block = s.block
      /\ t.batch = s.batch /\ t.staged = s.staged
      /\ t.journal # "sealed"
      /\ t.state = "JOURNAL_ABORTING" => t.journal = s.journal
      /\ t.state # "JOURNAL_ABORTING" => ~t.loadRebind /\ ~t.psp
  BY <1>1, Unwound
<1>3. /\ t.state \in StagesLeft
      /\ t.state # "BACKEND_RELEASING"
      /\ t.state = "JOURNAL_ABORTING" => s.staged /\ s.journal = "staging"
      /\ t.state # "JOURNAL_ABORTING" => ~(s.journal = "staging" /\ s.staged)
      /\ t.state = "SFT_ABORTING" => s.batch # "none"
      /\ t.state \in {"LOAD_LEASE_ABORTING", "ENVIRONMENT_LEASE_ABORTING",
                      "ABORT_FILE_CLOSING", "OBSERVER_RELEASING"} =>
           s.batch = "none"
      /\ t.state = "LOAD_LEASE_ABORTING" => s.block
      /\ t.state \in {"ENVIRONMENT_LEASE_ABORTING", "ABORT_FILE_CLOSING",
                      "OBSERVER_RELEASING"} => ~s.block
      /\ t.state = "ENVIRONMENT_LEASE_ABORTING" => s.envBlock
      /\ t.state \in {"ABORT_FILE_CLOSING", "OBSERVER_RELEASING"} =>
           ~s.envBlock
      /\ t.state = "ABORT_FILE_CLOSING" => s.file
      /\ t.state = "OBSERVER_RELEASING" => ~s.file
  BY <1>2, NextStageFirst
<1>5. Backward(t, call')
  BY <1>2, <1>3 DEF Backward, StagesLeft, IsProcess, Deps, Slot
<1>6. Rank(t.state) = 0
  BY <1>3, OffLadder DEF StagesLeft
<1>7. Forward(t) /\ Guarded(t, svc')
  BY <1>2, <1>3, <1>6 DEF Forward, Guarded, ObserverOf, StagesLeft
<1>8. Backed(t, svc')
  BY <1>2, <1>3, <1>6 DEF Backed, StillBacked, Sealed, StagesLeft
<1> QED
  BY <1>1, <1>2, <1>5, <1>7, <1>8, <1>3, StaysLive DEF ControlOf, StagesLeft

(* A live slot before the seal is backed that way. *)
LEMMA StillBackedHere ==
  ASSUME Live, ~Sealed(slot), ~slot.session
  PROVE  StillBacked(slot, svc)
BY DEF Live, Backed, StillBacked

(* A slot under the gate, outside begin. *)
LEMMA UnderGate ==
  ASSUME Live, Covered(slot.state)
  PROVE  /\ slot.observer = "held" /\ svc.gate = "held"
         /\ ~IsProcess(slot) \/ slot.runtime # 0
BY DEF Live, Covered, Guarded, ObserverOf, Backward, ControlOf, Beginning

(* abort of a slot that has no session: the dormant one is asked first. *)
LEMMA AbortKeeps ==
  ASSUME IndInv, Abort
  PROVE  IndInv'
<1>1. Resolves /\ slot.state \in CanAbort
  BY DEF Abort
<1>2. /\ ~poisoned /\ Live /\ \A c : Entered(c) = c
      /\ Covered(slot.state)
  BY <1>1, CoveredStates, Accepted DEF CanAbort, Beginning
<1>3. /\ slot' = Unwinding(slot) /\ svc' = svc /\ call' = "unwind"
      /\ UNCHANGED <<gens, poisoned>>
  BY <1>2 DEF Abort, Do
<1>4. CASE slot.state = "BACKEND_DORMANT"
  <2>2. NextStage(slot) = "BACKEND_RELEASING"
    BY <1>2, <1>4, Ladder, NextStageFirst, SMTT(40) DEF Live, Forward, Rung, ChildRung
  <2>3. slot' = At("BACKEND_RELEASING")
    BY <1>2, <1>3, <2>2 DEF Unwinding, At, Live, Slot
  <2>4. ControlOf("BACKEND_RELEASING", "unwind")
    BY DEF ControlOf, StagesLeft
  <2> QED
    BY <1>2, <1>3, <1>4, <2>3, <2>4, Moves, Ladder, CoveredStates
    DEF Beginning, Reached
<1>5. CASE slot.state # "BACKEND_DORMANT"
  BY <1>1, <1>2, <1>5, Ladder, OffLadder, <1>3, StillBackedHere, UnderGate,
     UnwindingKeeps, SMTT(40)
  DEF Sealed, CanAbort, Resolves, ValidEncoding, Vacant, PublicationValid, Live, Deps,
      Backward, Forward, Rung, ChildRung
<1> QED
  BY <1>4, <1>5

(* A stage that keeps what it was asked to give back stays abortable. *)
LEMMA RetryKeeps ==
  ASSUME IndInv, ~poisoned, Live, Retry,
         slot.state \in {"LOAD_LEASE_ABORTING",
                         "ENVIRONMENT_LEASE_ABORTING", "ABORT_FILE_CLOSING"}
  PROVE  IndInv'
<1>1. /\ slot' = At("ABORTING") /\ svc' = svc /\ call' = "idle"
      /\ UNCHANGED <<gens, poisoned>>
  BY DEF Retry, Return, Do
<1>2. slot' \in Slot /\ slot'.state = "ABORTING"
  BY <1>1, KnownStates DEF Live, Slot, At, Reached
<1>3. /\ slot'.observer = slot.observer /\ slot'.request = slot.request
      /\ slot'.runtime = slot.runtime /\ slot'.journal = slot.journal
      /\ slot'.file = slot.file /\ slot'.envBlock = slot.envBlock
      /\ slot'.block = slot.block /\ slot'.batch = slot.batch
      /\ slot'.session = slot.session /\ slot'.staged = slot.staged
      /\ slot'.loadRebind = slot.loadRebind /\ slot'.psp = slot.psp
  BY <1>1 DEF Live, Slot, At
<1>4. Deps(slot')
  BY <1>1 DEF Live, Slot, At, Deps, IsProcess
<1>5. Covered(slot.state) /\ ~Sealed(slot) /\ ~Sealed(slot')
  BY <1>2, CoveredStates DEF Beginning, Sealed
<1>7. Backward(slot', call')
  BY <1>5, UnderGate, OffLadder, <1>2, <1>3 DEF Live, Backward, IsProcess
<1>8. Backed(slot', svc')
  BY <1>1, <1>2, <1>3, <1>5, OffLadder DEF Live, Backed
<1>9. ControlOf("ABORTING", "idle")
  BY Rests DEF Resting, CanAbort
<1> QED
  BY <1>1, <1>2, <1>4, <1>3, <1>5, UnderGate, OffLadder, <1>7, <1>8, <1>9, StaysLive
  DEF Live, Forward, Guarded, ObserverOf

(* The session is released, kept, or lost. *)
LEMMA BackendReleasedKeeps ==
  ASSUME IndInv, ~poisoned, Live, BackendReleased
  PROVE  IndInv'
<1>1. slot.state = "BACKEND_RELEASING"
  BY DEF BackendReleased
<1>2. Rung(22, slot) /\ Covered(slot.state) /\ call = "unwind"
  BY <1>1, Ladder, CoveredStates
  DEF Live, Forward, Beginning, ControlOf, Resting, CanAbort, Advancing
<1>3. PICK s : s = [slot EXCEPT !.session = FALSE]
  OBVIOUS
<1>4. /\ s \in Slot /\ ~s.session /\ s.journal = slot.journal
      /\ s.observer = slot.observer /\ s.request = slot.request
      /\ s.runtime = slot.runtime /\ s.file = slot.file
      /\ s.envBlock = slot.envBlock /\ s.block = slot.block
      /\ s.batch = slot.batch
  BY <1>3, ZenonT(60) DEF Live, Slot
<1>5. Deps(s)
  BY <1>3 DEF Live, Slot, Deps, IsProcess
<1>6. s.journal # "sealed"
  BY <1>2, <1>4 DEF Rung, ChildRung, IsProcess
<1>8. ASSUME Do(Unwinding(s), svc', call),
             svc' \in Services, svc'.backend \in {"none", "poisoned"},
             svc'.backend = "poisoned" => svc'.backends,
             svc'.gate = svc.gate, svc'.file = svc.file,
             svc'.closes = svc.closes, svc'.env = svc.env,
             svc'.load = svc.load, svc'.batch = svc.batch
      PROVE  IndInv'
  BY <1>1, <1>4, <1>8, <1>2, <1>5, <1>6, UnderGate, UnwindingKeeps
  DEF Live, Backed, Sealed, StillBacked, Do, IsProcess
<1>9. CASE Continue(Unwinding(s), [svc EXCEPT !.backend = "none"])
  BY <1>9, <1>8 DEF Continue, Do, Live, Services
<1>10. CASE Return(At("BACKEND_DORMANT"), svc)
  BY <1>10, <1>1, <1>2, Moves, Ladder, Rests, CoveredStates
  DEF Return, Do, Resting, CanAbort, Beginning, Reached
<1>11. CASE Continue(Unwinding(s), [svc EXCEPT !.backends = TRUE,
                                               !.backend = "poisoned"])
  BY <1>11, <1>8 DEF Continue, Do, Live, Services
<1>12. CASE PoisonWith(slot, [svc EXCEPT !.backend = "none"])
  <2> DEFINE v == [svc EXCEPT !.backend = "none"]
  <2>2. v \in Services /\ v.closes <= 1 /\ v.load # "published"
    BY <1>1 DEF Live, Services, Backed, Sealed
  <2>3. PoisonWith(slot, v)
    BY <1>12
  <2> HIDE DEF v
  <2> QED
    BY <2>2, <2>3, PoisonKeeps DEF Live
<1> QED
  BY <1>3, <1>9, <1>10, <1>11, <1>12 DEF BackendReleased

(* The staged bytes are back in guest memory. *)
LEMMA JournalAbortedKeeps ==
  ASSUME IndInv, ~poisoned, Live, JournalAborted
  PROVE  IndInv'
<1>1. slot.state = "JOURNAL_ABORTING"
  BY DEF JournalAborted
<1>2. /\ Covered(slot.state) /\ ~slot.session /\ slot.file /\ ~Sealed(slot)
      /\ slot.journal = "staging"
  BY <1>1, CoveredStates DEF Live, Beginning, Backward, Sealed
<1>3. CASE /\ call = "advance"
           /\ Return([[slot EXCEPT !.journal = "aborted", !.staged = FALSE]
                        EXCEPT !.state = "FAILED"], svc)
  <2>1. /\ slot' = [slot EXCEPT !.journal = "aborted", !.staged = FALSE,
                                !.state = "FAILED"]
        /\ svc' = svc /\ call' = "idle" /\ UNCHANGED <<gens, poisoned>>
    BY <1>3 DEF Return, Do, Live, Slot
  <2>2. slot' \in Slot
    <3>1. slot \in Slot /\ "FAILED" \in States
      BY KnownStates DEF Live, Reached
    <3>2. PICK u : u = [slot EXCEPT !.journal = "aborted"]
      OBVIOUS
    <3>3. u \in Slot
      BY ONLY <3>1, <3>2 DEF Slot
    <3>4. slot' = [u EXCEPT !.staged = FALSE, !.state = "FAILED"]
      BY ONLY <2>1, <3>1, <3>2 DEF Slot
    <3> QED
      BY ONLY <3>1, <3>3, <3>4, ZenonT(60) DEF Slot
  <2>3. /\ slot'.state = "FAILED" /\ slot'.journal = "aborted"
        /\ slot'.observer = slot.observer /\ slot'.request = slot.request
        /\ slot'.runtime = slot.runtime /\ slot'.name = slot.name
        /\ slot'.file = slot.file /\ slot'.envBlock = slot.envBlock
        /\ slot'.block = slot.block /\ slot'.batch = slot.batch
        /\ slot'.session = slot.session
        /\ slot'.loadRebind = slot.loadRebind
    BY <2>1 DEF Live, Slot
  <2>4. ~slot.loadRebind /\ slot.name /\ IsProcess(slot)
    BY <1>3, <1>1, <1>2 DEF Live, Backward, Deps
  <2>5. Deps(slot')
    BY <2>1, <2>4 DEF Live, Slot, Deps, IsProcess
  <2>7. Backward(slot', call')
    BY <1>2, <2>3, <2>4, UnderGate DEF Backward, IsProcess
  <2>8. Backed(slot', svc')
    BY <1>2, <2>1, <2>3, <2>4, OffLadder DEF Live, Backed, Sealed
  <2>9. ControlOf("FAILED", "idle")
    BY Rests DEF Resting, CanAbort
  <2> QED
    BY <2>1, <2>2, <2>3, <2>5, <1>2, UnderGate, OffLadder, <2>7, <2>8, <2>9, StaysLive
    DEF Live, Forward, Guarded, ObserverOf
<1>4. CASE /\ call = "unwind"
           /\ Continue(Unwinding(WithoutRebinds(
                         [slot EXCEPT !.journal = "aborted",
                                      !.staged = FALSE])), svc)
  <2>1. PICK s : s = WithoutRebinds([slot EXCEPT !.journal = "aborted",
                                                 !.staged = FALSE])
    OBVIOUS
  <2>2. s = [slot EXCEPT !.journal = "aborted", !.staged = FALSE,
                         !.envRebind = FALSE, !.loadRebind = FALSE,
                         !.handoff = FALSE, !.session = FALSE]
    BY <2>1 DEF WithoutRebinds, Live, Slot
  <2>3. s \in Slot
    <3>1. slot \in Slot
      BY DEF Live
    <3>2. PICK u : u = [slot EXCEPT !.staged = FALSE, !.envRebind = FALSE,
                                    !.loadRebind = FALSE]
      OBVIOUS
    <3>3. u \in Slot
      BY ONLY <3>1, <3>2, ZenonT(60) DEF Slot
    <3>4. PICK w : w = [u EXCEPT !.handoff = FALSE, !.session = FALSE]
      OBVIOUS
    <3>5. w \in Slot
      BY ONLY <3>3, <3>4, ZenonT(60) DEF Slot
    <3>6. s = [w EXCEPT !.journal = "aborted"]
      BY ONLY <2>2, <3>1, <3>2, <3>4 DEF Slot
    <3> QED
      BY ONLY <3>5, <3>6 DEF Slot
  <2>4. /\ ~s.session /\ s.journal = "aborted"
        /\ s.observer = slot.observer /\ s.request = slot.request
        /\ s.runtime = slot.runtime /\ s.file = slot.file
        /\ s.envBlock = slot.envBlock /\ s.block = slot.block
        /\ s.batch = slot.batch
    BY <2>2 DEF Live, Slot
  <2>5. Deps(s)
    BY <1>2, <2>2 DEF Live, Slot, Deps, IsProcess
  <2>6. /\ s.observer = "held" /\ svc.gate = "held"
        /\ ~IsProcess(s) \/ s.runtime # 0
    BY <1>2, <2>4, UnderGate DEF IsProcess
  <2>7. StillBacked(s, svc)
    BY <1>2, <2>4, StillBackedHere DEF StillBacked
  <2> QED
    BY <2>3, <2>4, <2>5, <2>6, <2>7, <1>4, <2>1, UnwindingKeeps DEF Live, Continue, Do
<1>5. CASE PoisonDomainWith([slot EXCEPT !.journal = "poisoned"], svc)
  BY <1>1, <1>5, PoisonFrom, OffLadder DEF Live, Slot
<1> QED
  BY <1>3, <1>4, <1>5 DEF JournalAborted

(* A service of an unwinding request gives back what s no longer has. *)
LEMMA GivenBack ==
  ASSUME IndInv, ~poisoned, Live, Covered(slot.state), call = "unwind",
         ~Sealed(slot), ~slot.session, Rank(slot.state) = 0,
         NEW s \in Slot, Deps(s), s.session = slot.session,
         s.journal = slot.journal, s.observer = slot.observer,
         s.request = slot.request, s.runtime = slot.runtime,
         Continue(Unwinding(s), svc'), svc' \in Services,
         svc'.closes <= 1, svc'.gate = svc.gate, StillBacked(s, svc')
  PROVE  IndInv'
<1>1. slot.journal # "sealed"
  BY DEF Live, Backward
<1>3. /\ slot' = Unwinding(s) /\ call' = "unwind"
      /\ UNCHANGED <<gens, poisoned>>
  BY DEF Continue, Do
<1> QED
  BY <1>1, UnderGate, <1>3, UnwindingKeeps DEF IsProcess

(* The batch of references is dropped, or its table poisoned. *)
LEMMA SftAbortedKeeps ==
  ASSUME IndInv, ~poisoned, Live, SftAborted
  PROVE  IndInv'
<1>2. /\ Covered(slot.state) /\ ~slot.session /\ ~Sealed(slot)
      /\ Rank(slot.state) = 0 /\ call = "unwind"
  BY CoveredStates, OffLadder
  DEF Live, Beginning, Backward, Sealed, ControlOf, Resting, CanAbort, Advancing,
      SftAborted
<1>4. CASE Continue(Unwinding([slot EXCEPT !.batch = "none"]),
                    [svc EXCEPT !.batch = "none"])
  BY <1>4, <1>2, StillBackedHere, GivenBack
  DEF Live, Slot, Deps, IsProcess, Continue, Do, Services, StillBacked
<1>5. CASE PoisonDomainWith(slot, [svc EXCEPT !.batch = "poisoned"])
  <2> DEFINE v == [svc EXCEPT !.batch = "poisoned"]
  <2>1. v \in Services /\ v.closes <= 1
    BY DEF Live, Services
  <2>2. PoisonDomainWith(slot, v)
    BY <1>5
  <2> HIDE DEF v
  <2> QED
    BY <2>1, <2>2, PoisonDomainKeeps DEF Live
<1> QED
  BY <1>4, <1>5 DEF SftAborted

(* The load block is freed, kept for a later abort, or in doubt. *)
LEMMA LoadFreedKeeps ==
  ASSUME IndInv, ~poisoned, Live, LoadFreed
  PROVE  IndInv'
<1>1. slot.state = "LOAD_LEASE_ABORTING"
  BY DEF LoadFreed
<1>2. /\ Covered(slot.state) /\ ~slot.session /\ ~Sealed(slot)
      /\ Rank(slot.state) = 0 /\ call = "unwind"
      /\ ~slot.staged /\ ~slot.loadRebind
  BY <1>1, CoveredStates, OffLadder
  DEF Live, Beginning, Backward, Sealed, ControlOf, Resting, CanAbort,
      Advancing
<1>3. StillBacked(slot, svc)
  BY <1>2, StillBackedHere
<1>4. CASE Continue(Unwinding(WithoutBlock(slot)),
                    [svc EXCEPT !.load = "none"])
  <2>1. PICK s : s = WithoutBlock(slot)
    OBVIOUS
  <2>2. s = [slot EXCEPT !.parent = FALSE, !.relocation = "none",
                         !.resident = "none", !.block = FALSE]
    BY <2>1 DEF WithoutBlock
  <2>3. s \in Slot
    <3>1. slot \in Slot
      BY DEF Live
    <3>2. PICK u : u = [slot EXCEPT !.parent = FALSE, !.block = FALSE]
      OBVIOUS
    <3>3. u \in Slot
      BY ONLY <3>1, <3>2, ZenonT(60) DEF Slot
    <3>4. s = [u EXCEPT !.relocation = "none", !.resident = "none"]
      BY ONLY <2>2, <3>1, <3>2 DEF Slot
    <3> QED
      BY ONLY <3>3, <3>4, ZenonT(60) DEF Slot
  <2>4. /\ s.session = slot.session
        /\ s.journal = slot.journal /\ s.observer = slot.observer
        /\ s.request = slot.request /\ s.runtime = slot.runtime
        /\ s.file = slot.file /\ s.envBlock = slot.envBlock
        /\ ~s.block /\ s.batch = slot.batch
    BY <2>2 DEF Live, Slot
  <2>5. Deps(s)
    BY <1>2, <2>2 DEF Live, Slot, Deps, IsProcess
  <2>6. svc' = [svc EXCEPT !.load = "none"]
    BY <1>4 DEF Continue, Do
  <2>7. /\ svc' \in Services /\ svc'.gate = svc.gate
        /\ svc'.file = svc.file /\ svc'.closes = svc.closes
        /\ svc'.env = svc.env /\ svc'.load = "none"
        /\ svc'.batch = svc.batch /\ svc'.backend = svc.backend
        /\ svc'.backends = svc.backends
    BY <2>6 DEF Live, Services
  <2>8. StillBacked(s, svc')
    BY <1>3, <2>4, <2>7 DEF StillBacked
  <2> QED
    BY <1>2, <2>3, <2>4, <2>5, <2>7, <2>8, <1>4, <2>1, <2>6, GivenBack DEF Live
<1>5. CASE Retry
  BY <1>1, <1>5, RetryKeeps
<1>6. CASE PoisonDomain
  BY <1>2, <1>6, PoisonHere
<1> QED
  BY <1>4, <1>5, <1>6 DEF LoadFreed

(* The same for the environment block. *)
LEMMA EnvironmentFreedKeeps ==
  ASSUME IndInv, ~poisoned, Live, EnvironmentFreed
  PROVE  IndInv'
<1>1. slot.state = "ENVIRONMENT_LEASE_ABORTING"
  BY DEF EnvironmentFreed
<1>2. /\ Covered(slot.state) /\ ~slot.session /\ ~Sealed(slot)
      /\ Rank(slot.state) = 0 /\ call = "unwind"
      /\ ~slot.loadRebind
  BY <1>1, CoveredStates, OffLadder
  DEF Live, Beginning, Backward, Sealed, ControlOf, Resting, CanAbort,
      Advancing
<1>3. StillBacked(slot, svc)
  BY <1>2, StillBackedHere
<1>4. CASE Continue(Unwinding([slot EXCEPT !.envBlock = FALSE]),
                    [svc EXCEPT !.env = "none"])
  <2>1. PICK s : s = [slot EXCEPT !.envBlock = FALSE]
    OBVIOUS
  <2>2. /\ s \in Slot /\ s.session = slot.session
        /\ s.journal = slot.journal /\ s.observer = slot.observer
        /\ s.request = slot.request /\ s.runtime = slot.runtime
        /\ s.file = slot.file /\ ~s.envBlock
        /\ s.block = slot.block /\ s.batch = slot.batch
    BY <2>1, ZenonT(60) DEF Live, Slot
  <2>3. Deps(s)
    BY <1>2, <2>1, ZenonT(60) DEF Live, Slot, Deps, IsProcess
  <2>4. svc' = [svc EXCEPT !.env = "none"]
    BY <1>4 DEF Continue, Do
  <2>5. /\ svc' \in Services /\ svc'.gate = svc.gate
        /\ svc'.file = svc.file /\ svc'.closes = svc.closes
        /\ svc'.env = "none" /\ svc'.load = svc.load
        /\ svc'.batch = svc.batch /\ svc'.backend = svc.backend
        /\ svc'.backends = svc.backends
    BY <2>4 DEF Live, Services
  <2>6. StillBacked(s, svc')
    BY <1>3, <2>2, <2>5 DEF StillBacked
  <2> QED
    BY <1>2, <2>2, <2>3, <2>5, <2>6, <1>4, <2>1, <2>4, GivenBack DEF Live
<1>5. CASE Retry
  BY <1>1, <1>5, RetryKeeps
<1>6. CASE PoisonDomain
  BY <1>2, <1>6, PoisonHere
<1> QED
  BY <1>4, <1>5, <1>6 DEF EnvironmentFreed

(* The file lease of an aborted request is finished once and recycled. *)
LEMMA AbortClosedKeeps ==
  ASSUME IndInv, ~poisoned, Live, AbortClosed
  PROVE  IndInv'
<1>1. slot.state = "ABORT_FILE_CLOSING"
  BY DEF AbortClosed
<1>2. /\ Covered(slot.state) /\ ~slot.session /\ ~Sealed(slot)
      /\ Rank(slot.state) = 0 /\ call = "unwind"
      /\ slot.file /\ slot.batch = "none" /\ ~slot.block /\ ~slot.envBlock
  BY <1>1, CoveredStates, OffLadder
  DEF Live, Beginning, Backward, Sealed, ControlOf, Resting, CanAbort,
      Advancing
<1>3. StillBacked(slot, svc)
  BY <1>2, StillBackedHere
<1>4. CASE Continue(Unwinding([slot EXCEPT !.file = FALSE]),
                    [Finished(svc) EXCEPT !.file = "none"])
  <2>1. PICK s : s = [slot EXCEPT !.file = FALSE]
    OBVIOUS
  <2>2. /\ s \in Slot /\ s.session = slot.session
        /\ s.journal = slot.journal /\ s.observer = slot.observer
        /\ s.request = slot.request /\ s.runtime = slot.runtime
        /\ ~s.file /\ s.envBlock = slot.envBlock
        /\ s.block = slot.block /\ s.batch = slot.batch
    BY <2>1, ZenonT(60) DEF Live, Slot
  <2>3. Deps(s)
    BY <1>2, <2>1 DEF Live, Slot, Deps, IsProcess
  <2>4. PICK w : w = Finished(svc)
    OBVIOUS
  <2>6. /\ w \in Services /\ w.closes <= 1 /\ w.gate = svc.gate
        /\ w.env = svc.env /\ w.load = svc.load /\ w.batch = svc.batch
        /\ w.backend = svc.backend /\ w.backends = svc.backends
    BY <1>3, <2>4, <1>2, FinishedOnce DEF Live, StillBacked, Services
  <2>7. svc' = [w EXCEPT !.file = "none"]
    BY <1>4, <2>4 DEF Continue, Do
  <2>8. /\ svc' \in Services /\ svc'.gate = w.gate
        /\ svc'.file = "none" /\ svc'.closes = w.closes
        /\ svc'.env = w.env /\ svc'.load = w.load
        /\ svc'.batch = w.batch /\ svc'.backend = w.backend
        /\ svc'.backends = w.backends
    BY ONLY <2>6, <2>7 DEF Services
  <2>9. StillBacked(s, svc')
    BY <1>3, <2>2, <2>6, <2>8 DEF StillBacked
  <2> QED
    BY <1>2, <2>2, <2>3, <2>8, <2>9, <1>4, <2>1, <2>4, <2>6, <2>7, GivenBack
<1>5. CASE Retry
  BY <1>1, <1>5, RetryKeeps
<1>6. CASE PoisonWith(slot, [svc EXCEPT !.file = "poisoned"])
  BY <1>2, <1>6, FilePoisonKeeps
<1> QED
  BY <1>4, <1>5, <1>6 DEF AbortClosed

(* The gate is opened last. *)
LEMMA ObserverReleasedKeeps ==
  ASSUME IndInv, ~poisoned, Live, ObserverReleased
  PROVE  IndInv'
<1>1. slot.state = "OBSERVER_RELEASING" /\ call = "unwind"
  BY DEF ObserverReleased
<1>2. /\ slot' = [slot EXCEPT !.state = "ABORTED", !.observer = "released"]
      /\ svc' = [svc EXCEPT !.gate = "free"]
      /\ call' = "idle" /\ UNCHANGED <<gens, poisoned>>
  BY DEF ObserverReleased, Return, Do
<1>3. /\ slot' \in Slot /\ slot'.state = "ABORTED"
      /\ slot'.observer = "released"
  BY <1>2, KnownStates, ZenonT(60) DEF Live, Slot, Reached
<1>4. /\ slot'.request = slot.request /\ slot'.runtime = slot.runtime
      /\ slot'.journal = slot.journal /\ slot'.file = slot.file
      /\ slot'.envBlock = slot.envBlock /\ slot'.block = slot.block
      /\ slot'.batch = slot.batch /\ slot'.session = slot.session
      /\ slot'.staged = slot.staged /\ slot'.psp = slot.psp
      /\ slot'.loadRebind = slot.loadRebind
  BY <1>2 DEF Live, Slot
<1>5. /\ svc' \in Services /\ svc'.gate = "free"
      /\ svc'.file = svc.file /\ svc'.closes = svc.closes
      /\ svc'.env = svc.env /\ svc'.load = svc.load
      /\ svc'.batch = svc.batch /\ svc'.backend = svc.backend
      /\ svc'.backends = svc.backends
  BY <1>2 DEF Live, Services
<1>6. Deps(slot')
  BY <1>2 DEF Live, Slot, Deps, IsProcess
<1>8. Backward(slot', call')
  BY <1>1, OffLadder, <1>3, <1>4 DEF Live, Backward, IsProcess
<1>9. Backed(slot', svc')
  BY <1>1, <1>3, <1>4, <1>5, OffLadder DEF Live, Backed, Sealed
<1>10. ControlOf("ABORTED", "idle")
  BY Rests DEF Resting
<1> QED
  BY <1>2, <1>3, <1>5, <1>6, OffLadder, <1>8, <1>9, <1>10, StaysLive
  DEF Live, Forward, Guarded, ObserverOf

(* retire: an aborted request holds nothing any more. *)
LEMMA RetireKeeps ==
  ASSUME IndInv, Retire
  PROVE  IndInv'
<1>1. Resolves /\ slot.state = "ABORTED"
  BY DEF Retire, Accepts
<1>2. ~poisoned /\ Live /\ \A c : Entered(c) = c
  BY <1>1, Accepted
<1>5. /\ svc.gate = "free" /\ svc.file = "none" /\ svc.env = "none"
      /\ svc.load = "none" /\ svc.batch = "none"
      /\ svc.backend \in {"none", "poisoned"}
      /\ svc.backend = "poisoned" => svc.backends
  BY <1>1, <1>2 DEF Live, Guarded, ObserverOf, Backed, Backward
<1> QED
  BY <1>2, <1>5, StaysVacant DEF Live, Retire, Do

-----------------------------------------------------------------------------
(* Everybody else, and all steps together                                  *)

(* What other calls do to the services is not what the request relies on. *)
LEMMA OthersKeep ==
  ASSUME IndInv, UNCHANGED <<slot, gens, poisoned, call>>,
         svc' \in Services, svc'.gate = svc.gate, svc'.file = svc.file,
         svc'.closes = svc.closes, svc'.env = svc.env,
         svc'.load = svc.load, svc'.batch = svc.batch,
         svc'.backend = svc.backend, svc.backends => svc'.backends,
         svc.arena => svc'.arena
  PROVE  IndInv'
<1>1. CASE poisoned
  BY <1>1 DEF IndInv, TypeOK
<1>2. CASE ~poisoned
  BY <1>2 DEF IndInv, Backed, Guarded, Sound, TypeOK
<1> QED
  BY <1>1, <1>2

(* The runtime moves, at any time. *)
LEMMA RuntimeMovesKeeps ==
  ASSUME IndInv, RuntimeMoves
  PROVE  IndInv'
<1>1. PICK p \in Psps : svc' = [svc EXCEPT !.gen = svc.gen + 1, !.pdb = p]
  BY DEF RuntimeMoves
<1>2. svc \in Services /\ svc.gen < RuntimeMax
  BY DEF RuntimeMoves, IndInv, TypeOK
<1>3. PICK g : g = svc.gen + 1
  OBVIOUS
<1>4. g \in 1 .. RuntimeMax
  BY <1>2, <1>3, SlotAssumption DEF Services
<1>5. PICK u : u = [svc EXCEPT !.gen = g]
  OBVIOUS
<1>6. u \in Services
  BY ONLY <1>2, <1>4, <1>5 DEF Services
<1>7. svc' = [u EXCEPT !.pdb = p]
  BY ONLY <1>1, <1>2, <1>3, <1>5 DEF Services
<1>8. svc' \in Services
  BY ONLY <1>6, <1>7, p \in Psps DEF Services
<1>9. /\ svc'.gate = svc.gate /\ svc'.file = svc.file
      /\ svc'.closes = svc.closes /\ svc'.env = svc.env
      /\ svc'.load = svc.load /\ svc'.batch = svc.batch
      /\ svc'.backend = svc.backend /\ svc'.backends = svc.backends
      /\ svc'.arena = svc.arena
  BY ONLY <1>1, <1>2 DEF Services
<1> QED
  BY <1>8, <1>9, OthersKeep DEF RuntimeMoves

(* A service is poisoned, at any time. *)
LEMMA ServicePoisonedKeeps ==
  ASSUME IndInv, ServicePoisoned
  PROVE  IndInv'
<1>1. PICK f \in {"runtime", "arena", "backends"} :
        svc' = [svc EXCEPT ![f] = TRUE]
  BY DEF ServicePoisoned
<1>2. svc \in Services
  BY DEF IndInv, TypeOK
<1>3. /\ svc' \in Services /\ svc'.gate = svc.gate /\ svc'.file = svc.file
      /\ svc'.closes = svc.closes /\ svc'.env = svc.env
      /\ svc'.load = svc.load /\ svc'.batch = svc.batch
      /\ svc'.backend = svc.backend /\ (svc.backends => svc'.backends)
      /\ (svc.arena => svc'.arena)
  <2>1. CASE f = "runtime"
    BY ONLY <1>1, <1>2, <2>1 DEF Services
  <2>2. CASE f = "arena"
    BY ONLY <1>1, <1>2, <2>2 DEF Services
  <2>3. CASE f = "backends"
    BY ONLY <1>1, <1>2, <2>3 DEF Services
  <2> QED
    BY <2>1, <2>2, <2>3
<1> QED
  BY <1>3, OthersKeep DEF ServicePoisoned

(* The coordinator starts with an empty table and services at rest. *)
LEMMA InitInv == Init => IndInv
<1> SUFFICES ASSUME Init PROVE IndInv
  OBVIOUS
<1>1. /\ svc \in Services /\ svc.closes = 0
      /\ svc.gate = "free" /\ svc.file = "none" /\ svc.env = "none"
      /\ svc.load = "none" /\ svc.batch = "none" /\ svc.backend = "none"
  <2>1. svc \in [gate : {"free"}, file : {"none"}, closes : {0},
                 env : {"none"}, load : {"none"}, arena : {FALSE},
                 batch : {"none"}, backend : {"none"}, backends : {FALSE},
                 gen : {1}, pdb : {0, 1}, runtime : {FALSE}]
    BY DEF Init
  <2>3. /\ svc.closes = 0 /\ svc.gen \in 1 .. RuntimeMax
        /\ svc.pdb \in Psps
    BY <2>1, SlotAssumption DEF Psps
  <2>5. svc = [gate |-> "free", file |-> "none", closes |-> 0,
               env |-> "none", load |-> "none", arena |-> FALSE,
               batch |-> "none", backend |-> "none", backends |-> FALSE,
               gen |-> svc.gen, pdb |-> svc.pdb, runtime |-> FALSE]
    BY ONLY <2>1
  <2>6. svc \in Services
    <3>1. PICK g \in 1 .. RuntimeMax : g = svc.gen
      BY <2>3
    <3>2. PICK p \in Psps : p = svc.pdb
      BY <2>3
    <3>3. PICK c \in 0 .. 2 : c = 0
      OBVIOUS
    <3>4. [gate |-> "free", file |-> "none", closes |-> c,
           env |-> "none", load |-> "none", arena |-> FALSE,
           batch |-> "none", backend |-> "none", backends |-> FALSE,
           gen |-> g, pdb |-> p, runtime |-> FALSE] \in Services
      BY ONLY <3>1, <3>2, <3>3, Zenon DEF Services
    <3> QED
      BY <2>5, <3>1, <3>2, <3>3, <3>4
  <2> QED
    BY <2>3, <2>1, <2>6
<1>2. /\ slot \in Slot /\ slot.state = "VACANT" /\ slot = Vacant(slot.index)
  BY VacantSlot, SlotAssumption DEF Init, Vacant
<1>3. gens \in [1 .. SlotCount -> 0 .. GenerationMax]
  BY SlotAssumption DEF Init
<1>4. ControlOf("VACANT", "idle")
  BY Rests DEF Resting
<1> QED
  <2>1. poisoned = FALSE /\ call = "idle"
    BY DEF Init
  <2>2. Sound(slot, svc, call)
    BY <1>1, <1>2 DEF Sound
  <2> QED
    <3>1. TypeOK
      BY <1>1, <1>2, <1>3, <2>1 DEF TypeOK
    <3>2. ControlOf(slot.state, call)
      BY <1>2, <1>4, <2>1
    <3> QED
      BY <1>2, <2>1, <2>2, <3>1, <3>2, <1>1 DEF IndInv

(* A callback of any service. *)
LEMMA CallbackKeeps ==
  ASSUME IndInv, Callback
  PROVE  IndInv'
<1>1. ~poisoned /\ Live
  BY CalledBack DEF Callback
<1>2. CASE BeginCallback
  BY <1>1, GatePoisonKeeps, Ladder, <1>2, AcquireRefusedKeeps, AcquiredKeeps,
     BeginGivenUpKeeps DEF AcquireUncertain, BeginCallback
<1>3. CASE FileCallback
  BY <1>1, <1>3, NameReadKeeps, OpenedKeeps, ProbedKeeps, ClosedKeeps
  DEF FileCallback
<1>4. CASE EnvironmentCallback
  BY <1>1, <1>4, EnvironmentReadKeeps, EnvironmentScannedKeeps,
     EnvironmentAllocatedKeeps, EnvironmentBuiltKeeps
  DEF EnvironmentCallback
<1>5. CASE ImageCallback
  BY <1>1, <1>5, ImageInspectedKeeps, LoadQueriedKeeps, LoadAllocatedKeeps,
     ResidentLoadedKeeps, RelocatedKeeps
  DEF ImageCallback
<1>6. CASE ChildCallback
  BY <1>1, <1>6, ParentCapturedKeeps, SftPreparedKeeps,
     ParametersReadKeeps, PspPreparedKeeps, DrivesResolvedKeeps
  DEF ChildCallback
<1>7. CASE StagingCallback
  BY <1>1, <1>7, ProcessMemoryStagedKeeps, GlobalMemoryStagedKeeps,
     HandoffStagedKeeps
  DEF StagingCallback
<1>8. CASE SealCallback
  BY <1>1, <1>8, BackendPreparedKeeps, SealReleasedKeeps,
     SealQuarantinedKeeps
  DEF SealCallback
<1>9. CASE UnwindCallback
  BY <1>1, GatePoisonKeeps, OffLadder, <1>9, BackendReleasedKeeps, JournalAbortedKeeps,
     SftAbortedKeeps, LoadFreedKeeps, EnvironmentFreedKeeps, AbortClosedKeeps,
     ObserverReleasedKeeps DEF ReleaseUncertain, UnwindCallback
<1> QED
  BY <1>2, <1>3, <1>4, <1>5, <1>6, <1>7, <1>8, <1>9 DEF Callback

(* An operation of the kernel. *)
LEMMA OperationKeeps ==
  ASSUME IndInv, Operation
  PROVE  IndInv'
BY BeginKeeps, OpenKeeps, ProbeKeeps, CloseKeeps, SelectEnvironmentKeeps,
   PrepareEnvironmentKeeps, InspectImageKeeps, PrepareTargetKeeps,
   LoadResidentKeeps, RelocateResidentKeeps, CaptureParentKeeps,
   PrepareInheritanceKeeps, PreparePspKeeps, FinalizeInitialStateKeeps,
   StageProcessMemoryKeeps, StageGlobalMemoryKeeps, PrepareHandoffKeeps,
   PrepareBackendKeeps, SealExecuteKeeps, SealLoadOnlyKeeps,
   RetirePublishedKeeps, AbortKeeps, RetireKeeps
DEF Operation

(* Every step keeps the invariant. *)
LEMMA NextInv == IndInv /\ [Next]_vars => IndInv'
<1>1. ASSUME IndInv, UNCHANGED vars PROVE IndInv'
  BY <1>1 DEF vars, IndInv, TypeOK
<1> QED
  BY <1>1, OperationKeeps, CallbackKeeps, RuntimeMovesKeeps,
     ServicePoisonedKeeps
  DEF Next

(* Every state the coordinator reaches satisfies the inductive invariant. *)
THEOREM Inductive == Spec => []IndInv
BY InitInv, NextInv, PTL DEF Spec

-----------------------------------------------------------------------------
(* The encoding rules follow                                               *)

(* The states in which a request on its way up is at rest. *)
Rungs == (CanAbort \ {"FAILED", "ABORTING"}) \cup {"PUBLISHED"}

(* At rest the intervals of slot_has_valid_encoding are pieces of the      *)
(* ladder.                                                                 *)
LEMMA Intervals ==
  ASSUME NEW x \in Rungs
  PROVE  /\ Rank(x) \in 1 .. 24
         /\ x \in MemoryInterval <=> Rank(x) >= 19
         /\ x \in PspInterval <=> Rank(x) >= 18
         /\ x \in SftInterval <=> Rank(x) >= 17
         /\ x \in ParentInterval <=> Rank(x) >= 16
         /\ x \in RelocationInterval <=> Rank(x) >= 14
         /\ x \in ResidentInterval <=> Rank(x) >= 12
         /\ x \in TargetInterval <=> Rank(x) >= 10
         /\ x \in LoadInterval <=> Rank(x) >= 10
         /\ x \in EnvironmentInterval <=> Rank(x) >= 6
         /\ x \in SelectedInterval <=> Rank(x) >= 3
         /\ x \in FileInterval <=> Rank(x) >= 2
<1>1. /\ x \in {"OBSERVED", "FILE_OPEN", "FILE_PROBED", "ENV_READY",
                "ENVIRONMENT_BLOCK_READY", "IMAGE_READY", "TARGET_READY",
                "RESIDENT_READY", "IMAGE_PRIVATE", "PROCESS_FILE_CLOSED",
                "PARENT_SNAPSHOT_READY", "SFT_RESERVED", "PSP_PREPARED",
                "INITIAL_STATE_READY", "GLOBAL_STAGED",
                "GLOBAL_MEMORY_READY", "HANDOFF_READY", "BACKEND_DORMANT",
                "FILE_CLOSED", "PUBLISHED"}
  BY DEF Rungs, CanAbort
<1>2. Rank(x) \in 1 .. 24
  BY <1>1, Ladder
<1>3. x \in MemoryInterval <=> Rank(x) >= 19
  BY <1>1, Ladder DEF MemoryInterval
<1>4. x \in PspInterval <=> Rank(x) >= 18
  BY <1>1, <1>3, Ladder DEF PspInterval
<1>5. x \in SftInterval <=> Rank(x) >= 17
  BY <1>1, <1>4, Ladder DEF SftInterval
<1>6. x \in ParentInterval <=> Rank(x) >= 16
  BY <1>1, <1>5, Ladder DEF ParentInterval
<1>7. x \in RelocationInterval <=> Rank(x) >= 14
  BY <1>1, <1>6, Ladder DEF RelocationInterval
<1>8. x \in ResidentInterval <=> Rank(x) >= 12
  BY <1>1, <1>7, Ladder DEF ResidentInterval
<1>9. x \in TargetInterval <=> Rank(x) >= 10
  BY <1>1, <1>8, Ladder DEF TargetInterval
<1>10. x \in LoadInterval <=> Rank(x) >= 10
  BY <1>1, <1>9, Ladder DEF LoadInterval
<1>11. x \in EnvironmentInterval <=> Rank(x) >= 6
  BY <1>1, <1>10, Ladder DEF EnvironmentInterval
<1>12. x \in SelectedInterval <=> Rank(x) >= 3
  BY <1>1, <1>11, Ladder DEF SelectedInterval
<1>13. x \in FileInterval <=> Rank(x) >= 2
  BY <1>1, <1>12, Ladder DEF FileInterval
<1> QED
  BY <1>2, <1>3, <1>4, <1>5, <1>6, <1>7, <1>8, <1>9, <1>10, <1>11, <1>12,
     <1>13

(* A state that has left the ladder is in none of them. *)
LEMMA OutOfIntervals ==
  ASSUME NEW x \in {"FAILED", "ABORTING", "ABORTED", "POISONED"}
  PROVE  /\ x \notin MemoryInterval /\ x \notin PspInterval
         /\ x \notin SftInterval /\ x \notin ParentInterval
         /\ x \notin RelocationInterval /\ x \notin ResidentInterval
         /\ x \notin TargetInterval /\ x \notin LoadInterval
         /\ x \notin EnvironmentInterval /\ x \notin SelectedInterval
         /\ x \notin FileInterval
<1>1. x \notin MemoryInterval
  BY DEF MemoryInterval
<1>2. x \notin PspInterval
  BY <1>1 DEF PspInterval
<1>3. x \notin SftInterval
  BY <1>2 DEF SftInterval
<1>4. x \notin ParentInterval
  BY <1>3 DEF ParentInterval
<1>5. x \notin RelocationInterval
  BY <1>4 DEF RelocationInterval
<1>6. x \notin ResidentInterval
  BY <1>5 DEF ResidentInterval
<1>7. x \notin TargetInterval
  BY <1>6 DEF TargetInterval
<1>8. x \notin LoadInterval
  BY <1>7 DEF LoadInterval
<1>9. x \notin EnvironmentInterval
  BY <1>8 DEF EnvironmentInterval
<1>10. x \notin SelectedInterval
  BY <1>9 DEF SelectedInterval
<1> QED
  BY <1>1, <1>2, <1>3, <1>4, <1>5, <1>6, <1>7, <1>8, <1>9, <1>10 DEF FileInterval

(* Every rung at rest is encoded as its state demands. *)
LEMMA RungEncoded ==
  ASSUME Live, call = "idle", slot.state \in Rungs
  PROVE  ValidEncoding(slot)
<1>1. PICK n : n = Rank(slot.state)
  OBVIOUS
<1>2. /\ n \in 1 .. 24 /\ Rung(n, slot)
  BY <1>1, Intervals, SMTT(40) DEF Live, Forward
<1>3. /\ slot.state \in MemoryInterval <=> n >= 19
      /\ slot.state \in PspInterval <=> n >= 18
      /\ slot.state \in SftInterval <=> n >= 17
      /\ slot.state \in ParentInterval <=> n >= 16
      /\ slot.state \in RelocationInterval <=> n >= 14
      /\ slot.state \in ResidentInterval <=> n >= 12
      /\ slot.state \in TargetInterval <=> n >= 10
      /\ slot.state \in LoadInterval <=> n >= 10
      /\ slot.state \in EnvironmentInterval <=> n >= 6
      /\ slot.state \in SelectedInterval <=> n >= 3
      /\ slot.state \in FileInterval <=> n >= 2
  BY <1>1, Intervals
<1>4. slot \in Slot /\ Deps(slot)
  BY DEF Live
<1>5. SourceValid(slot)
  BY <1>2, <1>3, <1>4
  DEF SourceValid, Rung, FileRung, Deps, Slot, IsProcess
<1>6. NameValid(slot)
  BY <1>2, <1>3, <1>4 DEF NameValid, Rung, FileRung
<1>7. ~IsProcess(slot) => n \in {1, 2, 6, 7}
  BY <1>2, <1>4 DEF Rung, FileRung, ImageRung, Deps
<1>8. EnvironmentValid(slot)
  BY <1>4, <1>1, <1>2, <1>3, Ladder
  DEF Deps, Rungs, CanAbort, EnvironmentValid, Rung, FileRung
<1>9. ImageValid(slot)
  BY <1>1, Ladder, <1>2, <1>3 DEF Rungs, CanAbort, ImageValid, Rung, ImageRung
<1>10. TargetValid(slot)
  BY <1>1, Ladder, <1>2, <1>3, <1>4, <1>7
  DEF Rungs, CanAbort, TargetValid, Rung, ImageRung, Deps
<1>11. ResidentValid(slot)
  BY <1>1, Ladder, <1>2, <1>3, <1>4
  DEF Rungs, CanAbort, ResidentValid, Rung, ImageRung, Deps
<1>12. RelocationValid(slot)
  BY <1>1, Ladder, <1>2, <1>3, <1>4
  DEF Rungs, CanAbort, RelocationValid, Rung, ImageRung, Deps, Slot
<1>13. ParentValid(slot)
  BY <1>1, Ladder, <1>2, <1>3, <1>4, <1>7 DEF ParentValid, Rung, ChildRung
<1>14. InheritanceValid(slot)
  <2>1. slot.state = "SFT_RESERVED" => n = 17
    BY <1>1, Ladder
  <2> QED
    <3>1. CASE slot.batch = "none"
      BY <1>2, <3>1, <2>1 DEF Rung, ChildRung, InheritanceValid
    <3>2. CASE slot.batch = "jft"
      BY <1>2, <1>3, <1>4, <3>2
      DEF InheritanceValid, Rung, ChildRung, Deps
    <3> QED
      BY <1>4, <3>1, <3>2 DEF Deps, Slot
<1>15. PspValid(slot)
  BY <1>2, <1>3, <1>4, <1>7 DEF PspValid, Rung, ChildRung
<1>16. PublicationValid(slot)
  BY <1>1, Ladder, <1>2, <1>4, <1>7
  DEF Rungs, CanAbort, PublicationValid, Rung, ChildRung, Deps, IsProcess
<1>17. JournalValid(slot)
  BY <1>4 DEF JournalValid, Deps
<1>18. slot.state # "OBSERVER_ACQUIRING" /\ slot.state # "VACANT"
  BY DEF Rungs, CanAbort
<1>19. SnapshotValid(slot)
  BY <1>4, <1>18 DEF SnapshotValid, Live, Backward, Deps
<1>20. FileValid(slot)
  BY <1>1, Ladder, <1>2, <1>3 DEF Rungs, CanAbort, FileValid, Rung, FileRung
<1>21. ObserverValid(slot)
  BY DEF ObserverValid, ObserverOf, Live, Guarded, Rungs, CanAbort
<1> QED
  BY <1>4, <1>5, <1>6, <1>8, <1>9, <1>10, <1>11, <1>12, <1>13, <1>14, <1>15,
     <1>16, <1>17, <1>18, <1>19, <1>20, <1>21
  DEF ValidEncoding, Deps

(* So is a request that has stopped, unless its backend broke its contract *)
(* in prepare.                                                             *)
LEMMA StoppedEncoded ==
  ASSUME Live, call = "idle", ~Stranded,
         slot.state \in {"FAILED", "ABORTING", "ABORTED"}
  PROVE  ValidEncoding(slot)
<1>1. slot \in Slot /\ Deps(slot)
  BY DEF Live
<1>2. /\ slot.state \notin PspInterval /\ slot.state \notin SftInterval
      /\ slot.state \notin ParentInterval
      /\ slot.state \notin RelocationInterval
      /\ slot.state \notin ResidentInterval
      /\ slot.state \notin TargetInterval /\ slot.state \notin LoadInterval
      /\ slot.state \notin EnvironmentInterval
      /\ slot.state \notin SelectedInterval
      /\ slot.state \notin FileInterval
  BY OutOfIntervals
<1>4. /\ slot.state = "ABORTED" =>
           /\ ~slot.file /\ ~slot.envBlock /\ ~slot.block
           /\ ~slot.psp /\ slot.batch = "none"
      /\ slot.state = "ABORTING" => slot.file
      /\ slot.state = "FAILED" => (slot.name <=> slot.file)
  BY DEF Live, Backward
<1>5. SourceValid(slot)
  BY <1>1, <1>2 DEF SourceValid, Deps, Stopped, Ended, IsProcess, Slot
<1>6. NameValid(slot)
  BY <1>1, <1>4 DEF NameValid, Deps, Stopped
<1>7. EnvironmentValid(slot)
  BY <1>1, <1>2, <1>4 DEF EnvironmentValid, Deps, Stopped, Ended
<1>8. ImageValid(slot)
  BY <1>1, <1>2 DEF ImageValid, Stopped, Ended
<1>9. TargetValid(slot)
  BY <1>1, <1>4 DEF TargetValid, Deps, Stopped, Ended
<1>10. ResidentValid(slot)
  BY <1>1, <1>4 DEF ResidentValid, Deps, Stopped
<1>11. RelocationValid(slot)
  BY <1>1, <1>4 DEF RelocationValid, Deps, Stopped
<1>12. ParentValid(slot)
  BY <1>1, <1>4 DEF ParentValid, Deps, Stopped
<1>13. InheritanceValid(slot)
  BY <1>1, <1>4 DEF InheritanceValid, Deps, Stopped, Slot
<1>14. PspValid(slot)
  BY <1>1, <1>2, <1>4 DEF PspValid, Deps, Stopped
<1>15. PublicationValid(slot) /\ JournalValid(slot)
  BY <1>1 DEF PublicationValid, JournalValid, Deps, Live, Backed, Backward, Stranded
<1>16. SnapshotValid(slot)
  BY <1>1 DEF SnapshotValid, Live, Backward, Deps
<1>17. FileValid(slot)
  BY <1>2, <1>4 DEF FileValid
<1>18. ObserverValid(slot)
  BY DEF ObserverValid, ObserverOf, Live, Guarded
<1> QED
  BY <1>1, <1>5, <1>6, <1>7, <1>8, <1>9, <1>10, <1>11, <1>12, <1>13, <1>14,
     <1>15, <1>16, <1>17, <1>18
  DEF ValidEncoding, Deps

(* The invariant implies what the runs check about every slot. *)
LEMMA HeldHere == IndInv => SlotsHeld
<1> SUFFICES ASSUME IndInv PROVE SlotsHeld
  OBVIOUS
<1>1. TypeOK /\ ClosedOnce
  BY DEF IndInv, ClosedOnce
<1>3. ASSUME call = "idle", ~poisoned, ~Stranded PROVE ValidEncoding(slot)
  BY <1>3, LiveParts, RungEncoded, StoppedEncoded
  DEF IndInv, Sound, ValidEncoding, Live, ControlOf, Resting, CanAbort, Rungs
<1> QED
  BY <1>1, <1>3 DEF SlotsHeld, EncodingHeld, IndInv, ControlOf, Serialized

(* and about what a request publishes.                                     *)
LEMMA WholeHere == IndInv => AllOrNothing
<1> SUFFICES ASSUME IndInv PROVE AllOrNothing
  OBVIOUS
<1>1. ASSUME slot.state = "PUBLISHED"
      PROVE  /\ svc.load = "published" /\ svc.batch = "committed"
             /\ slot.envBlock => svc.env = "published"
             /\ slot.journal = "sealed" /\ svc.file = "closed"
             /\ svc.gate = "free"
             /\ slot.request = "exec0" => svc.backend = "runnable"
  BY <1>1, LiveParts, Ladder
  DEF IndInv, Live, Forward, Rung, FileRung, ImageRung, ChildRung, Backed, Sealed,
      Guarded, ObserverOf
<1>2. ASSUME slot.state \notin {"COMMITTING", "PUBLISHED", "POISONED"}
      PROVE  /\ "published" \notin {svc.load, svc.env}
             /\ svc.batch # "committed" /\ svc.backend # "runnable"
             /\ slot.journal # "sealed"
  <2>1. ~poisoned
    BY <1>2 DEF IndInv
  <2>2. CASE slot.state = "VACANT"
    BY <2>1, <2>2 DEF IndInv, Sound, Vacant
  <2>3. CASE slot.state # "VACANT"
    <3>1. Live /\ ~Sealed(slot)
      BY <1>2, <2>1, <2>3, LiveParts DEF Sealed
    <3>2. slot.journal # "sealed"
      <4>1. CASE Rank(slot.state) = 0
        BY <3>1, <4>1 DEF Live, Backward
      <4>2. CASE Rank(slot.state) # 0
        <5>1. Rank(slot.state) \in 1 .. 22
          BY <1>2, <4>2 DEF Rank
        <5> QED
          BY <3>1, <4>2, <5>1 DEF Live, Forward, Deps, Rung, ChildRung
      <4> QED
        BY <4>1, <4>2
    <3> QED
      BY <3>1, <3>2, <1>2 DEF Live, Backed
  <2> QED
    BY <2>2, <2>3
<1> QED
  BY <1>1, <1>2 DEF AllOrNothing, IndInv

(* Whatever an operation does, whichever service fails in the middle of it *)
(* and whichever call is attempted from a callback: the slot is of its     *)
(* type, no operation is ever entered twice, a reader is closed at most    *)
(* once, and between calls the slot passes slot_has_valid_encoding.        *)
THEOREM SlotsAlwaysHeld == Spec => []SlotsHeld
BY Inductive, HeldHere, PTL

(* A request is published as a whole or not at all; one that is poisoned   *)
(* after the seal leaves its arena poisoned.                               *)
THEOREM PublishesWhole == Spec => []AllOrNothing
BY Inductive, WholeHere, PTL

-----------------------------------------------------------------------------
(* The coordinator implements ExecPromise.  Under the invariant above every *)
(* step is one of six kinds: it leaves what is held alone, takes one thing, *)
(* gives one thing back, opens or ends a request, or quarantines it.  The   *)
(* seal is the only step that publishes, and it finds everything that       *)
(* belongs to the child in private hands.                                   *)

PromiseStep == [Promise!Next]_(Promise!promiseVars)

(* What a request holds privately, as an operator of slot and services. *)
HeldBy(s, v) ==
  {r \in {"gate", "file", "env", "load", "sft", "bytes", "backend"} :
     CASE r = "gate"    -> v.gate = "held"
       [] r = "file"    -> v.file \in {"open", "probed"}
       [] r = "env"     -> v.env = "active"
       [] r = "load"    -> v.load = "active"
       [] r = "sft"     -> v.batch = "prepared"
       [] r = "bytes"   -> s.staged
       [] r = "backend" -> v.backend = "dormant"
                             /\ s.state # "COMMITTING"}

Private(x) == x \notin {"VACANT", "COMMITTING", "PUBLISHED"}

(* A step inside a private request. *)
Calm ==
  /\ ~poisoned /\ ~poisoned'
  /\ Private(slot.state) /\ Private(slot'.state)
  /\ svc'.pdb = svc.pdb

(* Nothing but r changes hands. *)
Only(r) ==
  /\ r = "gate" \/ svc'.gate = svc.gate
  /\ r = "file" \/ (svc'.file \in {"open", "probed"}
                      <=> svc.file \in {"open", "probed"})
  /\ r = "env" \/ svc'.env = svc.env
  /\ r = "load" \/ svc'.load = svc.load
  /\ r = "sft" \/ svc'.batch = svc.batch
  /\ r = "bytes" \/ (slot'.staged <=> slot.staged)
  /\ r = "backend" \/ (svc'.backend = "dormant" <=> svc.backend = "dormant")

-----------------------------------------------------------------------------
(* The kinds of steps                                                      *)

(* What Held says, thing by thing. *)
LEMMA HeldMembers ==
  ASSUME NEW s, NEW v
  PROVE  /\ HeldBy(s, v) \subseteq Promise!Resources
         /\ "gate" \in HeldBy(s, v) <=> v.gate = "held"
         /\ "file" \in HeldBy(s, v) <=> v.file \in {"open", "probed"}
         /\ "env" \in HeldBy(s, v) <=> v.env = "active"
         /\ "load" \in HeldBy(s, v) <=> v.load = "active"
         /\ "sft" \in HeldBy(s, v) <=> v.batch = "prepared"
         /\ "bytes" \in HeldBy(s, v) <=> s.staged
         /\ "backend" \in HeldBy(s, v) <=>
              v.backend = "dormant" /\ s.state # "COMMITTING"
BY DEF HeldBy, Promise!Resources

(* What is held, before and after a step. *)
LEMMA HeldIs == Held = HeldBy(slot, svc) /\ Held' = HeldBy(slot', svc')
BY DEF Held, HeldBy

(* Nothing else changes hands: membership of every other thing is kept. *)
LEMMA OnlyHeld ==
  ASSUME Private(slot.state), Private(slot'.state), NEW r, Only(r)
  PROVE  \A q \in Promise!Resources \ {r} :
           q \in HeldBy(slot', svc') <=> q \in HeldBy(slot, svc)
<1> SUFFICES ASSUME NEW q \in Promise!Resources, q # r
             PROVE  q \in HeldBy(slot', svc') <=> q \in HeldBy(slot, svc)
  OBVIOUS
<1>2. CASE q = "gate"
  BY <1>2, HeldMembers DEF Only
<1>3. CASE q = "file"
  BY <1>3, HeldMembers DEF Only
<1>4. CASE q = "env"
  BY <1>4, HeldMembers DEF Only
<1>5. CASE q = "load"
  BY <1>5, HeldMembers DEF Only
<1>6. CASE q = "sft"
  BY <1>6, HeldMembers DEF Only
<1>7. CASE q = "bytes"
  BY <1>7, HeldMembers DEF Only
<1>8. CASE q = "backend"
  BY <1>8, HeldMembers DEF Only, Private
<1> QED
  BY <1>2, <1>3, <1>4, <1>5, <1>6, <1>7, <1>8 DEF Promise!Resources

(* The promise sees a private request. *)
LEMMA SeenPrivate ==
  ASSUME Calm
  PROVE  /\ Phase = "private" /\ Phase' = "private"
         /\ (IF poisoned THEN {} ELSE Held) = HeldBy(slot, svc)
         /\ (IF poisoned THEN {} ELSE Held)' = HeldBy(slot', svc')
BY HeldIs DEF Calm, Private, Phase

(* A step that leaves everything where it is. *)
LEMMA Silent ==
  ASSUME Calm, Only("none")
  PROVE  PromiseStep
<1>2. HeldBy(slot', svc') = HeldBy(slot, svc)
  BY OnlyHeld, HeldMembers DEF Calm, Promise!Resources
<1> QED
  BY <1>2, SeenPrivate DEF Calm, PromiseStep, Promise!promiseVars

(* A step that takes one thing under the gate. *)
LEMMA Takes ==
  ASSUME Calm, NEW r \in Promise!Resources, Only(r),
         r \notin HeldBy(slot, svc), r \in HeldBy(slot', svc'),
         r # "gate" => svc.gate = "held",
         r = "bytes" => svc.load = "active"
  PROVE  PromiseStep
<1>1. HeldBy(slot', svc') = HeldBy(slot, svc) \cup {r}
  BY OnlyHeld, HeldMembers DEF Calm
<1>3. Promise!Take(r)
  BY <1>1, HeldMembers, SeenPrivate DEF Calm, Promise!Take
<1> QED
  BY <1>3 DEF PromiseStep, Promise!Next

(* A step that gives one thing back. *)
LEMMA Drops ==
  ASSUME Calm, NEW r \in Promise!Resources, Only(r),
         r \in HeldBy(slot, svc), r \notin HeldBy(slot', svc'),
         r = "gate" => HeldBy(slot, svc) = {"gate"},
         r = "load" => ~slot.staged
  PROVE  PromiseStep
<1>2. r = "load" => "bytes" \notin HeldBy(slot, svc)
  BY HeldMembers
<1>3. Promise!Drop(r)
  BY OnlyHeld, HeldMembers, <1>2, SeenPrivate DEF Calm, Promise!Drop
<1> QED
  BY <1>3 DEF PromiseStep, Promise!Next

(* A step that poisons the table. *)
LEMMA Quarantines ==
  ASSUME ~poisoned, slot.state # "VACANT", NEW s, NEW v \in Services,
         PoisonWith(s, v) \/ PoisonDomainWith(s, v), v.pdb = svc.pdb
  PROVE  PromiseStep
<1>1. poisoned' = TRUE
  BY DEF PoisonWith, PoisonDomainWith
<1>3. Promise!Quarantine
  BY <1>1 DEF Promise!Quarantine, Phase, PoisonWith, Services, PoisonDomainWith
<1> QED
  BY <1>3 DEF PromiseStep, Promise!Next

(* The same with the services as they are. *)
LEMMA QuarantinesHere ==
  ASSUME ~poisoned, Live, slot.state # "VACANT", NEW s,
         PoisonWith(s, svc) \/ PoisonDomainWith(s, svc)
  PROVE  PromiseStep
BY Quarantines DEF Live

(* Poisoning the request's slot or its domain quarantines what it held. *)
LEMMA QuarantinesSlot ==
  ASSUME ~poisoned, Live, slot.state # "VACANT",
         PoisonTransaction \/ PoisonDomain
  PROVE  PromiseStep
BY QuarantinesHere DEF PoisonTransaction, PoisonDomain

(* A step that changes the slot, not the services and not the bytes. *)
LEMMA SlotOnly ==
  ASSUME ~poisoned, UNCHANGED poisoned, svc' = svc,
         Private(slot.state), Private(slot'.state),
         slot'.staged <=> slot.staged
  PROVE  PromiseStep
<1> QED
  BY Silent DEF Calm, Only

(* A step that changes nothing but the state. *)
Stepped(x) == slot' = At(x) /\ svc' = svc /\ UNCHANGED poisoned

(* A step that leaves services alone and the request private is invisible. *)
LEMMA Steps ==
  ASSUME ~poisoned, Live, Private(slot.state), NEW x, Private(x), Stepped(x)
  PROVE  PromiseStep
<1> QED
  BY SlotOnly DEF Stepped, Live, Slot, At

(* The ways a call moves on without a service. *)
LEMMA Continues ==
  /\ \A x : Enter(x) => Stepped(x)
  /\ \A x : Refuse(x) => Stepped(x)
  /\ \A x : Continue(At(x), svc) => Stepped(x)
  /\ \A x : Return(At(x), svc) => Stepped(x)
  /\ Fail => Stepped("FAILED")
BY DEF Enter, Refuse, Continue, Return, Fail, Do, Stepped

-----------------------------------------------------------------------------
(* Operations                                                              *)

(* An accepted operation finds a private request. *)
LEMMA Started ==
  ASSUME IndInv, Resolves, slot.state \in CanAbort
  PROVE  ~poisoned /\ Live /\ Private(slot.state) /\ slot.state # "VACANT"
BY Accepted DEF Private, CanAbort

(* The preflights of an operation poison, refuse or let it go on. *)
LEMMA Preflights ==
  ASSUME ~poisoned, Live, Private(slot.state), slot.state # "VACANT",
         NEW ACTION A, A => PromiseStep
  PROVE  /\ Preflighted(A) => PromiseStep
         /\ PreflightedArena(A) => PromiseStep
         /\ PreflightedOwner(A) => PromiseStep
<1> QED
  BY Continues, Steps, QuarantinesSlot
  DEF Preflighted, PreflightedArena, PreflightedOwner, Private

(* open, probe and close. *)
LEMMA FileOperations ==
  ASSUME IndInv, Open \/ Probe \/ Close
  PROVE  PromiseStep
<1>2. ~poisoned /\ Live /\ Private(slot.state)
  BY Started DEF Open, Probe, Close, Accepts, CanAbort
<1>3. PICK x \in {"NAME_READING", "FILE_PROBING", "FILE_CLOSING",
                  "PROCESS_FILE_CLOSING"} : Enter(x)
  BY DEF Open, Probe, Close
<1> QED
  BY <1>2, <1>3, Continues, Steps DEF Private

(* The environment and the image. *)
LEMMA EnvironmentOperations ==
  ASSUME IndInv, SelectEnvironment \/ PrepareEnvironment
  PROVE  PromiseStep
<1>2. ~poisoned /\ Live /\ Private(slot.state) /\ slot.state # "VACANT"
  BY Started
  DEF SelectEnvironment, PrepareEnvironment, AcceptsProcess, Accepts, CanAbort
<1>3. /\ Enter("ENVIRONMENT_READING") => PromiseStep
      /\ Enter("ENVIRONMENT_SCANNING") => PromiseStep
      /\ Refuse("ENVIRONMENT_BLOCK_READY") => PromiseStep
      /\ Refuse("FAILED") => PromiseStep
  BY <1>2, Continues, Steps DEF Private
<1>4. CASE SelectEnvironment
  BY <1>2, <1>3, <1>4, Preflights DEF SelectEnvironment
<1>5. CASE PrepareEnvironment
  <2> DEFINE A ==
        \/ slot.source = "none" /\ Refuse("ENVIRONMENT_BLOCK_READY")
        \/ /\ slot.source # "none" /\ slot.parentPsp = 0
           /\ Refuse("FAILED")
        \/ /\ slot.source # "none" /\ slot.parentPsp # 0
           /\ Enter("ENVIRONMENT_SCANNING")
  <2>1. A => PromiseStep
    BY <1>3
  <2>2. PreflightedArena(A)
    BY <1>5 DEF PrepareEnvironment
  <2> HIDE DEF A
  <2> QED
    BY <1>2, <2>1, <2>2, Preflights
<1> QED
  BY <1>4, <1>5

(* The operations on the image take nothing by themselves. *)
LEMMA ImageOperations ==
  ASSUME IndInv, InspectImage \/ PrepareTarget \/ LoadResident
                   \/ RelocateResident
  PROVE  PromiseStep
<1>2. ~poisoned /\ Live /\ Private(slot.state) /\ slot.state # "VACANT"
  BY Started
  DEF InspectImage, PrepareTarget, LoadResident, RelocateResident, AcceptsProcess,
      Accepts, CanAbort
<1>3. /\ Enter("IMAGE_READING") => PromiseStep
      /\ Enter("LOAD_QUERYING") => PromiseStep
      /\ Refuse("IMAGE_PRIVATE") => PromiseStep
      /\ Refuse("FAILED") => PromiseStep
  BY <1>2, Continues, Steps DEF Private
<1>5. ASSUME NEW s, s.staged <=> slot.staged, Private(s.state),
             WithReader(s, WithBlock(s, Do(s, svc, Entered("advance"))))
      PROVE  PromiseStep
  BY <1>2, QuarantinesHere, <1>5, SlotOnly DEF Do, WithReader, WithBlock
<1>6. CASE InspectImage
  BY <1>2, <1>3, QuarantinesHere, <1>6, Preflights DEF InspectImage, WithReader
<1>7. CASE PrepareTarget
  BY <1>2, <1>3, <1>7, Preflights DEF PrepareTarget
<1>8. CASE LoadResident
  <2> DEFINE s == [slot EXCEPT !.state = "RESIDENT_LOADING",
                               !.resident = "planned"]
             A == \/ Refuse("FAILED") \/ PoisonTransaction
                  \/ WithReader(s, WithBlock(s, Do(s, svc,
                                                   Entered("advance"))))
  <2>1. (s.staged <=> slot.staged) /\ Private(s.state)
    BY <1>2 DEF Live, Slot, Private
  <2>2. A => PromiseStep
    <3> HIDE DEF s
    <3> QED
      BY <1>2, <1>3, <1>5, <2>1, QuarantinesSlot
  <2>3. PreflightedOwner(A)
    BY <1>8 DEF LoadResident
  <2> HIDE DEF A
  <2> QED
    BY <1>2, <2>2, <2>3, Preflights
<1>9. CASE RelocateResident
  <2> DEFINE s == [slot EXCEPT !.state = "RELOCATING",
                               !.relocation = "planned"]
             A == \/ slot.image = "com" /\ Refuse("IMAGE_PRIVATE")
                  \/ /\ slot.image = "mz"
                     /\ WithReader(s, WithBlock(s, Do(s, svc,
                                                   Entered("advance"))))
  <2>1. (s.staged <=> slot.staged) /\ Private(s.state)
    BY <1>2 DEF Live, Slot, Private
  <2>2. A => PromiseStep
    <3> HIDE DEF s
    <3> QED
      BY <1>2, <1>3, <1>5, <2>1
  <2>3. PreflightedArena(A)
    BY <1>9 DEF RelocateResident
  <2> HIDE DEF A
  <2> QED
    BY <1>2, <2>2, <2>3, Preflights
<1> QED
  BY <1>6, <1>7, <1>8, <1>9

(* The child and its staged memory. *)
LEMMA ChildOperations ==
  ASSUME IndInv, \/ CaptureParent \/ PrepareInheritance \/ PreparePsp
                 \/ FinalizeInitialState \/ StageProcessMemory
                 \/ StageGlobalMemory \/ PrepareHandoff \/ PrepareBackend
  PROVE  PromiseStep
<1>2. ~poisoned /\ Live /\ Private(slot.state) /\ slot.state # "VACANT"
  BY Started
  DEF CaptureParent, PrepareInheritance, PreparePsp, FinalizeInitialState,
      StageProcessMemory, StageGlobalMemory, PrepareHandoff, PrepareBackend,
      AcceptsProcess, Accepts, CanAbort
<1>3. ASSUME NEW x \in {"PARENT_SNAPSHOTTING", "SFT_PREPARING",
                        "PROCESS_PARAMETER_READING", "DRIVE_RESOLVING",
                        "PROCESS_MEMORY_STAGING", "GLOBAL_MEMORY_STAGING",
                        "HANDOFF_STAGING", "BACKEND_PREPARING"}
      PROVE  Enter(x) => PromiseStep
  BY <1>2, Continues, Steps DEF Private
<1>4. CASE CaptureParent
  BY <1>2, <1>3, <1>4, Preflights DEF CaptureParent
<1>5. CASE PrepareInheritance
  BY <1>2, <1>3, <1>5, Preflights DEF PrepareInheritance
<1>6. CASE PreparePsp
  BY <1>2, <1>3, <1>6, Preflights DEF PreparePsp
<1>7. CASE StageGlobalMemory
  BY <1>2, <1>3, <1>7, Preflights DEF StageGlobalMemory
<1>8. CASE FinalizeInitialState \/ StageProcessMemory
  BY <1>3, <1>8 DEF FinalizeInitialState, StageProcessMemory
<1>9. CASE PrepareHandoff \/ PrepareBackend
  BY <1>3, <1>9 DEF PrepareHandoff, PrepareBackend
<1> QED
  BY <1>4, <1>5, <1>6, <1>7, <1>8, <1>9

(* begin is the only way in. *)
LEMMA BeginStep ==
  ASSUME IndInv, NEW q \in Requests, Begin(q)
  PROVE  PromiseStep
<1>1. /\ ~poisoned /\ ~poisoned' /\ slot.state = "VACANT"
      /\ slot'.state = "OBSERVER_ACQUIRING" /\ svc' = svc
      /\ ~slot'.staged
  BY DEF Begin, Admits, Vacant
<1>3. HeldBy(slot', svc') = {} /\ HeldBy(slot, svc) = {}
  BY <1>1, HeldMembers DEF IndInv, Sound, Promise!Resources, Vacant
<1>5. Promise!Admit
  BY <1>1, <1>3, HeldIs DEF Promise!Admit, Phase
<1> QED
  BY <1>5 DEF PromiseStep, Promise!Next

(* abort gives nothing back by itself: its callbacks do. *)
LEMMA AbortStep ==
  ASSUME IndInv, Abort
  PROVE  PromiseStep
<1>1. Resolves /\ slot.state \in CanAbort
  BY DEF Abort
<1>2. ~poisoned /\ Live /\ Private(slot.state) /\ slot.state # "VACANT"
  BY <1>1, Started
<1>3. slot' = Unwinding(slot) /\ svc' = svc /\ UNCHANGED poisoned
  BY DEF Abort, Do
<1>4. CASE slot.session
  <2>2. slot' = At("BACKEND_RELEASING")
    BY <1>2, <1>3, <1>4, NextStageFirst DEF Unwinding, At, Live, Slot
  <2> QED
    BY <1>2, <1>3, <2>2, Steps DEF Stepped, Private
<1>5. CASE ~slot.session
  BY <1>2, <1>1, Ladder, OffLadder, <1>3, <1>5, Unwound, NextStageFirst, SlotOnly
  DEF Live, Backward, CanAbort, Forward, Deps, Rung, ChildRung, Private, StagesLeft
<1> QED
  BY <1>4, <1>5

(* retire leaves a slot that held nothing any more. *)
LEMMA RetireStep ==
  ASSUME IndInv, Retire
  PROVE  PromiseStep
<1>1. Resolves /\ slot.state = "ABORTED"
  BY DEF Retire, Accepts
<1>2. ~poisoned /\ Live
  BY <1>1, Accepted
<1>3. slot' = Vacant(slot.index) /\ svc' = svc /\ ~poisoned'
  BY <1>2 DEF Retire, Do
<1>4. slot'.state = "VACANT" /\ ~slot'.staged
  BY <1>3 DEF Vacant
<1>5. /\ ~slot.file /\ ~slot.envBlock /\ ~slot.block /\ ~slot.session
      /\ slot.batch = "none" /\ ~slot.staged
  BY <1>1, <1>2 DEF Live, Backward
<1>7. HeldBy(slot', svc') = {} /\ HeldBy(slot, svc) = {}
  BY <1>3, <1>4, <1>5, <1>1, <1>2, HeldMembers
  DEF Promise!Resources, Live, Guarded, ObserverOf, Backed
<1>9. Promise!Cancel
  BY <1>2, <1>3, <1>7, <1>1, <1>4, HeldIs DEF Promise!Cancel, Phase
<1> QED
  BY <1>9 DEF PromiseStep, Promise!Next

(* retire_published leaves a child that belongs to the system. *)
LEMMA RetirePublishedStep ==
  ASSUME IndInv, RetirePublished
  PROVE  PromiseStep
<1>1. Resolves /\ slot.state = "PUBLISHED"
  BY DEF RetirePublished, Accepts
<1>2. ~poisoned /\ Live
  BY <1>1, Accepted
<1>3. /\ slot' = Vacant(slot.index) /\ ~poisoned'
      /\ svc' = [svc EXCEPT !.file = "none", !.batch = "none",
                            !.env = "none", !.load = "none",
                            !.backend = "none"]
  BY <1>2 DEF RetirePublished, Do
<1>4. slot'.state = "VACANT" /\ ~slot'.staged
  BY <1>3 DEF Vacant
<1>5. /\ svc'.gate = svc.gate /\ svc'.file = "none" /\ svc'.env = "none"
      /\ svc'.load = "none" /\ svc'.batch = "none" /\ svc'.backend = "none"
      /\ svc'.pdb = svc.pdb
  BY <1>2, <1>3 DEF Live, Services
<1>7. HeldBy(slot', svc') = {} /\ HeldBy(slot, svc) = {}
  BY <1>4, <1>5, <1>1, <1>2, Ladder, HeldMembers
  DEF Promise!Resources, Live, Forward, RetirePublished, Guarded, ObserverOf, Backed,
      Sealed, Rung, ChildRung
<1>9. Promise!Settle
  BY <1>2, <1>3, <1>5, <1>7, <1>1, <1>4, HeldIs DEF Promise!Settle, Phase
<1> QED
  BY <1>9 DEF PromiseStep, Promise!Next

(* The seal commits everything at once. *)
LEMMA SealStep ==
  ASSUME ~poisoned, Live,
         \/ slot.state = "BACKEND_DORMANT" /\ slot.request = "exec0"
         \/ slot.state = "GLOBAL_MEMORY_READY" /\ slot.request = "exec1",
         Seal
  PROVE  PromiseStep
<1>1. CASE PoisonDomain
  BY <1>1, QuarantinesSlot
<1>2. CASE /\ ParentCurrent
           /\ Do([slot EXCEPT !.state = "COMMITTING", !.journal = "sealed",
                              !.staged = FALSE, !.observer = "releasing"],
                 Committed(svc), Entered("advance"))
  <2>1. /\ slot' = [slot EXCEPT !.state = "COMMITTING",
                                !.journal = "sealed", !.staged = FALSE,
                                !.observer = "releasing"]
        /\ svc' = Committed(svc) /\ ~poisoned'
    BY <1>2 DEF Do
  <2>2. slot'.state = "COMMITTING" /\ ~slot'.staged
    BY <2>1 DEF Live, Slot
  <2>4. /\ slot.staged /\ slot.block /\ slot.batch = "jft"
        /\ slot.parentPsp # 0 /\ svc.file = "closed"
    BY Ladder, SMTT(40) DEF Live, Backed, Rung, ImageRung, ChildRung, Forward
  <2>5. /\ svc.gate = "held" /\ svc.load = "active"
        /\ svc.batch = "prepared" /\ svc.env \in {"none", "active"}
    BY <2>4, UnderGate, CoveredStates
    DEF Live, Backed, Sealed, Beginning
  <2>7. /\ svc'.gate = "held" /\ svc'.file = "closed"
        /\ svc'.load = "published" /\ svc'.env # "active"
        /\ svc'.batch = "committed" /\ svc'.pdb \in Psps \ {svc.pdb}
    BY <2>1, <2>4, <2>5, <1>2, CommittedServices DEF Live, ParentCurrent
  <2>9. HeldBy(slot', svc') = {"gate"}
    BY <2>2, <2>7, HeldMembers DEF Promise!Resources
  <2>10. Phase = "private" /\ Phase' = "committed"
    BY <2>1, <2>2 DEF Phase
  <2>11. Promise!Commit
    BY <2>1, <2>7, <2>4, <2>5, HeldMembers, <2>9, <2>10, HeldIs DEF Promise!Commit
  <2> QED
    BY <2>11 DEF PromiseStep, Promise!Next
<1> QED
  BY <1>1, <1>2 DEF Seal

(* The seals are steps of the promise. *)
LEMMA SealOperations ==
  ASSUME IndInv, SealExecute \/ SealLoadOnly
  PROVE  PromiseStep
BY Accepted, SealStep DEF SealExecute, SealLoadOnly, Accepts, CanAbort

-----------------------------------------------------------------------------
(* Callbacks                                                               *)

(* begin's calls of the observer. *)
LEMMA BeginCallbackStep ==
  ASSUME IndInv, ~poisoned, Live, BeginCallback
  PROVE  PromiseStep
<1>1. ASSUME slot.state \in {"OBSERVER_ACQUIRING", "OBSERVER_RELEASING"}
      PROVE  /\ ~slot.staged /\ svc.file = "none" /\ svc.env = "none"
             /\ svc.load = "none" /\ svc.batch = "none"
             /\ svc.backend # "dormant"
             /\ HeldBy(slot, svc) \subseteq {"gate"}
             /\ Phase = "private"
  <2>1. /\ ~slot.staged /\ ~slot.file /\ ~slot.envBlock /\ ~slot.block
        /\ slot.batch # "jft" /\ ~slot.session
    BY Ladder, <1>1 DEF Live, Forward, Rung, FileRung, ImageRung, ChildRung, Backward
  <2>2. /\ svc.file = "none" /\ svc.env = "none" /\ svc.load = "none"
        /\ svc.batch = "none" /\ svc.backend # "dormant"
    BY <2>1 DEF Live, Backed
  <2>4. Phase = "private"
    BY <1>1 DEF Phase
  <2> QED
    BY <2>1, <2>2, HeldMembers, <2>4 DEF Promise!Resources
<1>2. CASE AcquireRefused \/ BeginGivenUp
  BY <1>2, <1>1, HeldMembers, HeldIs
  DEF AcquireRefused, BeginGivenUp, Return, Do, Vacant, Live, Guarded, ObserverOf,
      Services, Promise!Resources, Phase, Promise!Cancel, PromiseStep, Promise!Next
<1>3. CASE AcquireUncertain
  <2> DEFINE v == [svc EXCEPT !.gate = "quarantined"]
  <2>1. v \in Services /\ v.pdb = svc.pdb
    BY DEF Live, Services
  <2>2. /\ PoisonWith([slot EXCEPT !.observer = "poisoned"], v)
        /\ slot.state # "VACANT"
    BY <1>3 DEF AcquireUncertain
  <2> HIDE DEF v
  <2> QED
    BY <2>1, <2>2, Quarantines
<1>4. CASE Acquired
  <2>1. slot.state = "OBSERVER_ACQUIRING" /\ svc.gate = "free"
    BY <1>4 DEF Acquired
  <2> DEFINE s == [slot EXCEPT !.observer = "held"]
             v == [svc EXCEPT !.gate = "held"]
  <2>2. /\ v \in Services /\ v.gate = "held" /\ v.pdb = svc.pdb
        /\ v.file = svc.file /\ v.env = svc.env /\ v.load = svc.load
        /\ v.batch = svc.batch /\ v.backend = svc.backend
    BY DEF Live, Services
  <2>3. ASSUME svc' = v, ~poisoned', slot'.staged = slot.staged,
               slot'.state \in {"OBSERVED", "OBSERVER_RELEASING"}
        PROVE  PromiseStep
    BY <2>1, <2>2, <2>3, HeldMembers, Takes DEF Calm, Only, Private, Promise!Resources
  <2>4. CASE PoisonWith(s, v)
    <3> HIDE DEF v, s
    <3> QED
      BY <2>1, <2>2, <2>4, Quarantines
  <2>5. CASE Return([s EXCEPT !.state = "OBSERVED"], v)
    <3>1. /\ slot' = [s EXCEPT !.state = "OBSERVED"] /\ svc' = v
          /\ ~poisoned'
      BY <2>5 DEF Return, Do
    <3>2. slot'.staged = slot.staged /\ slot'.state = "OBSERVED"
      BY <3>1 DEF Live, Slot
    <3> HIDE DEF v, s
    <3> QED
      BY <2>3, <3>1, <3>2
  <2>6. CASE Return([s EXCEPT !.state = "OBSERVED", !.runtime = svc.gen,
                              !.parentPsp = svc.pdb], v)
    <3>1. /\ slot' = [s EXCEPT !.state = "OBSERVED", !.runtime = svc.gen,
                               !.parentPsp = svc.pdb]
          /\ svc' = v /\ ~poisoned'
      BY <2>6 DEF Return, Do
    <3>2. slot'.staged = slot.staged /\ slot'.state = "OBSERVED"
      BY <3>1 DEF Live, Slot
    <3> HIDE DEF v, s
    <3> QED
      BY <2>3, <3>1, <3>2
  <2>7. CASE Continue([s EXCEPT !.state = "OBSERVER_RELEASING",
                                !.observer = "releasing"], v)
    <3>1. /\ slot' = [s EXCEPT !.state = "OBSERVER_RELEASING",
                               !.observer = "releasing"]
          /\ svc' = v /\ ~poisoned'
      BY <2>7 DEF Continue, Do
    <3>2. slot'.staged = slot.staged /\ slot'.state = "OBSERVER_RELEASING"
      BY <3>1 DEF Live, Slot
    <3> HIDE DEF v, s
    <3> QED
      BY <2>3, <3>1, <3>2
  <2> QED
    BY <1>4, <2>4, <2>5, <2>6, <2>7 DEF Acquired
<1> QED
  BY <1>2, <1>3, <1>4 DEF BeginCallback

(* A callback of the file lease. *)
LEMMA FileCallbackStep ==
  ASSUME IndInv, ~poisoned, Live, FileCallback
  PROVE  PromiseStep
<1>1. /\ slot.state \in {"NAME_READING", "FILE_OPENING", "FILE_PROBING",
                         "FILE_CLOSING", "PROCESS_FILE_CLOSING"}
      /\ Private(slot.state)
  BY DEF FileCallback, NameRead, Opened, Probed, Closed, Private
<1>2. svc.gate = "held"
  BY <1>1, UnderGate, CoveredStates DEF Beginning
<1>3. CASE Fail
  BY <1>1, <1>3, Continues, Steps DEF Private
<1>4. CASE PoisonWith(slot, [svc EXCEPT !.file = "poisoned"])
  <2> DEFINE v == [svc EXCEPT !.file = "poisoned"]
  <2>1. v \in Services /\ v.pdb = svc.pdb
    BY DEF Live, Services
  <2>2. PoisonWith(slot, v) /\ slot.state # "VACANT"
    BY <1>1, <1>4
  <2> HIDE DEF v
  <2> QED
    BY <2>1, <2>2, Quarantines
<1>5. CASE NameRead
  BY <1>1, Continues, Steps, <1>3, <1>5 DEF Private, NameRead
<1>6. CASE Opened
  <2>1. CASE Return([slot EXCEPT !.state = "FILE_OPEN", !.name = TRUE,
                                 !.file = TRUE],
                    [svc EXCEPT !.file = "open", !.closes = 0])
    <3>1. /\ slot' = [slot EXCEPT !.state = "FILE_OPEN", !.name = TRUE,
                                  !.file = TRUE]
          /\ svc' = [svc EXCEPT !.file = "open", !.closes = 0]
          /\ ~poisoned'
      BY <2>1 DEF Return, Do
    <3>3. /\ svc'.gate = svc.gate /\ svc'.file = "open"
          /\ svc'.env = svc.env /\ svc'.load = svc.load
          /\ svc'.batch = svc.batch /\ svc'.backend = svc.backend
          /\ svc'.pdb = svc.pdb
      BY <3>1 DEF Live, Services
    <3>5. Calm /\ Only("file")
      BY <1>1, <3>1, <3>3 DEF Calm, Only, Private, Live, Slot
    <3>6. /\ "file" \in Promise!Resources
          /\ "file" \notin HeldBy(slot, svc)
          /\ "file" \in HeldBy(slot', svc')
      BY <3>3, <1>6, Ladder, HeldMembers
      DEF Promise!Resources, Opened, Live, Forward, Rung, FileRung, Backed
    <3> QED
      BY <1>2, <3>5, <3>6, Takes
  <2> QED
    BY <1>3, <1>4, <1>6, <2>1 DEF Opened
<1>7. CASE Probed
  BY <1>7, <1>1, Silent, <1>3, <1>4
  DEF Return, Do, Live, Slot, At, Services, Probed, Backed, Calm, Only, Private
<1>8. CASE Closed
  BY <1>8, FinishedOnce, <1>1, Silent, HeldMembers, Drops, <1>3, <1>4
  DEF Return, Do, Live, Slot, At, Backed, Closed, Calm, Only, Private, Promise!Resources
<1> QED
  BY <1>5, <1>6, <1>7, <1>8 DEF FileCallback

(* One thing is taken by a callback that the gate covers. *)
LEMMA Gained ==
  ASSUME ~poisoned, ~poisoned', Live, Private(slot.state),
         Covered(slot.state), Private(slot'.state), svc'.pdb = svc.pdb,
         NEW r \in {"env", "load", "sft", "bytes", "backend"}, Only(r),
         r \notin HeldBy(slot, svc), r \in HeldBy(slot', svc'),
         r = "bytes" => svc.load = "active"
  PROVE  PromiseStep
<1> QED
  BY UnderGate, Takes DEF Calm, Promise!Resources

(* A callback of the environment: its block is taken. *)
LEMMA EnvironmentCallbackStep ==
  ASSUME IndInv, ~poisoned, Live, EnvironmentCallback
  PROVE  PromiseStep
<1>1. /\ slot.state \in {"ENVIRONMENT_READING", "ENVIRONMENT_SCANNING",
                         "ENVIRONMENT_ALLOCATING", "ENVIRONMENT_BUILDING"}
      /\ Private(slot.state) /\ slot.state # "VACANT"
  BY DEF EnvironmentCallback, EnvironmentRead, EnvironmentScanned,
         EnvironmentAllocated, EnvironmentBuilt, Private
<1>2. Covered(slot.state)
  BY <1>1, CoveredStates DEF Beginning
<1>3. CASE Fail \/ PoisonTransaction \/ PoisonDomain
  BY <1>1, <1>3, Continues, Steps, QuarantinesSlot DEF Private
<1>4. ASSUME NEW k,
             Return([slot EXCEPT !.state = "ENV_READY", !.source = k], svc)
      PROVE  PromiseStep
  BY <1>4, <1>1, SlotOnly DEF Return, Do, Live, Slot, Private
<1>5. CASE Continue([slot EXCEPT !.state = "ENVIRONMENT_ALLOCATING",
                                 !.envPlan = TRUE], svc)
  BY <1>5, <1>1, SlotOnly DEF Continue, Do, Live, Slot, Private
<1>6. CASE Return(At("ENVIRONMENT_BLOCK_READY"), svc)
  BY <1>1, <1>6, Continues, Steps DEF Private
<1>7. CASE /\ slot.state = "ENVIRONMENT_ALLOCATING"
           /\ Continue([slot EXCEPT !.state = "ENVIRONMENT_BUILDING",
                                    !.envBlock = TRUE],
                       [svc EXCEPT !.env = "active"])
  <2>1. /\ slot' = [slot EXCEPT !.state = "ENVIRONMENT_BUILDING",
                                !.envBlock = TRUE]
        /\ svc' = [svc EXCEPT !.env = "active"] /\ ~poisoned'
    BY <1>7 DEF Continue, Do
  <2>2. slot'.state = "ENVIRONMENT_BUILDING" /\ slot'.staged = slot.staged
    BY <2>1 DEF Live, Slot
  <2>3. /\ svc'.gate = svc.gate /\ svc'.file = svc.file
        /\ svc'.env = "active" /\ svc'.load = svc.load
        /\ svc'.batch = svc.batch /\ svc'.backend = svc.backend
        /\ svc'.pdb = svc.pdb
    BY <2>1 DEF Live, Services
  <2>4. svc.env = "none"
    <3>1. Rung(4, slot)
      BY <1>7, Ladder DEF Live, Forward
    <3> QED
      BY <3>1 DEF Rung, FileRung, Live, Backed
  <2>5. /\ Only("env") /\ Private(slot'.state)
        /\ "env" \notin HeldBy(slot, svc) /\ "env" \in HeldBy(slot', svc')
    BY <2>2, <2>3, <2>4, HeldMembers DEF Only, Private
  <2> QED
    BY <1>1, <1>2, <2>1, <2>3, <2>5, Gained
<1>8. CASE EnvironmentRead
  BY <1>3, <1>4, <1>8 DEF EnvironmentRead
<1>9. CASE EnvironmentScanned
  BY <1>3, <1>5, <1>9 DEF EnvironmentScanned
<1>10. CASE EnvironmentAllocated
  BY <1>3, <1>7, <1>10 DEF EnvironmentAllocated
<1>11. CASE EnvironmentBuilt
  BY <1>3, <1>6, <1>11 DEF EnvironmentBuilt
<1> QED
  BY <1>8, <1>9, <1>10, <1>11 DEF EnvironmentCallback

(* A callback of the image: the load block is taken. *)
LEMMA ImageCallbackStep ==
  ASSUME IndInv, ~poisoned, Live, ImageCallback
  PROVE  PromiseStep
<1>1. /\ slot.state \in {"IMAGE_READING", "LOAD_QUERYING",
                         "LOAD_ALLOCATING", "RESIDENT_LOADING",
                         "RELOCATING"}
      /\ Private(slot.state) /\ slot.state # "VACANT"
  BY DEF ImageCallback, ImageInspected, LoadQueried, LoadAllocated,
         ResidentLoaded, Relocated, Private
<1>2. Covered(slot.state)
  BY <1>1, CoveredStates DEF Beginning
<1>3. CASE Fail \/ PoisonTransaction \/ PoisonDomain
  BY <1>1, <1>3, Continues, Steps, QuarantinesSlot DEF Private
<1>4. ASSUME NEW s, Private(s.state), s.staged <=> slot.staged,
             Return(s, svc) \/ Continue(s, svc)
      PROVE  PromiseStep
  BY <1>1, <1>4, SlotOnly DEF Return, Continue, Do
<1>5. CASE ImageInspected
  <2>1. ASSUME NEW f,
               Return([slot EXCEPT !.state = "IMAGE_READY", !.image = f],
                      svc)
        PROVE  PromiseStep
    <3> DEFINE s == [slot EXCEPT !.state = "IMAGE_READY", !.image = f]
    <3>1. Private(s.state) /\ (s.staged <=> slot.staged)
      BY DEF Live, Slot, Private
    <3>2. Return(s, svc)
      BY <2>1
    <3> HIDE DEF s
    <3> QED
      BY <1>4, <3>1, <3>2
  <2> QED
    BY <1>3, <1>5, <2>1 DEF ImageInspected
<1>6. CASE LoadQueried
  <2> DEFINE s == [slot EXCEPT !.state = "LOAD_ALLOCATING", !.plan = TRUE]
  <2>1. Private(s.state) /\ (s.staged <=> slot.staged)
    BY DEF Live, Slot, Private
  <2>2. \/ Continue(s, svc)
        \/ Fail \/ PoisonTransaction \/ PoisonDomain
    BY <1>6 DEF LoadQueried
  <2> HIDE DEF s
  <2> QED
    BY <1>3, <1>4, <2>1, <2>2
<1>7. CASE ResidentLoaded
  <2> DEFINE s == [slot EXCEPT !.state = "RESIDENT_READY",
                               !.resident = "loaded"]
  <2>1. Private(s.state) /\ (s.staged <=> slot.staged)
    BY DEF Live, Slot, Private
  <2>2. Return(s, svc) \/ Fail \/ PoisonDomain
    BY <1>7 DEF ResidentLoaded
  <2> HIDE DEF s
  <2> QED
    BY <1>3, <1>4, <2>1, <2>2
<1>8. CASE Relocated
  <2> DEFINE s == [slot EXCEPT !.state = "IMAGE_PRIVATE",
                               !.relocation = "applied"]
  <2>1. Private(s.state) /\ (s.staged <=> slot.staged)
    BY DEF Live, Slot, Private
  <2>2. Return(s, svc) \/ Fail \/ PoisonDomain
    BY <1>8 DEF Relocated
  <2> HIDE DEF s
  <2> QED
    BY <1>3, <1>4, <2>1, <2>2
<1>9. CASE LoadAllocated
  <2> DEFINE s == [slot EXCEPT !.block = TRUE]
             v == [svc EXCEPT !.load = "active"]
  <2>1. /\ v \in Services /\ v.pdb = svc.pdb
        /\ v.gate = svc.gate /\ v.file = svc.file /\ v.env = svc.env
        /\ v.load = "active" /\ v.batch = svc.batch
        /\ v.backend = svc.backend
    BY DEF Live, Services
  <2>2. CASE Return([s EXCEPT !.state = "TARGET_READY"], v)
    <3>1. /\ slot' = [s EXCEPT !.state = "TARGET_READY"] /\ svc' = v
          /\ ~poisoned'
      BY <2>2 DEF Return, Do
    <3>2. slot'.state = "TARGET_READY" /\ slot'.staged = slot.staged
      BY <3>1 DEF Live, Slot
    <3>3. svc.load = "none"
      BY <1>9, Ladder DEF LoadAllocated, Live, Forward, Rung, ImageRung, Backed
    <3>4. /\ Only("load") /\ Private(slot'.state)
          /\ "load" \notin HeldBy(slot, svc)
          /\ "load" \in HeldBy(slot', svc')
      BY <2>1, <3>1, <3>2, <3>3, HeldMembers DEF Only, Private
    <3> QED
      BY <1>1, <1>2, <2>1, <3>1, <3>4, Gained
  <2>3. CASE PoisonDomainWith(s, v)
    <3> HIDE DEF s, v
    <3> QED
      BY <1>1, <2>1, <2>3, Quarantines
  <2> QED
    BY <1>3, <1>9, <2>2, <2>3 DEF LoadAllocated
<1> QED
  BY <1>5, <1>6, <1>7, <1>8, <1>9 DEF ImageCallback

(* A callback of the child: its file references are taken. *)
LEMMA ChildCallbackStep ==
  ASSUME IndInv, ~poisoned, Live, ChildCallback
  PROVE  PromiseStep
<1>1. /\ slot.state \in {"PARENT_SNAPSHOTTING", "SFT_PREPARING",
                         "PROCESS_PARAMETER_READING", "PSP_PREPARING",
                         "DRIVE_RESOLVING"}
      /\ Private(slot.state) /\ slot.state # "VACANT"
  BY DEF ChildCallback, ParentCaptured, SftPrepared, ParametersRead,
         PspPrepared, DrivesResolved, Private
<1>2. Covered(slot.state)
  BY <1>1, CoveredStates DEF Beginning
<1>3. CASE Fail \/ PoisonTransaction \/ PoisonDomain
  BY <1>1, <1>3, Continues, Steps, QuarantinesSlot DEF Private
<1>4. ASSUME NEW s, Private(s.state), s.staged <=> slot.staged,
             Return(s, svc)
      PROVE  PromiseStep
  BY <1>1, <1>4, SlotOnly DEF Return, Do
<1>5. CASE ParentCaptured
  <2> DEFINE s == [slot EXCEPT !.state = "PARENT_SNAPSHOT_READY",
                               !.parent = TRUE]
  <2>1. Private(s.state) /\ (s.staged <=> slot.staged)
    BY DEF Live, Slot, Private
  <2>2. Return(s, svc) \/ Fail \/ PoisonTransaction
    BY <1>5 DEF ParentCaptured
  <2> HIDE DEF s
  <2> QED
    BY <1>3, <1>4, <2>1, <2>2
<1>6. CASE PspPrepared
  <2> DEFINE s == [slot EXCEPT !.state = "PSP_PREPARED", !.psp = TRUE]
  <2>1. Private(s.state) /\ (s.staged <=> slot.staged)
    BY DEF Live, Slot, Private
  <2>2. Return(s, svc) \/ Fail \/ PoisonDomain
    BY <1>6 DEF PspPrepared
  <2> HIDE DEF s
  <2> QED
    BY <1>3, <1>4, <2>1, <2>2
<1>7. CASE ParametersRead \/ DrivesResolved
  BY <1>1, Continues, Steps, <1>3, <1>7 DEF Private, ParametersRead, DrivesResolved
<1>8. CASE SftPrepared
  <2>1. CASE Return([slot EXCEPT !.state = "SFT_RESERVED",
                                 !.batch = "jft"],
                    [svc EXCEPT !.batch = "prepared"])
    <3>1. /\ slot' = [slot EXCEPT !.state = "SFT_RESERVED",
                                  !.batch = "jft"]
          /\ svc' = [svc EXCEPT !.batch = "prepared"] /\ ~poisoned'
      BY <2>1 DEF Return, Do
    <3>2. slot'.state = "SFT_RESERVED" /\ slot'.staged = slot.staged
      BY <3>1 DEF Live, Slot
    <3>3. /\ svc'.gate = svc.gate /\ svc'.file = svc.file
          /\ svc'.env = svc.env /\ svc'.load = svc.load
          /\ svc'.batch = "prepared" /\ svc'.backend = svc.backend
          /\ svc'.pdb = svc.pdb
      BY <3>1 DEF Live, Services
    <3>4. svc.batch = "none"
      <4>2. Rung(16, slot)
        BY <1>8, Ladder DEF Live, Forward, SftPrepared
      <4> QED
        BY <4>2 DEF Rung, ChildRung, Live, Backed
    <3>5. /\ Only("sft") /\ Private(slot'.state)
          /\ "sft" \notin HeldBy(slot, svc)
          /\ "sft" \in HeldBy(slot', svc')
      BY <3>2, <3>3, <3>4, HeldMembers DEF Only, Private
    <3> QED
      BY <1>1, <1>2, <3>1, <3>3, <3>5, Gained
  <2>2. CASE PoisonDomainWith([slot EXCEPT !.batch = "batch"],
                              [svc EXCEPT !.batch = "poisoned"])
    <3> DEFINE v == [svc EXCEPT !.batch = "poisoned"]
    <3>1. v \in Services /\ v.pdb = svc.pdb
      BY DEF Live, Services
    <3>2. PoisonDomainWith([slot EXCEPT !.batch = "batch"], v)
      BY <2>2
    <3> HIDE DEF v
    <3> QED
      BY <1>1, <3>1, <3>2, Quarantines
  <2> QED
    BY <1>3, <1>8, <2>1, <2>2 DEF SftPrepared
<1> QED
  BY <1>5, <1>6, <1>7, <1>8 DEF ChildCallback

(* A callback of the stager: bytes are put into guest memory. *)
LEMMA StagingCallbackStep ==
  ASSUME IndInv, ~poisoned, Live, StagingCallback
  PROVE  PromiseStep
<1>1. /\ slot.state \in {"PROCESS_MEMORY_STAGING", "GLOBAL_MEMORY_STAGING",
                         "HANDOFF_STAGING"}
      /\ Private(slot.state) /\ slot.state # "VACANT"
  BY DEF StagingCallback, ProcessMemoryStaged, GlobalMemoryStaged,
         HandoffStaged, Private
<1>4. svc.load = "active"
  BY <1>1, Ladder, SMTT(40) DEF Rung, ImageRung, Live, Backed, Sealed, Forward
<1>5. ASSUME svc' = svc, UNCHANGED poisoned, Private(slot'.state),
             slot'.staged \/ ~slot.staged, slot'.staged \in BOOLEAN
      PROVE  PromiseStep
  BY <1>1, <1>5, SlotOnly, HeldMembers, CoveredStates, <1>4, Gained DEF Only, Beginning
<1>6. ASSUME NEW s \in Slot, s.staged = slot.staged, StageFailed(s)
      PROVE  PromiseStep
  <2>1. ASSUME NEW some \in {s.staged, TRUE},
               Continue([s EXCEPT !.state = "JOURNAL_ABORTING",
                                  !.staged = some], svc)
        PROVE  PromiseStep
    BY <2>1, <1>6, <1>5 DEF Continue, Do, Slot, Private
  <2>2. CASE \/ PoisonDomainWith([s EXCEPT !.journal = "poisoned"], svc)
             \/ PoisonWith(s, svc)
    BY <1>1, <2>2, QuarantinesHere
  <2> QED
    BY <1>6, <2>1, <2>2 DEF StageFailed
<1>7. CASE ProcessMemoryStaged
  BY <1>5, <1>6, <1>7 DEF Return, Do, Live, Slot, Private, ProcessMemoryStaged
<1>8. CASE GlobalMemoryStaged
  <2>1. CASE Return([slot EXCEPT !.state = "GLOBAL_MEMORY_READY",
                                 !.envRebind = slot.envBlock,
                                 !.loadRebind = TRUE], svc)
    BY <2>1, <1>1, SlotOnly DEF Return, Do, Live, Slot, Private
  <2> QED
    BY <1>1, <1>6, <1>8, <2>1, QuarantinesSlot DEF GlobalMemoryStaged, Live
<1>9. CASE HandoffStaged
  <2>1. CASE Return([slot EXCEPT !.state = "HANDOFF_READY",
                                 !.handoff = TRUE], svc)
    BY <2>1, <1>1, SlotOnly DEF Return, Do, Live, Slot, Private
  <2>2. PICK s : s = WithoutRebinds(slot)
    OBVIOUS
  <2>3. s \in Slot /\ s.staged = slot.staged
    BY <2>2, ZenonT(60) DEF WithoutRebinds, Live, Slot
  <2> QED
    BY <1>6, <1>9, <2>1, <2>2, <2>3 DEF HandoffStaged
<1> QED
  BY <1>7, <1>8, <1>9 DEF StagingCallback

(* A callback of the backend or of the seal: the session is taken, and a   *)
(* sealed request revealed.                                                *)
LEMMA SealCallbackStep ==
  ASSUME IndInv, ~poisoned, Live, SealCallback
  PROVE  PromiseStep
<1>1. CASE BackendPrepared
  <2>2. Private(slot.state) /\ Covered(slot.state) /\ svc.backend # "dormant"
    BY <1>1, Ladder, CoveredStates
    DEF Live, Forward, Private, Beginning, Rung, ChildRung, Backed, BackendPrepared
  <2>3. CASE Return(At("HANDOFF_READY"), svc)
    BY <2>2, <2>3, Continues, Steps DEF Private
  <2>4. CASE Return([slot EXCEPT !.state = "BACKEND_DORMANT",
                                 !.session = TRUE],
                    [svc EXCEPT !.backend = "dormant"])
    BY <2>4, <2>2, HeldMembers, Gained
    DEF Return, Do, Live, Slot, Services, Only, Private
  <2>5. CASE Return(At("FAILED"), [svc EXCEPT !.backends = TRUE,
                                              !.backend = "poisoned"])
    BY <2>5, <2>2, Silent DEF Return, Do, Live, Slot, At, Services, Calm, Only, Private
  <2> QED
    BY <1>1, <2>3, <2>4, <2>5 DEF BackendPrepared
<1>2. CASE SealReleased
  <2>1. slot.state = "COMMITTING"
    BY <1>2 DEF SealReleased
  <2>2. Rung(23, slot) /\ Rank(slot.state) = 23
    BY <2>1, Ladder DEF Live, Forward
  <2>3. /\ ~slot.staged /\ slot.block /\ slot.batch = "jft"
        /\ slot.session <=> slot.request = "exec0"
    BY <2>2 DEF Rung, ImageRung, ChildRung
  <2>4. /\ svc.gate = "held" /\ svc.file = "closed"
        /\ svc.env # "active" /\ svc.load = "published"
        /\ svc.batch = "committed"
        /\ slot.request = "exec1" => svc.backend # "dormant"
    BY <2>1, <2>2, <2>3 DEF Live, Guarded, ObserverOf, Backed, Sealed
  <2>5. HeldBy(slot, svc) = {"gate"}
    BY <2>1, <2>3, <2>4, HeldMembers DEF Promise!Resources
  <2>6. Phase = "committed"
    BY <2>1 DEF Phase
  <2> DEFINE s == [slot EXCEPT !.observer = "released"]
             v == [svc EXCEPT !.gate = "free"]
  <2>7. /\ v \in Services /\ v.gate = "free" /\ v.file = svc.file
        /\ v.env = svc.env /\ v.load = svc.load /\ v.batch = svc.batch
        /\ v.backend = svc.backend /\ v.pdb = svc.pdb
    BY DEF Live, Services
  <2>8. ASSUME slot' = [s EXCEPT !.state = "PUBLISHED"], ~poisoned',
               svc'.gate = "free", svc'.file = svc.file,
               svc'.env = svc.env, svc'.load = svc.load,
               svc'.batch = svc.batch, svc'.backend # "dormant",
               svc'.pdb = svc.pdb
        PROVE  PromiseStep
    <3>1. slot'.state = "PUBLISHED" /\ ~slot'.staged
      BY <2>3, <2>8 DEF Live, Slot
    <3>2. HeldBy(slot', svc') = {}
      BY <2>4, <2>8, <3>1, HeldMembers DEF Promise!Resources
    <3>3. Phase' = "committed"
      BY <2>8, <3>1 DEF Phase
    <3>4. Promise!Reveal
      BY <2>5, <2>6, <2>8, <3>2, <3>3, HeldIs DEF Promise!Reveal
    <3> QED
      BY <3>4 DEF PromiseStep, Promise!Next
  <2>9. CASE /\ slot.request = "exec1"
             /\ Return([s EXCEPT !.state = "PUBLISHED"], v)
    <3> HIDE DEF v
    <3> QED
      BY <2>4, <2>7, <2>8, <2>9 DEF Return, Do
  <2>10. CASE Return([s EXCEPT !.state = "PUBLISHED"],
                     [v EXCEPT !.backend = "runnable"])
    <3>1. /\ slot' = [s EXCEPT !.state = "PUBLISHED"]
          /\ svc' = [v EXCEPT !.backend = "runnable"] /\ ~poisoned'
      BY <2>10 DEF Return, Do
    <3> HIDE DEF v
    <3> QED
      BY <2>7, <2>8, <3>1 DEF Services
  <2>11. CASE PoisonDomainWith(s, v)
    <3> HIDE DEF s, v
    <3> QED
      BY <2>1, <2>7, <2>11, Quarantines
  <2> QED
    BY <1>2, <2>9, <2>10, <2>11 DEF SealReleased
<1>3. CASE SealQuarantined
  <2> DEFINE v == [svc EXCEPT !.gate = "quarantined", !.runtime = TRUE]
  <2>1. v \in Services /\ v.pdb = svc.pdb
    BY DEF Live, Services
  <2>2. /\ PoisonDomainWith([slot EXCEPT !.observer = "poisoned",
                                         !.journal = "poisoned"], v)
        /\ slot.state # "VACANT"
    BY <1>3 DEF SealQuarantined
  <2> HIDE DEF v
  <2> QED
    BY <2>1, <2>2, Quarantines
<1> QED
  BY <1>1, <1>2, <1>3 DEF SealCallback

(* Unwinding itself moves no bytes. *)
LEMMA UnwindsCalmly ==
  ASSUME NEW s \in Slot, Deps(s), ~s.session, s.journal # "sealed",
         slot' = Unwinding(s)
  PROVE  slot'.staged = s.staged /\ Private(slot'.state)
BY Unwound, NextStageFirst DEF Private, StagesLeft

(* A callback that gives back one thing and goes on unwinding. *)
LEMMA Lost ==
  ASSUME ~poisoned, ~poisoned', Live, Private(slot.state),
         Private(slot'.state), svc'.pdb = svc.pdb,
         NEW r \in {"backend", "bytes", "sft", "load", "env", "file"},
         Only(r), r \notin HeldBy(slot', svc'), r = "load" => ~slot.staged
  PROVE  PromiseStep
<1>1. Calm /\ r \in Promise!Resources /\ r # "gate"
  BY DEF Calm, Promise!Resources
<1>2. CASE r \in HeldBy(slot, svc)
  BY <1>1, <1>2, Drops
<1>3. CASE r \notin HeldBy(slot, svc)
  <2>1. HeldBy(slot', svc') = HeldBy(slot, svc)
    BY <1>3, OnlyHeld, HeldMembers
  <2> QED
    BY <1>1, <2>1, SeenPrivate DEF Calm, PromiseStep, Promise!promiseVars
<1> QED
  BY <1>2, <1>3

(* The session. *)
LEMMA BackendReleasedStep ==
  ASSUME IndInv, ~poisoned, Live, BackendReleased
  PROVE  PromiseStep
<1>1. slot.state = "BACKEND_RELEASING"
  BY DEF BackendReleased
<1>2. Rung(22, slot) /\ Private(slot.state)
  BY <1>1, Ladder DEF Live, Forward, Private
<1>3. PICK s : s = [slot EXCEPT !.session = FALSE]
  OBVIOUS
<1>4. /\ s \in Slot /\ ~s.session /\ s.journal = slot.journal
      /\ s.staged = slot.staged
  BY <1>3, ZenonT(60) DEF Live, Slot
<1>5. Deps(s)
  BY <1>3 DEF Live, Slot, Deps, IsProcess
<1>7. ASSUME slot' = Unwinding(s), ~poisoned', svc'.backend # "dormant",
             svc'.gate = svc.gate, svc'.file = svc.file,
             svc'.env = svc.env, svc'.load = svc.load,
             svc'.batch = svc.batch, svc'.pdb = svc.pdb
      PROVE  PromiseStep
  BY <1>4, <1>5, <1>2, <1>7, UnwindsCalmly, HeldMembers, Lost
  DEF Only, Rung, ChildRung, Live, Deps
<1>8. CASE Continue(Unwinding(s), [svc EXCEPT !.backend = "none"])
  BY <1>7, <1>8 DEF Continue, Do, Live, Services
<1>9. CASE Return(At("BACKEND_DORMANT"), svc)
  BY <1>2, <1>9, Continues, Steps DEF Private
<1>10. CASE Continue(Unwinding(s), [svc EXCEPT !.backends = TRUE,
                                               !.backend = "poisoned"])
  BY <1>7, <1>10 DEF Continue, Do, Live, Services
<1>11. CASE PoisonWith(slot, [svc EXCEPT !.backend = "none"])
  <2> DEFINE v == [svc EXCEPT !.backend = "none"]
  <2>1. v \in Services /\ v.pdb = svc.pdb
    BY DEF Live, Services
  <2>2. PoisonWith(slot, v) /\ slot.state # "VACANT"
    BY <1>1, <1>11
  <2> HIDE DEF v
  <2> QED
    BY <2>1, <2>2, Quarantines
<1> QED
  BY <1>3, <1>8, <1>9, <1>10, <1>11 DEF BackendReleased

(* The bytes. *)
LEMMA JournalAbortedStep ==
  ASSUME IndInv, ~poisoned, Live, JournalAborted
  PROVE  PromiseStep
<1>1. slot.state = "JOURNAL_ABORTING" /\ Private(slot.state)
  BY DEF JournalAborted, Private
<1>2. ~slot.session /\ slot.journal = "staging"
  BY <1>1 DEF Live, Backward
<1>3. ASSUME svc' = svc, ~poisoned', Private(slot'.state), ~slot'.staged
      PROVE  PromiseStep
  BY <1>3, HeldMembers, <1>1, Lost DEF Only
<1>4. CASE Return([[slot EXCEPT !.journal = "aborted", !.staged = FALSE]
                     EXCEPT !.state = "FAILED"], svc)
  BY <1>4, <1>3 DEF Return, Do, Live, Slot, Private
<1>5. CASE Continue(Unwinding(WithoutRebinds(
                      [slot EXCEPT !.journal = "aborted",
                                   !.staged = FALSE])), svc)
  <2>1. PICK s : s = WithoutRebinds([slot EXCEPT !.journal = "aborted",
                                                 !.staged = FALSE])
    OBVIOUS
  <2>2. s = [slot EXCEPT !.journal = "aborted", !.staged = FALSE,
                         !.envRebind = FALSE, !.loadRebind = FALSE,
                         !.handoff = FALSE, !.session = FALSE]
    BY <2>1 DEF WithoutRebinds, Live, Slot
  <2>3. s \in Slot
    <3>1. slot \in Slot
      BY DEF Live
    <3>2. PICK u : u = [slot EXCEPT !.staged = FALSE, !.envRebind = FALSE,
                                    !.loadRebind = FALSE]
      OBVIOUS
    <3>3. u \in Slot
      BY ONLY <3>1, <3>2, ZenonT(60) DEF Slot
    <3>4. PICK w : w = [u EXCEPT !.handoff = FALSE, !.session = FALSE]
      OBVIOUS
    <3>5. w \in Slot
      BY ONLY <3>3, <3>4, ZenonT(60) DEF Slot
    <3>6. s = [w EXCEPT !.journal = "aborted"]
      BY ONLY <2>2, <3>1, <3>2, <3>4 DEF Slot
    <3> QED
      BY ONLY <3>5, <3>6 DEF Slot
  <2>4. ~s.session /\ s.journal = "aborted" /\ ~s.staged
    BY <2>2 DEF Live, Slot
  <2>5. Deps(s)
    BY <1>2, <2>2 DEF Live, Slot, Deps, IsProcess
  <2>6. slot' = Unwinding(s) /\ svc' = svc /\ ~poisoned'
    BY <1>5, <2>1 DEF Continue, Do
  <2>7. slot'.staged = s.staged /\ Private(slot'.state)
    BY <2>3, <2>4, <2>5, <2>6, UnwindsCalmly
  <2> QED
    BY <1>3, <2>4, <2>6, <2>7
<1>6. CASE PoisonDomainWith([slot EXCEPT !.journal = "poisoned"], svc)
  BY <1>1, <1>6, QuarantinesHere
<1> QED
  BY <1>4, <1>5, <1>6 DEF JournalAborted

(* The references, the two blocks and the file. *)
LEMMA ResourceFreedStep ==
  ASSUME IndInv, ~poisoned, Live,
         SftAborted \/ LoadFreed \/ EnvironmentFreed \/ AbortClosed
  PROVE  PromiseStep
<1>1. /\ slot.state \in {"SFT_ABORTING", "LOAD_LEASE_ABORTING",
                         "ENVIRONMENT_LEASE_ABORTING", "ABORT_FILE_CLOSING"}
      /\ Private(slot.state) /\ slot.state # "VACANT"
  BY DEF SftAborted, LoadFreed, EnvironmentFreed, AbortClosed, Private
<1>2. /\ ~slot.session /\ ~slot.staged /\ ~slot.loadRebind
      /\ slot.journal # "sealed"
  BY <1>1, OffLadder DEF Live, Backward
<1>3. CASE Retry \/ PoisonDomain
  BY <1>1, <1>3, Continues, Steps, QuarantinesSlot DEF Private, Retry
<1>4. ASSUME NEW s \in Slot, Deps(s), ~s.session, ~s.staged,
             s.journal = slot.journal, slot' = Unwinding(s), ~poisoned',
             svc'.pdb = svc.pdb,
             NEW r \in {"sft", "load", "env", "file"},
             r = "sft" \/ svc'.batch = svc.batch,
             r = "load" \/ svc'.load = svc.load,
             r = "env" \/ svc'.env = svc.env,
             r = "file" \/ svc'.file = svc.file,
             svc'.gate = svc.gate, svc'.backend = svc.backend,
             r \notin HeldBy(slot', svc')
      PROVE  PromiseStep
  BY <1>2, <1>4, UnwindsCalmly, <1>1, Lost DEF Only
<1>5. CASE SftAborted
  <2>1. CASE Continue(Unwinding([slot EXCEPT !.batch = "none"]),
                      [svc EXCEPT !.batch = "none"])
    BY <2>1, HeldMembers, <1>2, <1>4
    DEF Live, Slot, Deps, IsProcess, Continue, Do, Services
  <2>2. CASE PoisonDomainWith(slot, [svc EXCEPT !.batch = "poisoned"])
    <3> DEFINE v == [svc EXCEPT !.batch = "poisoned"]
    <3>1. v \in Services /\ v.pdb = svc.pdb
      BY DEF Live, Services
    <3>2. PoisonDomainWith(slot, v)
      BY <2>2
    <3> HIDE DEF v
    <3> QED
      BY <1>1, <3>1, <3>2, Quarantines
  <2> QED
    BY <1>5, <2>1, <2>2 DEF SftAborted
<1>6. CASE LoadFreed
  <2>1. CASE Continue(Unwinding(WithoutBlock(slot)),
                      [svc EXCEPT !.load = "none"])
    <3>1. PICK s : s = WithoutBlock(slot)
      OBVIOUS
    <3>2. s = [slot EXCEPT !.parent = FALSE, !.relocation = "none",
                           !.resident = "none", !.block = FALSE]
      BY <3>1 DEF WithoutBlock
    <3>3. s \in Slot
      <4>1. slot \in Slot
        BY DEF Live
      <4>2. PICK u : u = [slot EXCEPT !.parent = FALSE, !.block = FALSE]
        OBVIOUS
      <4>3. u \in Slot
        BY ONLY <4>1, <4>2, ZenonT(60) DEF Slot
      <4>4. s = [u EXCEPT !.relocation = "none", !.resident = "none"]
        BY ONLY <3>2, <4>1, <4>2 DEF Slot
      <4> QED
        BY ONLY <4>3, <4>4, ZenonT(60) DEF Slot
    <3>4. /\ s.session = slot.session /\ s.staged = slot.staged
          /\ s.journal = slot.journal
      BY <3>2 DEF Live, Slot
    <3>5. Deps(s)
      BY <1>2, <3>2 DEF Live, Slot, Deps, IsProcess
    <3>6. /\ svc' = [svc EXCEPT !.load = "none"] /\ slot' = Unwinding(s)
          /\ ~poisoned'
      BY <2>1, <3>1 DEF Continue, Do
    <3>7. /\ svc'.gate = svc.gate /\ svc'.file = svc.file
          /\ svc'.env = svc.env /\ svc'.load = "none"
          /\ svc'.batch = svc.batch /\ svc'.backend = svc.backend
          /\ svc'.pdb = svc.pdb
      BY <3>6 DEF Live, Services
    <3>8. "load" \notin HeldBy(slot', svc')
      BY <3>7, HeldMembers
    <3> QED
      BY <1>2, <1>4, <3>3, <3>4, <3>5, <3>6, <3>7, <3>8
  <2> QED
    BY <1>3, <1>6, <2>1 DEF LoadFreed
<1>7. CASE EnvironmentFreed
  <2>1. CASE Continue(Unwinding([slot EXCEPT !.envBlock = FALSE]),
                      [svc EXCEPT !.env = "none"])
    <3>1. PICK s : s = [slot EXCEPT !.envBlock = FALSE]
      OBVIOUS
    <3>3. Deps(s)
      BY <1>2, <3>1 DEF Live, Slot, Deps, IsProcess
    <3>4. /\ svc' = [svc EXCEPT !.env = "none"] /\ slot' = Unwinding(s)
          /\ ~poisoned'
      BY <2>1, <3>1 DEF Continue, Do
    <3>5. /\ svc'.gate = svc.gate /\ svc'.file = svc.file
          /\ svc'.env = "none" /\ svc'.load = svc.load
          /\ svc'.batch = svc.batch /\ svc'.backend = svc.backend
          /\ svc'.pdb = svc.pdb
      BY <3>4 DEF Live, Services
    <3>6. "env" \notin HeldBy(slot', svc')
      BY <3>5, HeldMembers
    <3> QED
      BY <1>2, <1>4, <3>1, <3>3, <3>4, <3>5, <3>6, ZenonT(60) DEF Live, Slot
  <2> QED
    BY <1>3, <1>7, <2>1 DEF EnvironmentFreed
<1>8. CASE AbortClosed
  <2>1. CASE Continue(Unwinding([slot EXCEPT !.file = FALSE]),
                      [Finished(svc) EXCEPT !.file = "none"])
    <3>1. PICK s : s = [slot EXCEPT !.file = FALSE]
      OBVIOUS
    <3>2. /\ s \in Slot /\ s.session = slot.session
          /\ s.staged = slot.staged /\ s.journal = slot.journal
      BY <3>1, ZenonT(60) DEF Live, Slot
    <3>3. /\ ~slot.block /\ ~slot.envBlock /\ slot.batch = "none"
          /\ slot.file
      BY <1>8 DEF AbortClosed, Live, Backward
    <3>4. Deps(s)
      BY <1>2, <3>1, <3>3 DEF Live, Slot, Deps, IsProcess
    <3>5. PICK w : w = Finished(svc)
      OBVIOUS
    <3>7. /\ w \in Services /\ w.gate = svc.gate
          /\ w.env = svc.env /\ w.load = svc.load /\ w.batch = svc.batch
          /\ w.backend = svc.backend /\ w.pdb = svc.pdb
      BY <3>5, <3>3, FinishedOnce DEF Live, Backed, Services
    <3>8. /\ svc' = [w EXCEPT !.file = "none"] /\ slot' = Unwinding(s)
          /\ ~poisoned'
      BY <2>1, <3>1, <3>5 DEF Continue, Do
    <3>9. /\ svc'.gate = w.gate /\ svc'.file = "none"
          /\ svc'.env = w.env /\ svc'.load = w.load
          /\ svc'.batch = w.batch /\ svc'.backend = w.backend
          /\ svc'.pdb = w.pdb
      BY <3>7, <3>8 DEF Services
    <3>10. "file" \notin HeldBy(slot', svc')
      BY <3>9, HeldMembers
    <3> QED
      BY <1>2, <1>4, <3>2, <3>4, <3>7, <3>8, <3>9, <3>10
  <2>2. CASE PoisonWith(slot, [svc EXCEPT !.file = "poisoned"])
    <3> DEFINE v == [svc EXCEPT !.file = "poisoned"]
    <3>1. v \in Services /\ v.pdb = svc.pdb
      BY DEF Live, Services
    <3>2. PoisonWith(slot, v)
      BY <2>2
    <3> HIDE DEF v
    <3> QED
      BY <1>1, <3>1, <3>2, Quarantines
  <2> QED
    BY <1>3, <1>8, <2>1, <2>2 DEF AbortClosed
<1> QED
  BY <1>5, <1>6, <1>7, <1>8

(* The gate, when nothing else is held any more. *)
LEMMA GateReleasedStep ==
  ASSUME IndInv, ~poisoned, Live, ObserverReleased \/ ReleaseUncertain
  PROVE  PromiseStep
<1>1. slot.state = "OBSERVER_RELEASING" /\ Private(slot.state)
  BY DEF ObserverReleased, ReleaseUncertain, Private
<1>2. CASE ReleaseUncertain
  <2> DEFINE v == [svc EXCEPT !.gate = "quarantined"]
  <2>1. v \in Services /\ v.pdb = svc.pdb
    BY DEF Live, Services
  <2>2. /\ PoisonWith([slot EXCEPT !.observer = "poisoned"], v)
        /\ slot.state # "VACANT"
    BY <1>1, <1>2 DEF ReleaseUncertain
  <2> HIDE DEF v
  <2> QED
    BY <2>1, <2>2, Quarantines
<1>3. CASE ObserverReleased
  BY <1>3, <1>1, HeldMembers, Drops
  DEF ObserverReleased, Return, Do, Live, Slot, Services, Backward, Guarded, ObserverOf,
      Backed, Promise!Resources, Calm, Only, Private
<1> QED
  BY <1>2, <1>3

-----------------------------------------------------------------------------
(* All steps together                                                      *)

(* Other calls move CurrentPDB, or find a service damaged. *)
LEMMA OthersStep ==
  ASSUME IndInv, RuntimeMoves \/ ServicePoisoned
  PROVE  PromiseStep
<1>1. UNCHANGED <<slot, poisoned>> /\ svc \in Services
  BY DEF RuntimeMoves, ServicePoisoned, IndInv, TypeOK
<1>2. ASSUME svc'.gate = svc.gate, svc'.file = svc.file,
             svc'.env = svc.env, svc'.load = svc.load,
             svc'.batch = svc.batch, svc'.backend = svc.backend
      PROVE  Phase' = Phase
             /\ (IF poisoned THEN {} ELSE Held)'
                  = (IF poisoned THEN {} ELSE Held)
  BY <1>1, <1>2, HeldMembers, HeldIs DEF Promise!Resources, Phase
<1>3. CASE RuntimeMoves
  BY <1>3, <1>1, <1>2
  DEF RuntimeMoves, Services, Promise!Others, PromiseStep, Promise!Next
<1>4. CASE ServicePoisoned
  <2>1. PICK f \in {"runtime", "arena", "backends"} :
          svc' = [svc EXCEPT ![f] = TRUE]
    BY <1>4 DEF ServicePoisoned
  <2>2. /\ svc'.gate = svc.gate /\ svc'.file = svc.file
        /\ svc'.env = svc.env /\ svc'.load = svc.load
        /\ svc'.batch = svc.batch /\ svc'.backend = svc.backend
        /\ svc'.pdb = svc.pdb
    <3>1. CASE f = "runtime"
      BY ONLY <1>1, <2>1, <3>1 DEF Services
    <3>2. CASE f = "arena"
      BY ONLY <1>1, <2>1, <3>2 DEF Services
    <3>3. CASE f = "backends"
      BY ONLY <1>1, <2>1, <3>3 DEF Services
    <3> QED
      BY <3>1, <3>2, <3>3
  <2> QED
    BY <1>2, <2>2 DEF PromiseStep, Promise!promiseVars
<1> QED
  BY <1>3, <1>4

(* Every answer of a callback is a step of the promise. *)
LEMMA CallbackStep ==
  ASSUME IndInv, Callback
  PROVE  PromiseStep
<1> QED
  BY CalledBack, BeginCallbackStep, FileCallbackStep, EnvironmentCallbackStep,
     ImageCallbackStep, ChildCallbackStep, StagingCallbackStep, SealCallbackStep,
     BackendReleasedStep, JournalAbortedStep, ResourceFreedStep, GateReleasedStep
  DEF Callback, UnwindCallback

(* Every operation is a step of the promise. *)
LEMMA OperationStep ==
  ASSUME IndInv, Operation
  PROVE  PromiseStep
BY BeginStep, FileOperations, EnvironmentOperations, ImageOperations,
   ChildOperations, SealOperations, RetirePublishedStep, AbortStep,
   RetireStep
DEF Operation

(* Every step is a step of the promise or leaves it alone. *)
LEMMA StepKept == IndInv /\ [Next]_vars => PromiseStep
<1>1. ASSUME UNCHANGED vars PROVE PromiseStep
  BY <1>1, HeldIs DEF vars, HeldBy, Phase, PromiseStep, Promise!promiseVars
<1> QED
  BY <1>1, OperationStep, CallbackStep, OthersStep DEF Next

(* Nothing is held at the start. *)
LEMMA InitKept == Init => Promise!Init
<1> SUFFICES ASSUME Init PROVE Promise!Init
  OBVIOUS
<1>1. /\ slot = Vacant(1) /\ poisoned = FALSE
      /\ svc.gate = "free" /\ svc.file = "none" /\ svc.env = "none"
      /\ svc.load = "none" /\ svc.batch = "none" /\ svc.backend = "none"
  BY DEF Init
<1>2. svc.pdb \in Psps
  BY DEF Init, Psps
<1>3. slot.state = "VACANT" /\ ~slot.staged
  BY <1>1 DEF Vacant
<1>5. Phase = "idle"
  BY <1>1, <1>3 DEF Phase
<1> QED
  BY <1>1, <1>2, <1>3, HeldMembers, <1>5, HeldIs DEF Promise!Init, Promise!Resources

(* The coordinator keeps its promise: whatever the order in which services *)
(* answer and wherever they fail, each step takes or gives back at most    *)
(* one private thing under the observer gate, staged bytes are restored    *)
(* before their block is freed, the gate is opened last, everything that   *)
(* makes up the child is committed in one step, and a request in doubt is  *)
(* quarantined for good.                                                   *)
THEOREM Refines == Spec => KeepsPromise
BY Inductive, InitKept, StepKept, PTL
DEF Spec, KeepsPromise, Promise!Spec, PromiseStep
=============================================================================
