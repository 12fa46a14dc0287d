-------------------------- MODULE ExecTransaction --------------------------
(***************************************************************************)
(* The EXEC transaction coordinator (dos/exec_transaction.c) together with *)
(* the services it drives: the observer gate, the executable's file lease, *)
(* the two memory leases, the SFT batch, the memory journal, the backend   *)
(* session and the process runtime that holds CurrentPDB.                  *)
(*                                                                         *)
(* The coordinator is single threaded, but every service call may call     *)
(* back into it.  A public operation is therefore one action that checks   *)
(* the slot and enters the first callback, followed by one action per      *)
(* callback that returns: slot.state is the program counter, `call' says   *)
(* which kind of operation is on the C stack.  Operations are enabled      *)
(* during callbacks as well; that they are refused there is a theorem      *)
(* about the states and the encoding rules, not a guard.                   *)
(***************************************************************************)
EXTENDS ExecEncoding, FiniteSets

VARIABLES
  slot,      \* the slot of the live request (at most one is not VACANT)
  gens,      \* generation of every slot of the table
  poisoned,  \* table->poisoned
  call,      \* "idle" | "begin" | "advance" | "unwind" | "nested"
  svc        \* what the services really hold for this request

vars == <<slot, gens, poisoned, call, svc>>

Psps == 0 .. 2            \* CurrentPDB: none, or one of two processes
Child(psp) == 3 - psp     \* the load block is a new PSP

Services ==
  [gate     : {"free", "held", "quarantined"},
   file     : {"none", "open", "probed", "closed", "poisoned"},
   closes   : 0 .. 2,                     \* adapter closes of this lease
   env      : {"none", "active", "published"},
   load     : {"none", "active", "published"},
   arena    : BOOLEAN,                    \* memory_arena->machine_poisoned
   batch    : {"none", "prepared", "committed", "poisoned"},
   backend  : {"none", "dormant", "runnable", "poisoned"},
   backends : BOOLEAN,                    \* backend_sessions->poisoned
   gen      : 1 .. RuntimeMax,            \* runtime->generation
   pdb      : Psps,                       \* runtime->current_psp
   runtime  : BOOLEAN]                    \* runtime->poisoned

(* Every object a request can hold is of the declared kind. *)
TypeOK ==
  /\ slot \in Slot
  /\ gens \in [1 .. SlotCount -> 0 .. GenerationMax]
  /\ poisoned \in BOOLEAN
  /\ call \in {"idle", "begin", "advance", "unwind", "nested"}
  /\ svc \in Services

Init ==
  /\ slot = Vacant(1)
  /\ gens = [i \in 1 .. SlotCount |-> 0]
  /\ poisoned = FALSE
  /\ call = "idle"
  /\ svc \in [gate : {"free"}, file : {"none"}, closes : {0},
              env : {"none"}, load : {"none"}, arena : {FALSE},
              batch : {"none"}, backend : {"none"}, backends : {FALSE},
              gen : {1}, pdb : {0, 1}, runtime : {FALSE}]

-----------------------------------------------------------------------------
(* How an operation goes on.                                               *)

At(state) == [slot EXCEPT !.state = state]

(* A call made while another one is on the stack would be a nested one. *)
Entered(c) == IF call = "idle" THEN c ELSE "nested"

Do(s, v, c) ==
  /\ slot' = s /\ svc' = v /\ call' = c
  /\ UNCHANGED <<gens, poisoned>>

Enter(state)   == Do(At(state), svc, Entered("advance"))  \* first callback
Refuse(state)  == Do(At(state), svc, Entered("idle"))     \* no callback made
Continue(s, v) == Do(s, v, call)                          \* next callback
Return(s, v)   == Do(s, v, "idle")
Fail           == Return(At("FAILED"), svc)

(* poison_transaction: the table first, then the gate that covers it *)
PoisonWith(s, v) ==
  /\ slot' = [s EXCEPT !.state = "POISONED",
                       !.observer = IF @ = "held" THEN "poisoned" ELSE @]
  /\ poisoned' = TRUE
  /\ svc' = [v EXCEPT !.gate = IF s.observer = "held" THEN "quarantined"
                                                       ELSE @]
  /\ call' = "idle"
  /\ UNCHANGED gens

PoisonTransaction == PoisonWith(slot, svc)

(* poison_memory_domain: the arena as well *)
PoisonDomainWith(s, v) == PoisonWith(s, [v EXCEPT !.arena = TRUE])
PoisonDomain == PoisonDomainWith(slot, svc)

(* validate_table and find_bound_slot with the live handle *)
Resolves ==
  /\ ~poisoned
  /\ slot.state \notin {"VACANT", "POISONED"}
  /\ slot.observer # "poisoned"
  /\ ValidEncoding(slot)

Accepts(state) == Resolves /\ slot.state = state
AcceptsProcess(state) == Accepts(state) /\ IsProcess(slot)

(* dos_process_runtime_preflight_exec: the parent is still the one begin    *)
(* saw, and the runtime can still be advanced                               *)
ParentCurrent ==
  /\ svc.gen < RuntimeMax
  /\ svc.gen = slot.runtime /\ svc.pdb = slot.parentPsp

Preflighted(A) ==
  \/ svc.runtime /\ PoisonTransaction
  \/ ~svc.runtime /\ ~ParentCurrent /\ Refuse("FAILED")
  \/ ~svc.runtime /\ ParentCurrent /\ A

(* ... followed by the arena check of the operations that use the arena *)
PreflightedArena(A) ==
  Preflighted(\/ svc.arena /\ PoisonDomain
              \/ ~svc.arena /\ A)

(* The same with the parent PSP that allocations need; its absence is      *)
(* found before the arena is looked at.                                     *)
PreflightedOwner(A) ==
  Preflighted(\/ slot.parentPsp = 0 /\ Refuse("FAILED")
              \/ /\ slot.parentPsp # 0
                 /\ \/ svc.arena /\ PoisonDomain
                    \/ ~svc.arena /\ A)

-----------------------------------------------------------------------------
(* begin                                                                   *)

Handle(i, g) == <<i, g>>

Reservable == {i \in 1 .. SlotCount : gens[i] < GenerationMax}

(* validate_table, the arena of a process request, and reserve_slot's scan *)
Admits(q) ==
  /\ ~poisoned
  /\ slot.state = "VACANT"
  /\ q # "overlay" => ~svc.arena

Begin(q) ==
  /\ Admits(q)
  /\ Reservable # {}
  /\ LET i == CHOOSE i \in Reservable : \A j \in Reservable : i <= j
         g == gens[i] + 1
     IN  /\ slot' = [Vacant(i) EXCEPT
                       !.state = "OBSERVER_ACQUIRING", !.request = q,
                       !.observer = "acquiring",
                       !.journal = IF q = "overlay" THEN @ ELSE "staging"]
         /\ gens' = [gens EXCEPT ![i] = g]
  /\ call' = Entered("begin")
  /\ UNCHANGED <<poisoned, svc>>

(* dos_exec_observer_acquire: refused, uncertain, or held *)
AcquireRefused ==
  /\ slot.state = "OBSERVER_ACQUIRING"
  /\ Return(Vacant(slot.index), svc)

AcquireUncertain ==
  /\ slot.state = "OBSERVER_ACQUIRING"
  /\ PoisonWith([slot EXCEPT !.observer = "poisoned"],
                [svc EXCEPT !.gate = "quarantined"])

Acquired ==
  /\ slot.state = "OBSERVER_ACQUIRING"
  /\ svc.gate = "free"
  /\ LET s == [slot EXCEPT !.observer = "held"]
         v == [svc EXCEPT !.gate = "held"]
     IN  \/ /\ ~IsProcess(slot)
            /\ Return([s EXCEPT !.state = "OBSERVED"], v)
         \/ /\ IsProcess(slot) /\ svc.runtime
            /\ PoisonWith(s, v)
         \/ /\ IsProcess(slot) /\ ~svc.runtime
            /\ \/ Return([s EXCEPT !.state = "OBSERVED",
                                   !.runtime = svc.gen,
                                   !.parentPsp = svc.pdb], v)
               \/ \* a runtime that cannot be captured: give the gate back
                  Continue([s EXCEPT !.state = "OBSERVER_RELEASING",
                                     !.observer = "releasing"], v)

(* dos_exec_observer_release failing: the gate is quarantined *)
ReleaseUncertain ==
  /\ slot.state = "OBSERVER_RELEASING"
  /\ PoisonWith([slot EXCEPT !.observer = "poisoned"],
                [svc EXCEPT !.gate = "quarantined"])

BeginGivenUp ==
  /\ slot.state = "OBSERVER_RELEASING" /\ call = "begin"
  /\ Return(Vacant(slot.index), [svc EXCEPT !.gate = "free"])

BeginCallback == AcquireRefused \/ AcquireUncertain \/ Acquired \/ BeginGivenUp

-----------------------------------------------------------------------------
(* The executable: open, probe, close                                      *)

Open == Accepts("OBSERVED") /\ Enter("NAME_READING")

NameRead ==
  /\ slot.state = "NAME_READING"
  /\ Fail \/ Continue(At("FILE_OPENING"), svc)

Opened ==
  /\ slot.state = "FILE_OPENING"
  /\ \/ Return([slot EXCEPT !.state = "FILE_OPEN", !.name = TRUE,
                            !.file = TRUE],
               [svc EXCEPT !.file = "open", !.closes = 0])
     \/ Fail
     \/ PoisonWith(slot, [svc EXCEPT !.file = "poisoned"])

Probe == Accepts("FILE_OPEN") /\ slot.file /\ Enter("FILE_PROBING")

Probed ==
  /\ slot.state = "FILE_PROBING"
  /\ \/ \E s \in {"FILE_PROBED", "FAILED"} :    \* a device is refused
          Return(At(s), [svc EXCEPT !.file = "probed"])
     \/ Fail
     \/ PoisonWith(slot, [svc EXCEPT !.file = "poisoned"])

Close ==
  /\ Resolves /\ slot.file
  /\ \/ slot.state = "FILE_PROBED" /\ Enter("FILE_CLOSING")
     \/ /\ slot.state = "IMAGE_PRIVATE" /\ IsProcess(slot)
        /\ Enter("PROCESS_FILE_CLOSING")

(* Fault: a lease that is already closed goes to the adapter again. *)
FinishedAgain(v) ==
  [v EXCEPT !.file = "closed", !.closes = IF @ = 2 THEN 2 ELSE @ + 1]

(* finish_lease: closing a closed lease is a success without the adapter *)
Finished(v) ==
  IF v.file = "closed" THEN v
  ELSE [v EXCEPT !.file = "closed", !.closes = IF @ = 2 THEN 2 ELSE @ + 1]

Closed ==
  /\ slot.state \in {"FILE_CLOSING", "PROCESS_FILE_CLOSING"}
  /\ svc.file \in {"open", "probed", "closed"}
  /\ \/ Return(At(IF slot.state = "FILE_CLOSING" THEN "FILE_CLOSED"
                                           ELSE "PROCESS_FILE_CLOSED"),
               Finished(svc))
     \/ svc.file # "closed" /\ Fail      \* the adapter retained the reader
     \/ /\ svc.file # "closed"
        /\ PoisonWith(slot, [svc EXCEPT !.file = "poisoned"])

FileCallback == NameRead \/ Opened \/ Probed \/ Closed

-----------------------------------------------------------------------------
(* The environment block                                                   *)

SelectEnvironment ==
  /\ AcceptsProcess("FILE_PROBED")
  /\ Preflighted(Enter("ENVIRONMENT_READING"))

EnvironmentRead ==
  /\ slot.state = "ENVIRONMENT_READING"
  /\ \/ \E k \in {"parameter", "parent", "none"} :
          Return([slot EXCEPT !.state = "ENV_READY", !.source = k], svc)
     \/ Fail
     \/ PoisonTransaction

PrepareEnvironment ==
  /\ AcceptsProcess("ENV_READY")
  /\ PreflightedArena(
       \/ slot.source = "none" /\ Refuse("ENVIRONMENT_BLOCK_READY")
       \/ /\ slot.source # "none" /\ slot.parentPsp = 0
          /\ Refuse("FAILED")
       \/ /\ slot.source # "none" /\ slot.parentPsp # 0
          /\ Enter("ENVIRONMENT_SCANNING"))

EnvironmentScanned ==
  /\ slot.state = "ENVIRONMENT_SCANNING"
  /\ \/ Continue([slot EXCEPT !.state = "ENVIRONMENT_ALLOCATING",
                              !.envPlan = TRUE], svc)
     \/ Fail
     \/ PoisonDomain

(* dos_memory_lease_acquire_unnamed on a poisoned arena fails, whatever     *)
(* the arena was when the operation started                                 *)
EnvironmentAllocated ==
  /\ slot.state = "ENVIRONMENT_ALLOCATING"
  /\ \/ ~svc.arena /\ Continue([slot EXCEPT !.state = "ENVIRONMENT_BUILDING",
                                            !.envBlock = TRUE],
                               [svc EXCEPT !.env = "active"])
     \/ ~svc.arena /\ Fail
     \/ PoisonDomain

EnvironmentBuilt ==
  /\ slot.state = "ENVIRONMENT_BUILDING"
  /\ \/ Return(At("ENVIRONMENT_BLOCK_READY"), svc)
     \/ Fail
     \/ PoisonDomain

EnvironmentCallback ==
  EnvironmentRead \/ EnvironmentScanned \/ EnvironmentAllocated
    \/ EnvironmentBuilt

-----------------------------------------------------------------------------
(* The image and the load block                                            *)

(* dos_exec_file_lease_resolve_reader, which never calls back *)
WithReader(s, A) ==
  \/ svc.file # "probed" /\ PoisonWith(s, svc)
  \/ svc.file = "probed" /\ A

InspectImage ==
  \/ /\ AcceptsProcess("ENVIRONMENT_BLOCK_READY")
     /\ PreflightedArena(WithReader(slot, Enter("IMAGE_READING")))
  \/ /\ Accepts("FILE_PROBED") /\ ~IsProcess(slot)
     /\ WithReader(slot, Enter("IMAGE_READING"))

ImageInspected ==
  /\ slot.state = "IMAGE_READING"
  /\ \/ \E f \in {"com", "mz"} :
          Return([slot EXCEPT !.state = "IMAGE_READY", !.image = f], svc)
     \/ Fail
     \/ PoisonTransaction

PrepareTarget ==
  /\ AcceptsProcess("IMAGE_READY")
  /\ PreflightedOwner(Enter("LOAD_QUERYING"))

LoadQueried ==
  /\ slot.state = "LOAD_QUERYING"
  /\ \/ ~svc.arena /\ Continue([slot EXCEPT !.state = "LOAD_ALLOCATING",
                                            !.plan = TRUE], svc)
     \/ ~svc.arena /\ Fail
     \/ PoisonDomain
     \/ ~svc.arena /\ PoisonTransaction   \* a plan that does not fit the image

LoadAllocated ==
  /\ slot.state = "LOAD_ALLOCATING"
  /\ LET s == [slot EXCEPT !.block = TRUE]
         v == [svc EXCEPT !.load = "active"]
     IN  \/ ~svc.arena /\ Return([s EXCEPT !.state = "TARGET_READY"], v)
         \/ ~svc.arena /\ Fail
         \/ ~svc.arena /\ PoisonDomainWith(s, v)  \* the maximum has changed
         \/ PoisonDomain

(* dos_memory_lease_resolve_active of the load block, also without callback *)
WithBlock(s, A) ==
  \/ (svc.load # "active" \/ svc.arena) /\ PoisonDomainWith(s, svc)
  \/ svc.load = "active" /\ ~svc.arena /\ A

LoadResident ==
  /\ AcceptsProcess("TARGET_READY")
  /\ PreflightedOwner(
       \/ Refuse("FAILED") \/ PoisonTransaction      \* the process plan
       \/ LET s == [slot EXCEPT !.state = "RESIDENT_LOADING",
                                !.resident = "planned"]
          IN  WithReader(s, WithBlock(s, Do(s, svc, Entered("advance")))))

ResidentLoaded ==
  /\ slot.state = "RESIDENT_LOADING"
  /\ \/ Return([slot EXCEPT !.state = "RESIDENT_READY",
                            !.resident = "loaded"], svc)
     \/ Fail
     \/ PoisonDomain

RelocateResident ==
  /\ AcceptsProcess("RESIDENT_READY")
  /\ PreflightedArena(
       \/ slot.image = "com" /\ Refuse("IMAGE_PRIVATE")
       \/ /\ slot.image = "mz"
          /\ LET s == [slot EXCEPT !.state = "RELOCATING",
                                   !.relocation = "planned"]
             IN  WithReader(s,
                   WithBlock(s, Do(s, svc, Entered("advance")))))

Relocated ==
  /\ slot.state = "RELOCATING"
  /\ \/ Return([slot EXCEPT !.state = "IMAGE_PRIVATE",
                            !.relocation = "applied"], svc)
     \/ Fail
     \/ PoisonDomain

ImageCallback ==
  ImageInspected \/ LoadQueried \/ LoadAllocated \/ ResidentLoaded \/ Relocated

-----------------------------------------------------------------------------
(* The child's parent snapshot, file references and PSP                    *)

CaptureParent ==
  /\ AcceptsProcess("PROCESS_FILE_CLOSED")
  /\ Preflighted(Enter("PARENT_SNAPSHOTTING"))

ParentCaptured ==
  /\ slot.state = "PARENT_SNAPSHOTTING"
  /\ \/ Return([slot EXCEPT !.state = "PARENT_SNAPSHOT_READY",
                            !.parent = TRUE], svc)
     \/ Fail
     \/ PoisonTransaction

PrepareInheritance ==
  /\ Accepts("PARENT_SNAPSHOT_READY") /\ slot.parent
  /\ Preflighted(Enter("SFT_PREPARING"))

SftPrepared ==
  /\ slot.state = "SFT_PREPARING"
  /\ \/ Return([slot EXCEPT !.state = "SFT_RESERVED", !.batch = "jft"],
               [svc EXCEPT !.batch = "prepared"])
     \/ Fail
     \/ PoisonDomainWith([slot EXCEPT !.batch = "batch"],
                         [svc EXCEPT !.batch = "poisoned"])

PreparePsp ==
  /\ Accepts("SFT_RESERVED") /\ slot.batch = "jft"
  /\ Preflighted(Enter("PROCESS_PARAMETER_READING"))

ParametersRead ==
  /\ slot.state = "PROCESS_PARAMETER_READING"
  /\ Continue(At("PSP_PREPARING"), svc) \/ Fail \/ PoisonDomain

PspPrepared ==
  /\ slot.state = "PSP_PREPARING"
  /\ \/ Return([slot EXCEPT !.state = "PSP_PREPARED", !.psp = TRUE], svc)
     \/ Fail
     \/ PoisonDomain

FinalizeInitialState ==
  /\ Accepts("PSP_PREPARED") /\ slot.psp /\ slot.resident = "loaded"
  /\ Enter("DRIVE_RESOLVING")

DrivesResolved ==
  /\ slot.state = "DRIVE_RESOLVING"
  /\ Return(At("INITIAL_STATE_READY"), svc) \/ Fail \/ PoisonTransaction

ChildCallback ==
  ParentCaptured \/ SftPrepared \/ ParametersRead \/ PspPrepared
    \/ DrivesResolved

-----------------------------------------------------------------------------
(* Staging in guest memory, under the journal                              *)

WithoutRebinds(s) ==
  [s EXCEPT !.envRebind = FALSE, !.loadRebind = FALSE, !.handoff = FALSE,
            !.session = FALSE]

(* process_memory_stage_failure: undo what is staged, poison what is        *)
(* uncertain                                                                *)
StageFailed(s) ==
  \/ \E some \in {s.staged, TRUE} :
       Continue([s EXCEPT !.state = "JOURNAL_ABORTING", !.staged = some],
                svc)
  \/ PoisonDomainWith([s EXCEPT !.journal = "poisoned"], svc)
  \/ PoisonWith(s, svc)

StageProcessMemory ==
  /\ Accepts("INITIAL_STATE_READY")
  /\ slot.psp /\ slot.resident = "loaded"
  /\ slot.journal = "staging" /\ ~slot.staged
  /\ Enter("PROCESS_MEMORY_STAGING")

ProcessMemoryStaged ==
  /\ slot.state = "PROCESS_MEMORY_STAGING"
  /\ \/ Return([slot EXCEPT !.state = "GLOBAL_STAGED", !.staged = TRUE], svc)
     \/ StageFailed(slot)

StageGlobalMemory ==
  /\ Accepts("GLOBAL_STAGED") /\ slot.name /\ slot.block
  /\ slot.journal = "staging"
  /\ Preflighted(Enter("GLOBAL_MEMORY_STAGING"))

GlobalMemoryStaged ==
  /\ slot.state = "GLOBAL_MEMORY_STAGING"
  /\ \/ /\ ~svc.arena
        /\ Return([slot EXCEPT !.state = "GLOBAL_MEMORY_READY",
                               !.envRebind = slot.envBlock,
                               !.loadRebind = TRUE], svc)
     \/ ~svc.arena /\ StageFailed(slot)
     \/ PoisonDomain

PrepareHandoff ==
  /\ Accepts("GLOBAL_MEMORY_READY") /\ slot.request = "exec0"
  /\ slot.loadRebind /\ ~slot.handoff
  /\ Enter("HANDOFF_STAGING")

HandoffStaged ==
  /\ slot.state = "HANDOFF_STAGING"
  /\ \/ Return([slot EXCEPT !.state = "HANDOFF_READY", !.handoff = TRUE], svc)
     \/ StageFailed(WithoutRebinds(slot))

StagingCallback == ProcessMemoryStaged \/ GlobalMemoryStaged \/ HandoffStaged

-----------------------------------------------------------------------------
(* The backend session and the seal                                        *)

PrepareBackend ==
  /\ Accepts("HANDOFF_READY") /\ slot.request = "exec0"
  /\ slot.handoff /\ ~slot.session /\ ~svc.backends
  /\ Enter("BACKEND_PREPARING")

BackendPrepared ==
  /\ slot.state = "BACKEND_PREPARING"
  /\ \/ Return(At("HANDOFF_READY"), svc)
     \/ Return([slot EXCEPT !.state = "BACKEND_DORMANT", !.session = TRUE],
               [svc EXCEPT !.backend = "dormant"])
     \/ Return(At("FAILED"),    \* an answer outside the backend's contract
               [svc EXCEPT !.backends = TRUE, !.backend = "poisoned"])

(* Fault: the child's file references stay uncommitted. *)
CommittedWithoutReferences(v) ==
  [v EXCEPT !.env = IF @ = "active" THEN "published" ELSE @,
            !.load = "published", !.gen = @ + 1, !.pdb = Child(@)]

(* dos_exec_seal_commit_load_only after its preflight: no callback can run  *)
(* before all of it, CurrentPDB last, has been written                      *)
Committed(v) ==
  [v EXCEPT !.env = IF @ = "active" THEN "published" ELSE @,
            !.load = "published", !.batch = "committed",
            !.gen = @ + 1, !.pdb = Child(@)]

(* A stale parent leaves the slot as it was and is not a step. *)
Seal ==
  \/ (svc.arena \/ svc.runtime) /\ PoisonDomain
  \/ /\ ~svc.arena /\ ~svc.runtime /\ ParentCurrent
     /\ slot.journal = "staging" /\ svc.batch = "prepared"
     /\ Do([slot EXCEPT !.state = "COMMITTING", !.journal = "sealed",
                        !.staged = FALSE, !.observer = "releasing"],
           Committed(svc), Entered("advance"))

SealExecute ==
  /\ Accepts("BACKEND_DORMANT") /\ slot.request = "exec0"
  /\ slot.session /\ slot.batch = "jft"
  /\ ~svc.backends /\ svc.backend = "dormant"
  /\ Seal

SealLoadOnly ==
  /\ Accepts("GLOBAL_MEMORY_READY") /\ slot.request = "exec1"
  /\ slot.loadRebind /\ slot.batch = "jft"
  /\ Seal

(* The observer is released last; then an executed child becomes runnable. *)
SealReleased ==
  /\ slot.state = "COMMITTING"
  /\ LET s == [slot EXCEPT !.observer = "released"]
         v == [svc EXCEPT !.gate = "free"]
     IN  \/ /\ slot.request = "exec1"
            /\ Return([s EXCEPT !.state = "PUBLISHED"], v)
         \/ /\ slot.request = "exec0" /\ ~svc.backends
            /\ Return([s EXCEPT !.state = "PUBLISHED"],
                      [v EXCEPT !.backend = "runnable"])
         \/ /\ slot.request = "exec0" /\ svc.backends
            /\ PoisonDomainWith(s, v)

(* quarantine_services *)
SealQuarantined ==
  /\ slot.state = "COMMITTING"
  /\ PoisonDomainWith([slot EXCEPT !.observer = "poisoned",
                                   !.journal = "poisoned"],
                      [svc EXCEPT !.gate = "quarantined", !.runtime = TRUE])

SealCallback == BackendPrepared \/ SealReleased \/ SealQuarantined

(* Both terminal generations are recycled; what was published is the        *)
(* child's from now on.                                                     *)
RetirePublished ==
  /\ Accepts("PUBLISHED") /\ slot.file /\ slot.batch # "none"
  /\ svc.file = "closed" /\ svc.batch = "committed"
  /\ Do(Vacant(slot.index),
        [svc EXCEPT !.file = "none", !.batch = "none", !.env = "none",
                    !.load = "none", !.backend = "none"],
        Entered("idle"))

-----------------------------------------------------------------------------
(* abort and retire                                                        *)

(* state_can_abort *)
CanAbort ==
  {"OBSERVED", "FILE_OPEN", "FILE_PROBED", "ENV_READY",
   "ENVIRONMENT_BLOCK_READY", "IMAGE_READY", "TARGET_READY",
   "RESIDENT_READY", "IMAGE_PRIVATE", "PROCESS_FILE_CLOSED",
   "PARENT_SNAPSHOT_READY", "SFT_RESERVED", "PSP_PREPARED",
   "INITIAL_STATE_READY", "GLOBAL_STAGED", "GLOBAL_MEMORY_READY",
   "HANDOFF_READY", "BACKEND_DORMANT", "FILE_CLOSED", "FAILED", "ABORTING"}

(* Fault: the gate is opened before the executable is closed. *)
StagesGateFirst ==
  <<"BACKEND_RELEASING", "JOURNAL_ABORTING", "SFT_ABORTING",
    "LOAD_LEASE_ABORTING", "ENVIRONMENT_LEASE_ABORTING",
    "OBSERVER_RELEASING", "ABORT_FILE_CLOSING">>

(* The reverse of the order of acquisition. *)
Stages ==
  <<"BACKEND_RELEASING", "JOURNAL_ABORTING", "SFT_ABORTING",
    "LOAD_LEASE_ABORTING", "ENVIRONMENT_LEASE_ABORTING",
    "ABORT_FILE_CLOSING", "OBSERVER_RELEASING">>

(* What the slot still has to give back in each stage. *)
Owes(s) ==
  [BACKEND_RELEASING          |-> s.session,
   JOURNAL_ABORTING           |-> s.journal = "staging" /\ s.staged,
   SFT_ABORTING               |-> s.batch # "none",
   LOAD_LEASE_ABORTING        |-> s.block,
   ENVIRONMENT_LEASE_ABORTING |-> s.envBlock,
   ABORT_FILE_CLOSING         |-> s.file,
   OBSERVER_RELEASING         |-> TRUE]

NextStage(s) ==
  LET k == CHOOSE k \in 1 .. 7 :
             Owes(s)[Stages[k]] /\ \A j \in 1 .. k - 1 : ~Owes(s)[Stages[j]]
  IN  Stages[k]

(* An empty journal is closed, and the PSP image dropped, on the way. *)
PastJournal(s) ==
  LET t == [s EXCEPT !.psp = FALSE]
  IN  IF s.journal = "staging"
        THEN [WithoutRebinds(t) EXCEPT !.journal = "aborted",
                                       !.staged = FALSE]
        ELSE t

(* The slot when abort enters its next callback. *)
Unwinding(s) ==
  LET next == NextStage(s)
      t    == IF next \in {"BACKEND_RELEASING", "JOURNAL_ABORTING"}
                THEN s ELSE PastJournal(s)
  IN  [t EXCEPT !.state = next,
                !.observer = IF next = "OBSERVER_RELEASING" THEN "releasing"
                                                            ELSE @]

Abort ==
  /\ Resolves /\ slot.state \in CanAbort
  /\ Do(Unwinding(slot), svc, Entered("unwind"))

BackendReleased ==
  /\ slot.state = "BACKEND_RELEASING"
  /\ LET s == [slot EXCEPT !.session = FALSE]
     IN  \/ /\ ~svc.backends
            /\ Continue(Unwinding(s), [svc EXCEPT !.backend = "none"])
         \/ Return(At("BACKEND_DORMANT"), svc)      \* kept: nothing is undone
         \/ \* release uncertain, or the session table already poisoned
            Continue(Unwinding(s), [svc EXCEPT !.backends = TRUE,
                                               !.backend = "poisoned"])
         \/ \* poisoned while it was stopping: it cannot be retired
            svc.backends /\ PoisonWith(slot, [svc EXCEPT !.backend = "none"])

JournalAborted ==
  /\ slot.state = "JOURNAL_ABORTING"
  /\ LET s == [slot EXCEPT !.journal = "aborted", !.staged = FALSE]
     IN  \/ call = "advance" /\ Return([s EXCEPT !.state = "FAILED"], svc)
         \/ call = "unwind" /\ Continue(Unwinding(WithoutRebinds(s)), svc)
         \/ PoisonDomainWith([slot EXCEPT !.journal = "poisoned"], svc)

SftAborted ==
  /\ slot.state = "SFT_ABORTING"
  /\ \/ Continue(Unwinding([slot EXCEPT !.batch = "none"]),
                 [svc EXCEPT !.batch = "none"])
     \/ PoisonDomainWith(slot, [svc EXCEPT !.batch = "poisoned"])

(* Fault: a retained lease leaves the state of its callback. *)
RetryStranded == Return(slot, svc)

(* A retained lease stays with the slot for a later abort. *)
Retry == Return(At("ABORTING"), svc)

WithoutBlock(s) ==
  [s EXCEPT !.parent = FALSE, !.relocation = "none", !.resident = "none",
            !.block = FALSE]

LoadFreed ==
  /\ slot.state = "LOAD_LEASE_ABORTING"
  /\ \/ ~svc.arena /\ Continue(Unwinding(WithoutBlock(slot)),
                               [svc EXCEPT !.load = "none"])
     \/ ~svc.arena /\ Retry
     \/ PoisonDomain

EnvironmentFreed ==
  /\ slot.state = "ENVIRONMENT_LEASE_ABORTING"
  /\ \/ ~svc.arena /\ Continue(Unwinding([slot EXCEPT !.envBlock = FALSE]),
                               [svc EXCEPT !.env = "none"])
     \/ ~svc.arena /\ Retry
     \/ PoisonDomain

AbortClosed ==
  /\ slot.state = "ABORT_FILE_CLOSING"
  /\ \/ Continue(Unwinding([slot EXCEPT !.file = FALSE]),
                 [Finished(svc) EXCEPT !.file = "none"])
     \/ svc.file # "closed" /\ Retry
     \/ /\ svc.file # "closed"
        /\ PoisonWith(slot, [svc EXCEPT !.file = "poisoned"])

ObserverReleased ==
  /\ slot.state = "OBSERVER_RELEASING" /\ call = "unwind"
  /\ Return([slot EXCEPT !.state = "ABORTED", !.observer = "released"],
            [svc EXCEPT !.gate = "free"])

UnwindCallback ==
  BackendReleased \/ JournalAborted \/ SftAborted \/ LoadFreed
    \/ EnvironmentFreed \/ AbortClosed \/ ObserverReleased \/ ReleaseUncertain

Retire ==
  /\ Accepts("ABORTED")
  /\ Do(Vacant(slot.index), svc, Entered("idle"))

-----------------------------------------------------------------------------
(* Everybody else                                                          *)

(* AH=50h, AH=1Ah or a termination moves the runtime on. *)
RuntimeMoves ==
  /\ ~svc.runtime /\ svc.gen < RuntimeMax
  /\ \E p \in Psps : svc' = [svc EXCEPT !.gen = @ + 1, !.pdb = p]
  /\ UNCHANGED <<slot, gens, poisoned, call>>

(* A service is found to be damaged by somebody else's call. *)
ServicePoisoned ==
  /\ \E f \in {"runtime", "arena", "backends"} :
       /\ ~svc[f]
       /\ svc' = [svc EXCEPT ![f] = TRUE]
  /\ UNCHANGED <<slot, gens, poisoned, call>>

Operation ==
  \/ \E q \in Requests : Begin(q)
  \/ Open \/ Probe \/ Close \/ SelectEnvironment \/ PrepareEnvironment
  \/ InspectImage \/ PrepareTarget \/ LoadResident \/ RelocateResident
  \/ CaptureParent \/ PrepareInheritance \/ PreparePsp
  \/ FinalizeInitialState \/ StageProcessMemory \/ StageGlobalMemory
  \/ PrepareHandoff \/ PrepareBackend \/ SealExecute \/ SealLoadOnly
  \/ RetirePublished \/ Abort \/ Retire

(* The service call on top of the stack returns. *)
Callback ==
  /\ call # "idle"
  /\ \/ BeginCallback \/ FileCallback \/ EnvironmentCallback
     \/ ImageCallback \/ ChildCallback \/ StagingCallback
     \/ SealCallback \/ UnwindCallback

Next == Operation \/ Callback \/ RuntimeMoves \/ ServicePoisoned

Spec == Init /\ [][Next]_vars

(* Every service call returns.  Nothing is assumed of the callers: the     *)
(* executor aborts a failed request once and reports what became of it.    *)
FairSpec == Spec /\ WF_vars(Callback)

-----------------------------------------------------------------------------
(* Properties                                                              *)

(* Whatever an operation does and wherever it fails, the slot it leaves    *)
(* behind passes slot_has_valid_encoding, so that abort will accept it.    *)
(* The one exception is a slot whose backend answered PREPARE outside its  *)
(* contract: prepare_backend leaves it FAILED with rebinds and hand-off in *)
(* it, and no operation accepts it again.                                  *)
Stranded ==
  slot.state = "FAILED" /\ slot.loadRebind /\ svc.backend = "poisoned"
EncodingHeld ==
  call = "idle" /\ ~poisoned /\ ~Stranded => ValidEncoding(slot)

(* No operation that calls out can be entered from one of its callbacks:   *)
(* the transitional states and the encoding rules refuse every one.        *)
Serialized == call # "nested"

(* A PUBLISHED request has every part published and its gate open; any     *)
(* other request at rest has none published.  A request that is poisoned   *)
(* after the seal leaves its arena poisoned, so the half-published child   *)
(* can neither run nor be freed.                                           *)
AllOrNothing ==
  /\ call = "idle" /\ slot.state = "PUBLISHED" =>
       /\ svc.load = "published" /\ svc.batch = "committed"
       /\ slot.envBlock => svc.env = "published"
       /\ slot.journal = "sealed" /\ svc.file = "closed"
       /\ svc.gate = "free"
       /\ slot.request = "exec0" => svc.backend = "runnable"
  /\ slot.state \notin {"COMMITTING", "PUBLISHED", "POISONED"} =>
       /\ "published" \notin {svc.load, svc.env}
       /\ svc.batch # "committed" /\ svc.backend # "runnable"
       /\ slot.journal # "sealed"
  /\ slot.state = "POISONED" /\ svc.load = "published" => svc.arena

(* The adapter's close runs at most once for a reader, although close,     *)
(* a retried close and abort all finish the same lease.                    *)
ClosedOnce == svc.closes <= 1

(* The slot is sound between any two steps of any call: its fields are of  *)
(* their kinds, no call is nested, no file closed twice, and at rest it    *)
(* is encoded as its state demands.                                        *)
SlotsHeld == TypeOK /\ Serialized /\ ClosedOnce /\ EncodingHeld

(* What the request holds privately, for the promise. *)
Held ==
  {r \in {"gate", "file", "env", "load", "sft", "bytes", "backend"} :
     CASE r = "gate"    -> svc.gate = "held"
       [] r = "file"    -> svc.file \in {"open", "probed"}
       [] r = "env"     -> svc.env = "active"
       [] r = "load"    -> svc.load = "active"
       [] r = "sft"     -> svc.batch = "prepared"
       [] r = "bytes"   -> slot.staged
       [] r = "backend" -> svc.backend = "dormant"
                             /\ slot.state # "COMMITTING"}

Phase ==
  CASE poisoned -> "quarantined"
    [] ~poisoned /\ slot.state = "VACANT" -> "idle"
    [] ~poisoned /\ slot.state \in {"COMMITTING", "PUBLISHED"} -> "committed"
    [] OTHER -> "private"

Promise == INSTANCE ExecPromise
             WITH phase <- Phase,
                  held  <- IF poisoned THEN {} ELSE Held,
                  pdb   <- svc.pdb

(* The coordinator keeps the promise: every step takes or gives back one   *)
(* private thing under the gate, bytes before their block and the gate     *)
(* last, commits everything at once, or quarantines the request for good.  *)
KeepsPromise == Promise!Spec

(* Where one abort may leave a request: quarantined; ABORTED with nothing  *)
(* held and the gate open; or at rest with what a service retained, in a   *)
(* state from which abort can be called again.                             *)
Settled ==
  /\ call = "idle"
  /\ \/ poisoned
     \/ slot.state = "ABORTED" /\ Held = {}
     \/ slot.state \in {"ABORTING", "BACKEND_DORMANT"} /\ Held # {} /\ Resolves

(* AbortSettles: an abort that was accepted settles the request, whichever *)
(* services fail, retain or are poisoned under it and however the runtime  *)
(* moves meanwhile: it never rests half-way, holding the gate that stops   *)
(* every other EXEC in a state that no operation accepts.                  *)
AbortSettles == call = "unwind" ~> Settled
=============================================================================
