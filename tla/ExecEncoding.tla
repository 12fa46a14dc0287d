---------------------------- MODULE ExecEncoding ----------------------------
(***************************************************************************)
(* The encoding rules of an EXEC transaction slot (dos/exec_transaction.c).*)
(* Every public operation of the coordinator first checks the slot against *)
(* these rules and refuses to work on one that breaks them, so a slot left *)
(* at rest outside them can be neither advanced nor unwound.               *)
(*                                                                         *)
(* A slot is a record of the facts the rules tell apart: which private     *)
(* object is present, never its bytes.                                     *)
(***************************************************************************)
EXTENDS Naturals

CONSTANTS
  SlotCount,       \* DOS_EXEC_TRANSACTION_SLOT_COUNT
  GenerationMax,   \* DOS_EXEC_TRANSACTION_GENERATION_MAX
  RuntimeMax       \* DOS_PROCESS_RUNTIME_GENERATION_MAX

ASSUME SlotAssumption ==
  /\ SlotCount \in Nat \ {0}
  /\ GenerationMax \in Nat \ {0}
  /\ RuntimeMax \in Nat \ {0}

(* AL of INT 21h AH=4Bh: load and execute, load only, overlay. *)
Requests == {"exec0", "exec1", "overlay"}

MemoryInterval ==
  {"PROCESS_MEMORY_STAGING", "GLOBAL_STAGED", "GLOBAL_MEMORY_STAGING",
   "GLOBAL_MEMORY_READY", "HANDOFF_STAGING", "HANDOFF_READY",
   "BACKEND_PREPARING", "BACKEND_DORMANT", "BACKEND_RELEASING", "COMMITTING",
   "PUBLISHED", "JOURNAL_ABORTING"}

(* From the private PSP image on. *)
PspInterval ==
  {"PSP_PREPARED", "DRIVE_RESOLVING", "INITIAL_STATE_READY"}
    \cup MemoryInterval

(* From the reserved SFT references on. *)
SftInterval ==
  {"SFT_RESERVED", "PROCESS_PARAMETER_READING", "PSP_PREPARING"}
    \cup PspInterval

ParentInterval ==
  {"PARENT_SNAPSHOT_READY", "SFT_PREPARING", "SFT_ABORTING"}
    \cup SftInterval

RelocationInterval ==
  {"RELOCATION_PLANNED", "RELOCATING", "IMAGE_PRIVATE",
   "PROCESS_FILE_CLOSING", "PROCESS_FILE_CLOSED", "PARENT_SNAPSHOTTING",
   "LOAD_LEASE_ABORTING"} \cup ParentInterval

ResidentInterval ==
  {"PROCESS_PLANNED", "RESIDENT_LOADING", "RESIDENT_READY"}
    \cup RelocationInterval

TargetInterval ==
  {"LOAD_PLANNED", "LOAD_ALLOCATING", "LOAD_LEASED", "TARGET_READY"}
    \cup ResidentInterval

LoadInterval == {"LOAD_QUERYING"} \cup TargetInterval

EnvironmentInterval ==
  {"ENVIRONMENT_LEASED", "ENVIRONMENT_BUILDING", "ENVIRONMENT_BLOCK_READY",
   "IMAGE_READING", "IMAGE_READY", "ENVIRONMENT_LEASE_ABORTING"}
    \cup LoadInterval

SelectedInterval ==
  {"ENV_READY", "ENVIRONMENT_SCANNING", "ENVIRONMENT_PLANNED",
   "ENVIRONMENT_ALLOCATING"} \cup EnvironmentInterval

FileInterval ==
  {"FILE_OPEN", "FILE_PROBING", "FILE_PROBED", "ENVIRONMENT_READING",
   "FILE_CLOSING", "FILE_CLOSED", "ABORT_FILE_CLOSING"} \cup SelectedInterval

States ==
  {"VACANT", "OBSERVER_ACQUIRING", "OBSERVED", "NAME_READING",
   "FILE_OPENING", "FAILED", "ABORTING", "OBSERVER_RELEASING", "ABORTED",
   "POISONED"} \cup FileInterval

(* States of a slot whose transaction has stopped going forward. *)
Stopped == {"FAILED", "ABORTING", "POISONED"}
Ended   == {"ABORT_FILE_CLOSING", "OBSERVER_RELEASING", "ABORTED"}

Slot ==
  [index      : 1 .. SlotCount,
   state      : States,
   request    : Requests \cup {"none"},
   observer   : {"idle", "acquiring", "held", "releasing", "released",
                 "poisoned"},
   runtime    : 0 .. RuntimeMax,   \* generation of the parent snapshot
   parentPsp  : 0 .. 2,            \* CurrentPDB of the parent snapshot
   name       : BOOLEAN,           \* executable name and owner-name patch
   file       : BOOLEAN,           \* has_file_lease
   source     : {"unused", "parameter", "parent", "none"},
   envPlan    : BOOLEAN,
   envBlock   : BOOLEAN,           \* environment.has_block
   image      : {"none", "com", "mz"},
   plan       : BOOLEAN,           \* target.allocation
   block      : BOOLEAN,           \* target.has_load_block
   resident   : {"none", "planned", "loaded"},
   relocation : {"none", "planned", "applied"},
   parent     : BOOLEAN,           \* parent.has_snapshot
   batch      : {"none", "batch", "jft"},
   psp        : BOOLEAN,
   journal    : {"uninitialized", "staging", "aborted", "sealed",
                 "poisoned"},
   staged     : BOOLEAN,           \* journal.record_count # 0
   envRebind  : BOOLEAN,
   loadRebind : BOOLEAN,
   handoff    : BOOLEAN,
   session    : BOOLEAN]           \* publication.has_backend_session

(* clear_slot_binding: what vacate_slot leaves besides the generation *)
Vacant(i) ==
  [index |-> i, state |-> "VACANT", request |-> "none", observer |-> "idle",
   runtime |-> 0, parentPsp |-> 0, name |-> FALSE, file |-> FALSE,
   source |-> "unused", envPlan |-> FALSE, envBlock |-> FALSE,
   image |-> "none", plan |-> FALSE, block |-> FALSE, resident |-> "none",
   relocation |-> "none", parent |-> FALSE, batch |-> "none", psp |-> FALSE,
   journal |-> "uninitialized", staged |-> FALSE, envRebind |-> FALSE,
   loadRebind |-> FALSE, handoff |-> FALSE, session |-> FALSE]

IsProcess(s) == s.request \in {"exec0", "exec1"}

-----------------------------------------------------------------------------
(* One rule per group of fields, in the order the C code applies them.     *)

SourceValid(s) ==
  \/ ~IsProcess(s) /\ s.source = "unused"
  \/ /\ IsProcess(s)
     /\ IF s.state \in SelectedInterval
          THEN s.source # "unused"
          ELSE s.source = "unused" \/ s.state \in Stopped \cup Ended

NameValid(s) ==
  IF ~s.name
    THEN ~s.file
    ELSE IF s.file
      THEN s.state \in FileInterval \cup Stopped
      ELSE s.state \in {"OBSERVER_RELEASING", "ABORTED", "POISONED"}

EnvironmentValid(s) ==
  \/ ~IsProcess(s) /\ ~s.envPlan /\ ~s.envBlock
  \/ /\ IsProcess(s) /\ ~s.envPlan /\ ~s.envBlock
     /\ IF s.state \in {"ENVIRONMENT_BLOCK_READY", "IMAGE_READING",
                        "IMAGE_READY"} \cup LoadInterval
          THEN s.source = "none"
          ELSE s.state \notin EnvironmentInterval
                 \cup {"ENVIRONMENT_PLANNED", "ENVIRONMENT_ALLOCATING"}
  \/ /\ IsProcess(s) /\ s.envPlan
     /\ s.state \in EnvironmentInterval \cup Stopped \cup Ended
          \cup {"ENVIRONMENT_PLANNED", "ENVIRONMENT_ALLOCATING"}
     /\ s.source # "none"
     /\ IF s.envBlock THEN s.state \in EnvironmentInterval \cup Stopped
                      ELSE s.state \notin EnvironmentInterval

ImageValid(s) ==
  IF s.image = "none"
    THEN s.state # "IMAGE_READY" /\ s.state \notin LoadInterval
    ELSE s.state \in LoadInterval \cup Stopped \cup Ended
           \cup {"IMAGE_READY", "ENVIRONMENT_LEASE_ABORTING"}

TargetValid(s) ==
  \/ ~IsProcess(s) /\ ~s.plan /\ ~s.block
  \/ /\ IsProcess(s) /\ ~s.plan /\ ~s.block
     /\ s.state \notin {"LOAD_PLANNED", "LOAD_ALLOCATING", "LOAD_LEASED",
                        "TARGET_READY", "LOAD_LEASE_ABORTING"}
  \/ /\ IsProcess(s) /\ s.plan /\ s.image # "none"
     /\ s.state \in TargetInterval \cup Stopped \cup Ended
          \cup {"ENVIRONMENT_LEASE_ABORTING"}
     /\ IF s.block
          THEN s.state \in (TargetInterval \cup Stopped)
                 \ {"LOAD_PLANNED", "LOAD_ALLOCATING"}
          ELSE s.state \notin {"TARGET_READY", "LOAD_LEASE_ABORTING"}

ResidentValid(s) ==
  IF s.resident = "none"
    THEN IsProcess(s) => s.state \notin {"PROCESS_PLANNED",
                                         "RESIDENT_LOADING",
                                         "RESIDENT_READY"}
    ELSE /\ IsProcess(s) /\ s.block /\ s.image # "none"
         /\ s.state \in ResidentInterval \cup Stopped
         /\ s.state # (IF s.resident = "loaded" THEN "PROCESS_PLANNED"
                                                ELSE "RESIDENT_READY")

RelocationValid(s) ==
  IF s.relocation = "none"
    THEN IsProcess(s) =>
           /\ s.state \notin {"RELOCATION_PLANNED", "RELOCATING"}
           /\ s.state = "IMAGE_PRIVATE" =>
                s.resident = "loaded" /\ s.image = "com"
    ELSE /\ IsProcess(s) /\ s.resident = "loaded" /\ s.image = "mz"
         /\ s.state \in RelocationInterval \cup Stopped
         /\ s.state # (IF s.relocation = "applied" THEN "RELOCATION_PLANNED"
                                                   ELSE "IMAGE_PRIVATE")

ParentValid(s) ==
  IF ~s.parent
    THEN IsProcess(s) => s.state # "PARENT_SNAPSHOT_READY"
    ELSE /\ IsProcess(s)
         /\ s.state \in ParentInterval \cup Stopped
              \cup {"LOAD_LEASE_ABORTING"}

InheritanceValid(s) ==
  CASE s.batch = "none"  -> IsProcess(s) => s.state # "SFT_RESERVED"
    [] s.batch = "batch" -> IsProcess(s) /\ s.state = "POISONED"
    [] s.batch = "jft"   -> IsProcess(s) /\
                              s.state \in SftInterval \cup Stopped
                                            \cup {"SFT_ABORTING"}

PspValid(s) ==
  IF ~s.psp
    THEN IsProcess(s) => s.state \notin PspInterval
    ELSE /\ IsProcess(s)
         /\ s.state \in PspInterval \cup Stopped
              \cup {"SFT_ABORTING", "LOAD_LEASE_ABORTING"}

PublicationValid(s) ==
  IF ~s.loadRebind /\ ~s.envRebind
    THEN ~s.handoff /\ ~s.session /\ s.state # "GLOBAL_MEMORY_READY"
    ELSE /\ IsProcess(s) /\ s.loadRebind /\ s.block
         /\ s.envRebind = s.envBlock
         /\ s.request = "exec1" => ~s.handoff /\ ~s.session
         /\ s.session => s.handoff
         /\ s.request = "exec0" =>
              s.state \in
                CASE ~s.handoff -> {"GLOBAL_MEMORY_READY",
                                    "HANDOFF_STAGING", "POISONED"}
                  [] s.handoff /\ ~s.session -> {"HANDOFF_READY",
                                    "BACKEND_PREPARING", "POISONED"}
                  [] s.session -> {"BACKEND_DORMANT", "BACKEND_RELEASING",
                                   "COMMITTING", "PUBLISHED", "POISONED"}
         /\ s.state \in {"GLOBAL_MEMORY_READY", "HANDOFF_STAGING",
                         "HANDOFF_READY", "BACKEND_PREPARING",
                         "BACKEND_DORMANT", "BACKEND_RELEASING",
                         "COMMITTING", "PUBLISHED", "POISONED"}

JournalValid(s) == (s.journal = "uninitialized") <=> ~IsProcess(s)

(* The parent snapshot of a process request. *)
SnapshotValid(s) ==
  IF IsProcess(s)
    THEN s.runtime # 0 \/ s.state \in {"OBSERVER_RELEASING", "POISONED"}
    ELSE s.runtime = 0

FileValid(s) ==
  /\ s.state \in {"OBSERVED", "NAME_READING", "FILE_OPENING",
                  "OBSERVER_RELEASING", "ABORTED"} => ~s.file
  /\ s.state \in FileInterval \cup {"ABORTING"} => s.file

ObserverValid(s) ==
  s.observer =
    CASE s.state \in {"ABORTED", "PUBLISHED"}  -> "released"
      [] s.state = "OBSERVER_RELEASING"        -> "releasing"
      [] s.state = "POISONED"                  -> "poisoned"
      [] OTHER                                 -> "held"

(* slot_has_valid_encoding *)
ValidEncoding(s) ==
  \/ s = Vacant(s.index)
  \/ /\ s.state # "VACANT" /\ s.request \in Requests
     /\ SourceValid(s) /\ NameValid(s) /\ EnvironmentValid(s)
     /\ ImageValid(s) /\ TargetValid(s) /\ ResidentValid(s)
     /\ RelocationValid(s) /\ ParentValid(s) /\ InheritanceValid(s)
     /\ PspValid(s) /\ PublicationValid(s) /\ JournalValid(s)
     /\ IF s.state = "OBSERVER_ACQUIRING"
          THEN s.runtime = 0 /\ ~s.file /\ s.observer = "acquiring"
          ELSE SnapshotValid(s) /\ FileValid(s) /\ ObserverValid(s)
=============================================================================
