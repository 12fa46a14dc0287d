---------------------------- MODULE ExecHoldings ----------------------------
(* What an EXEC holds until its child runs or is given up: the references   *)
(* the child inherits, the executable file and the execution session.       *)
EXTENDS SftRegistry, Sequences

-----------------------------------------------------------------------------
(* The file references a child inherits, taken one JFT entry at a time from *)
(* its parent before the child exists: kept when the EXEC commits, given    *)
(* back in reverse when it does not.  A batch has one holder, the EXEC, so  *)
(* the generation in its handle is left out.                                *)

CONSTANTS BatchCount,          \* DOS_SFT_BATCH_MAXIMUM
          JftMinimum           \* DOS_SFT_BATCH_JFT_ENTRIES

ASSUME BatchAssumption ==
  BatchCount \in Nat \ {0} /\ JftMinimum \in Nat \ {0}

Batches == 1 .. BatchCount
Entry == Sfns \cup {UNUSED}

BatchSlot ==
  [state : {"FREE", "PREPARING", "PREPARED", "COMMITTED", "ABORTED",
            "POISONED"},
   entries : Seq([ref : Sfns \X (0 .. SftGenerationMax),
                  acts : SUBSET {"DEVICE_OPEN", "REFERENCE_ACQUIRED"}]),
   child : [0 .. JftMinimum - 1 -> Entry]]

(* initialize_slot and recycle_slot *)
BatchIn(state) ==
  [state |-> state, entries |-> <<>>,
   child |-> [j \in 0 .. JftMinimum - 1 |-> UNUSED]]

BatchInit == [k \in Batches |-> BatchIn("FREE")]

FreeBatches(d) == {k \in Batches : d.batches[k].state = "FREE"}

SetBatch(d, k, b) == [d EXCEPT !.batches[k] = b]

-----------------------------------------------------------------------------

(* One entry's undo: the device is closed only once the reference is given  *)
(* back; what fails stays recorded.                                         *)
UndoEntry(d, entry) ==
  LET released == IF "REFERENCE_ACQUIRED" \in entry.acts
                    THEN ReferenceRelease(d, entry.ref) ELSE Result(d, "OK")
  IN  IF released.st # "OK" THEN {Result(d, "FAULT")}
      ELSE IF "DEVICE_OPEN" \notin entry.acts THEN {released}
      ELSE DeviceClose(released.d, entry.ref)

(* unwind_entries: all of them, in reverse, whatever fails *)
Unwind(d, entries) ==
  LET n == Len(entries)
      U[k \in 0 .. n] ==
        IF k = 0 THEN {Result(d, "OK")}
        ELSE UNION {{Result(u.d, IF u.st = "OK" THEN r.st ELSE "FAULT")
                       : u \in UndoEntry(r.d, entries[n + 1 - k])}
                      : r \in U[k - 1]}
  IN  U[n]

(* fail_prepare *)
FailPrepare(d, k, b) ==
  {IF r.st = "OK"
     THEN Result(SetBatch(r.d, k, BatchIn("FREE")),
                 "ADAPTER_FAULT")
     ELSE Result(SetBatch(r.d, k, [b EXCEPT !.state = "POISONED"]),
                 "POISONED")
     : r \in Unwind(d, b.entries)}

(* sft_is_inheritable *)
Inheritable(d, n) == d.sft[n].inherit

(* One JFT entry of the parent: [d, b, st] before and after *)
InheritEntry(p, n, j) ==
  LET ref    == Reference(p.d, n)
      opened == DeviceOpen(p.d, ref)
      begun  == Append(p.b.entries, [ref |-> ref, acts |-> {}])
      held   == Append(p.b.entries,
                       [ref |-> ref,
                        acts |-> {"DEVICE_OPEN", "REFERENCE_ACQUIRED"}])
  IN  IF p.st # "OK" \/ Lookup(p.d, n) = "INVALID_SFT" THEN p
      ELSE IF Lookup(p.d, n) = "FAULT" THEN [p EXCEPT !.st = "FAULT"]
      ELSE IF ~Inheritable(p.d, n) THEN p
      ELSE IF ~CanDeviceOpen(p.d, ref)
        THEN [p EXCEPT !.st = "FAULT", !.b.entries = begun]
      ELSE IF ~CanAcquire(opened, ref)
        THEN [p EXCEPT !.st = "FAULT", !.d = opened,
                       !.b.entries = Append(p.b.entries,
                          [ref |-> ref, acts |-> {"DEVICE_OPEN"}])]
      ELSE [p EXCEPT !.d = Acquire(opened, ref), !.b.entries = held,
                     !.b.child[j] = n]

(* dos_sft_batch_prepare over the first JftMinimum entries of the parent *)
PrepareBatch(d, k, table) ==
  LET b == BatchIn("PREPARING")
      P[j \in 0 .. JftMinimum] ==
        IF j = 0 THEN [d |-> d, b |-> b, st |-> "OK"]
        ELSE InheritEntry(P[j - 1], table[j - 1], j - 1)
      last == P[JftMinimum]
  IN  IF last.st = "OK"
        THEN {Result(SetBatch(last.d, k, [last.b EXCEPT !.state = "PREPARED"]),
                     "OK")}
        ELSE FailPrepare(last.d, k, last.b)

(* dos_sft_batch_commit *)
CommitBatch(d, k) == [d EXCEPT !.batches[k].state = "COMMITTED"]

(* dos_sft_batch_abort *)
AbortBatch(d, k) ==
  {Result([r.d EXCEPT !.batches[k].state =
             IF r.st = "OK" THEN "ABORTED" ELSE "POISONED"], r.st)
     : r \in Unwind(d, d.batches[k].entries)}

(* dos_sft_batch_retire *)
RetireBatch(d, k) == SetBatch(d, k, BatchIn("FREE"))

(* The references the batches hold for children that do not exist yet. *)
Held(d, n) ==
  Cardinality({x \in Batches \X (1 .. JftMinimum) :
                 /\ d.batches[x[1]].state = "PREPARED"
                 /\ x[2] \in DOMAIN d.batches[x[1]].entries
                 /\ d.batches[x[1]].entries[x[2]].ref[1] = n})

-----------------------------------------------------------------------------
(* The executable file of an EXEC: opened, probed and closed through a      *)
(* lease, over the I/O manager's adapter.  A lease has one holder, the      *)
(* EXEC, so the generation in its handle is left out.                       *)

CONSTANT FileLeaseCount            \* DOS_EXEC_FILE_LEASE_SLOT_COUNT

ASSUME FileLeaseAssumption == FileLeaseCount \in Nat \ {0}

FileLeases == 1 .. FileLeaseCount

FileLeaseSlot ==
  [state : {"VACANT", "OPEN", "PROBED", "CLOSED"},
   reader : Handles \cup {NoHandle}]

(* clear_slot_binding *)
VacantLease == [state |-> "VACANT", reader |-> NoHandle]

FileLeaseInit == [l \in FileLeases |-> VacantLease]

(* reserve_slot *)
VacantLeases(d) == {l \in FileLeases : d.leases[l].state = "VACANT"}

(* adapter_open *)
AdapterOpens(d) == {NoHandle} \cup BackendHandles(d)

(* dos_exec_file_lease_acquire: the file is open, or the slot is vacant     *)
(* again                                                                    *)
AcquireLease(d, l) ==
  {IF h = NoHandle THEN Result(d, "OPEN_FAILED")
   ELSE Result([d EXCEPT !.open = @ \cup {h},
                         !.leases[l] = [state |-> "OPEN", reader |-> h]], "OK")
     : h \in AdapterOpens(d)}

(* dos_exec_file_lease_probe_device: a file of a volume is no device *)
ProbeLease(d, l) == [d EXCEPT !.leases[l].state = "PROBED"]

(* dos_exec_file_lease_resolve_reader *)
Readable(d, l) == d.leases[l].state = "PROBED"

Finishable == {"OPEN", "PROBED"}

(* adapter_close *)
AdapterAnswers(d) ==
  {"CLOSED"} \cup IF CanFail(d) THEN {"RETAINED"} ELSE {}

(* finish_lease over adapter_close: closing twice closes once; a reader     *)
(* that is retained keeps its lease as it was                               *)
FinishLease(d, l) ==
  IF d.leases[l].state \notin Finishable THEN {Result(d, "OK")}
  ELSE {IF a = "CLOSED"
          THEN Result([d EXCEPT !.open = @ \ {d.leases[l].reader},
                                !.leases[l].state = "CLOSED",
                                !.leases[l].reader = NoHandle], "OK")
          ELSE Result(Faulty(d), "RETAINED")
          : a \in AdapterAnswers(d)}

(* dos_exec_file_lease_retire *)
RetireLease(d, l) == [d EXCEPT !.leases[l] = VacantLease]

-----------------------------------------------------------------------------
(* The table of execution sessions over the VM86 backend: prepared dormant, *)
(* made runnable when an EXEC commits, stopped and retired when the program *)
(* is gone.  A backend whose answer is uncertain poisons the whole table.   *)
(* A session has one holder at a time, so its generation is left out.       *)

CONSTANT SessionCount              \* DOS_EXEC_BACKEND_SESSION_SLOT_COUNT

ASSUME SessionAssumption == SessionCount \in Nat \ {0}

Sessions == 1 .. SessionCount

SessionState == {"VACANT", "DORMANT", "RUNNABLE", "STOPPED", "POISONED"}

SessionInit == [s \in Sessions |-> "VACANT"]

SessionsPoisoned(d) == "sessions" \in d.poison

(* reserve_slot *)
VacantSessions(d) ==
  {s \in Sessions : /\ ~SessionsPoisoned(d)
                    /\ d.sessions[s] = "VACANT"}

SetSession(d, s, state) == [d EXCEPT !.sessions[s] = state]

(* poison_slot *)
PoisonSession(d, s) ==
  [SetSession(d, s, "POISONED") EXCEPT !.poison = @ \cup {"sessions"}]

(* vm86_backend_prepare *)
PrepareAnswers == {"PREPARED", "REJECTED"}

(* dos_exec_backend_session_prepare *)
PrepareSession(d, s) ==
  {IF a = "PREPARED" THEN Result(SetSession(d, s, "DORMANT"), "OK")
                     ELSE Result(d, "REJECTED") : a \in PrepareAnswers}

(* dos_exec_backend_session_publish *)
PublishSession(d, s) == SetSession(d, s, "RUNNABLE")

(* dos_exec_backend_session_run_until_event *)
CanRun(d, s) == ~SessionsPoisoned(d) /\ d.sessions[s] = "RUNNABLE"

(* vm86_backend_release, which never retains *)
ReleaseAnswers(d) ==
  {"RELEASED"} \cup IF CanFail(d) THEN {"UNCERTAIN"} ELSE {}

(* dos_exec_backend_session_stop *)
StopSession(d, s) ==
  {IF a = "RELEASED" THEN Result(SetSession(d, s, "STOPPED"), "OK")
     ELSE Result(PoisonSession(Faulty(d), s), "POISONED")
     : a \in ReleaseAnswers(d)}

(* dos_exec_backend_session_retire *)
RetireSession(d, s) == SetSession(d, s, "VACANT")

(* stop_and_retire_backend_session *)
StopAndRetire(d, s) ==
  IF \/ SessionsPoisoned(d)
     \/ d.sessions[s] \notin {"DORMANT", "RUNNABLE", "STOPPED"}
    THEN {Result(d, "FAULT")}
  ELSE IF d.sessions[s] = "STOPPED"
    THEN {Result(RetireSession(d, s), "OK")}
  ELSE {IF r.st = "OK" THEN Result(RetireSession(r.d, s), "OK") ELSE r
          : r \in StopSession(d, s)}

=============================================================================
