----------------------------- MODULE DosProcess -----------------------------
(* DOS programs and their handles, from the command that starts one to its  *)
(* return: the driver of kernel/main.c, which runs the deepest program and  *)
(* keeps a frame for every one that waits for its child; the executor,      *)
(* which builds a child step by step and takes every step back when one     *)
(* fails; and INT 21h.  One thread does all of it, so the executor's steps  *)
(* and the driver's run in this order with nothing in between.              *)
EXTENDS Int21Handles, SequencesExt

CONSTANT ChangeMax     \* bound: AH=1Ah, 25h, 50h and 67h calls, in all
ASSUME ChangeAssumption == ChangeMax \in Nat

VARIABLES sft, open, batches, leases, sessions, arena, tables, psps,
          runtime, vectors, poison, faults,
          exec,        \* the transaction under way
          shell,       \* run_external_dos_program
          changes,     \* AH=1Ah, 25h, 50h and 67h calls so far
          strayed      \* history: a program has set another PSP

domain == <<sft, open, batches, leases, sessions, arena, tables, psps,
            runtime, vectors, poison, faults>>
vars == <<domain, exec, shell, changes, strayed>>

Now ==
  [sft |-> sft, open |-> open, batches |-> batches, leases |-> leases,
   sessions |-> sessions, arena |-> arena, tables |-> tables, psps |-> psps,
   runtime |-> runtime, vectors |-> vectors, poison |-> poison,
   faults |-> faults]

Become(d) ==
  /\ sft' = d.sft /\ open' = d.open /\ batches' = d.batches
  /\ leases' = d.leases /\ sessions' = d.sessions /\ arena' = d.arena
  /\ tables' = d.tables /\ psps' = d.psps /\ runtime' = d.runtime
  /\ vectors' = d.vectors /\ poison' = d.poison /\ faults' = d.faults

COMMAND == 1
None == 0

(* A process lives in the block that it owns itself. *)
Live == {p \in Psps : arena[p] = p}

Frame == [session : Sessions, saved : Snapshot, child : Psps]

Quiet == [at |-> "idle", child |-> None, session |-> None, visible |-> FALSE]
AtPrompt ==
  [at |-> "prompt", session |-> None, stops |-> <<>>, frames |-> <<>>,
   child |-> None,
   saved |-> [generation |-> 1, current |-> COMMAND, dta |-> COMMAND]]

TypeOK ==
  /\ sft \in [Sfns -> SftSlot] /\ open \subseteq Handles
  /\ \A k \in Batches :
       /\ batches[k].state \in {"FREE", "PREPARING", "PREPARED", "COMMITTED",
                                "ABORTED", "POISONED"}
       /\ Len(batches[k].entries) <= JftMinimum
       /\ batches[k].child \in [0 .. JftMinimum - 1 -> Entry]
  /\ leases \in [FileLeases -> FileLeaseSlot]
  /\ sessions \in [Sessions -> SessionState]
  /\ arena \in [Blocks -> Psps \cup {NoOwner}]
  /\ tables \in [Tables -> [0 .. JftMaximum - 1 -> Entry]]
  /\ psps \in [Psps -> Psp]
  /\ runtime \in Snapshot /\ vectors \in Psps
  /\ poison \subseteq {"int21", "arena", "runtime", "sessions"}
  /\ faults \in 0 .. FaultMax
  /\ exec \in [at : {"idle", "load", "close", "inherit", "backend", "seal",
                     "abort", "stranded"},
               child : Psps \cup {None}, session : Sessions \cup {None},
               visible : BOOLEAN]
  /\ shell.at \in {"prompt", "starting", "running", "stopping", "ending"}
  /\ shell.session \in Sessions \cup {None}
  /\ Len(shell.stops) <= SessionCount /\ Range(shell.stops) \subseteq Sessions
  /\ Len(shell.frames) < SessionCount /\ Range(shell.frames) \subseteq Frame
  /\ shell.child \in Psps \cup {None} /\ shell.saved \in Snapshot
  /\ changes \in 0 .. ChangeMax /\ strayed \in BOOLEAN

(* COMMAND, installed by dos_runtime_owner_initialize with CON as its only  *)
(* handle                                                                   *)
Init ==
  /\ sft = SftInit(1) /\ open = {} /\ batches = BatchInit
  /\ leases = FileLeaseInit /\ sessions = SessionInit
  /\ arena = [b \in Blocks |-> IF b = COMMAND THEN COMMAND ELSE NoOwner]
  /\ tables = [b \in Tables |-> Unused(JftMaximum)]
  /\ psps = [[p \in Psps |-> FreshPsp] EXCEPT ![COMMAND].inline[0] = 0]
  /\ runtime = [generation |-> 1, current |-> COMMAND, dta |-> COMMAND]
  /\ vectors = COMMAND /\ poison = {} /\ faults = 0
  /\ exec = Quiet /\ shell = AtPrompt
  /\ changes = 0 /\ strayed = FALSE

-----------------------------------------------------------------------------
(* The executor                                                             *)

(* goto failed: everything is taken back; visible says that the program is  *)
(* told, when that succeeds                                                 *)
Fail(visible) == exec' = [exec EXCEPT !.at = "abort", !.visible = visible]

(* dos_exec_transaction_open: the name and the file *)
ExecOpen(starting) ==
  /\ exec.at = "idle"
  /\ \E r \in AcquireLease(Now, Min(VacantLeases(Now))) :
       /\ Become(r.d)
       /\ exec' = [exec EXCEPT
                     !.at = IF r.st = "OK" THEN "load" ELSE "abort",
                     !.visible = TRUE]
  /\ shell' = starting
  /\ UNCHANGED <<changes, strayed>>

(* ... _probe, _select_environment, _prepare_environment, _inspect_image,   *)
(* _prepare_target, _load_resident and _relocate_resident: the block of the *)
(* child, which its parent owns for the time being                          *)
ExecLoad ==
  LET d == ProbeLease(Now, 1)
      free == {p \in Psps : arena[p] = NoOwner}
  IN  /\ exec.at = "load"
      /\ \/ /\ free # {} /\ "arena" \notin poison
            /\ Become([d EXCEPT !.arena[Min(free)] = runtime.current])
            /\ \/ exec' = [exec EXCEPT !.at = "close", !.child = Min(free)]
               \/ exec' = [exec EXCEPT !.at = "abort", !.child = Min(free)]
         \/ /\ free = {} \/ "arena" \in poison
            /\ Become(d)
            /\ Fail("arena" \notin poison)
      /\ UNCHANGED <<shell, changes, strayed>>

(* dos_exec_transaction_close *)
ExecClose ==
  /\ exec.at = "close"
  /\ \E r \in FinishLease(Now, 1) :
       /\ Become(r.d)
       /\ IF r.st = "OK" THEN exec' = [exec EXCEPT !.at = "inherit"]
                         ELSE Fail(FALSE)
  /\ UNCHANGED <<shell, changes, strayed>>

(* dos_process_capture_parent_snapshot: a table that lies outside the PSP   *)
(* is read there                                                            *)
ParentTable ==
  [j \in 0 .. JftMinimum - 1 |-> EntryAt(Now, runtime.current, j)]

(* dos_exec_transaction_capture_parent and _prepare_inheritance *)
ExecInherit ==
  /\ exec.at = "inherit"
  /\ \E r \in PrepareBatch(Now, 1, ParentTable) :
       CASE r.st = "OK" ->
              /\ Become(r.d) /\ exec' = [exec EXCEPT !.at = "backend"]
         [] r.st = "ADAPTER_FAULT" -> Become(r.d) /\ Fail(TRUE)
         [] OTHER -> Become(PoisonArena(r.d)) /\ Fail(FALSE)
  /\ UNCHANGED <<shell, changes, strayed>>

(* ... _prepare_psp to _prepare_backend *)
ExecBackend ==
  /\ exec.at = "backend"
  /\ IF VacantSessions(Now) = {} THEN UNCHANGED domain /\ Fail(FALSE)
     ELSE LET s == Min(VacantSessions(Now))
          IN  \E r \in PrepareSession(Now, s) :
                /\ Become(r.d)
                /\ IF r.st = "OK"
                     THEN exec' = [exec EXCEPT !.at = "seal", !.session = s]
                     ELSE Fail(FALSE)
  /\ UNCHANGED <<shell, changes, strayed>>

(* The PSP of the child *)
NewPsp ==
  [parent |-> runtime.current, vectors |-> vectors, length |-> JftMinimum,
   table |-> Inline, inline |-> batches[1].child]

(* dos_exec_transaction_seal_execute and _retire_published: what is checked *)
(* first cannot fail afterwards                                             *)
Sealed ==
  LET c  == exec.child
      d1 == [Now EXCEPT !.arena[c] = c, !.psps[c] = NewPsp]
      d2 == PublishExec(CommitBatch(d1, 1), c)
      d3 == PublishSession(d2, exec.session)
  IN  RetireBatch(RetireLease(d3, 1), 1)

ExecSeal ==
  /\ exec.at = "seal"
  /\ IF CanAdvance(Now) /\ poison \cap {"arena", "runtime"} = {}
       THEN /\ Become(Sealed)
            /\ exec' = Quiet
            /\ shell' =
                 IF shell.at = "starting"
                   THEN [shell EXCEPT !.at = "running", !.child = exec.child,
                                      !.session = exec.session]
                   ELSE [shell EXCEPT
                           !.session = exec.session,
                           !.frames = Append(@,
                              [session |-> shell.session,
                               saved |-> runtime, child |-> exec.child])]
       ELSE /\ UNCHANGED <<domain, shell>>
            /\ Fail(FALSE)
  /\ UNCHANGED <<changes, strayed>>

(* What the aborted transaction still holds is given back in reverse; what  *)
(* cannot be given back stops it.                                           *)
AbortSession(d) ==
  IF exec.session = None THEN {Result(d, "OK")}
  ELSE {IF r.st = "OK" THEN Result(RetireSession(r.d, exec.session), "OK")
                       ELSE Result(r.d, "BACKEND_POISONED")
          : r \in StopSession(d, exec.session)}

AbortInheritance(d) ==
  CASE d.batches[1].state = "PREPARED" ->
         {IF r.st = "OK" THEN Result(RetireBatch(r.d, 1), "OK")
                         ELSE Result(PoisonArena(r.d), "FAULT")
            : r \in AbortBatch(d, 1)}
    [] d.batches[1].state = "POISONED" -> {Result(d, "FAULT")}
    [] OTHER -> {Result(d, "OK")}

AbortTarget(d) ==
  IF exec.child = None THEN {Result(d, "OK")}
  ELSE FreeOwned(d, exec.child, runtime.current)

AbortLease(d) ==
  {IF r.st = "OK" THEN Result(RetireLease(r.d, 1), "OK") ELSE r
     : r \in FinishLease(d, 1)}

(* A step runs only when the ones before it succeeded. *)
AndThen(rs, Then(_)) ==
  UNION {IF r.st = "OK" THEN Then(r.d) ELSE {r} : r \in rs}

(* dos_exec_transaction_abort: a session whose end is uncertain poisons the *)
(* sessions, but the rest is given back all the same                        *)
Aborted(d) ==
  UNION {{IF r.st = "OK" THEN Result(r.d, s.st) ELSE r
            : r \in AndThen(AndThen(AbortInheritance(s.d), AbortTarget),
                            AbortLease)}
         : s \in AbortSession(d)}

(* The driver gives up: stop_session *)
Stopping(s) ==
  [s EXCEPT !.at = "stopping",
            !.stops = <<s.session>> \o
                      [i \in 1 .. Len(s.frames) |->
                         s.frames[Len(s.frames) + 1 - i].session]]

(* cleanup_failed_transaction, then the answer of the native caller or of   *)
(* dos_exec_int21_execute                                                   *)
ExecAbort ==
  /\ exec.at = "abort"
  /\ \E r \in Aborted(Now) :
       /\ Become(r.d)
       /\ exec' = IF r.st \in {"OK", "BACKEND_POISONED"} THEN Quiet
                  ELSE [exec EXCEPT !.at = "stranded"]
       /\ shell' = IF shell.at = "starting" THEN AtPrompt
                   ELSE IF r.st = "OK" /\ exec.visible THEN shell
                   ELSE Stopping(shell)
  /\ UNCHANGED <<changes, strayed>>

-----------------------------------------------------------------------------
(* The driver                                                               *)

(* A command starts a program; a transaction that is stranded refuses it. *)
Start ==
  /\ shell.at = "prompt" /\ "runtime" \notin poison
  /\ ExecOpen([shell EXCEPT !.at = "starting", !.saved = runtime])

Running ==
  /\ shell.at = "running" /\ exec.at \in {"idle", "stranded"}
  /\ "runtime" \notin poison

(* dos_personality_interrupt *)
Serviced(results) ==
  IF "int21" \in poison THEN {Result(Now, "FAULT")} ELSE Dispatch(Now, results)

(* dos_execution_step_with_exec for an event other than EXEC *)
Step(results) ==
  /\ Running /\ CanRun(Now, shell.session)
  /\ \E r \in Serviced(results) :
       /\ Become(r.d)
       /\ shell' = IF r.st = "HANDLED" THEN shell ELSE Stopping(shell)
  /\ UNCHANGED exec

Caller == runtime.current

GuestOpen ==
  /\ \E kind \in Kinds, inherit \in BOOLEAN :
       Step(Open(Now, Caller, kind, inherit))
  /\ UNCHANGED <<changes, strayed>>

GuestCreate == Step(Create(Now, Caller)) /\ UNCHANGED <<changes, strayed>>

GuestClose ==
  /\ \E j \in Named(Now, Caller) : Step(Close(Now, Caller, j))
  /\ UNCHANGED <<changes, strayed>>

GuestRead ==
  /\ \E j \in Named(Now, Caller) : Step(Read(Now, Caller, j))
  /\ UNCHANGED <<changes, strayed>>

GuestWrite ==
  /\ \E j \in Named(Now, Caller) : Step(Write(Now, Caller, j))
  /\ UNCHANGED <<changes, strayed>>

GuestSeek ==
  /\ \E j \in Named(Now, Caller) : Step(Seek(Now, Caller, j))
  /\ UNCHANGED <<changes, strayed>>

(* A call that changes the process rather than a handle *)
Change(results) ==
  /\ changes < ChangeMax
  /\ Step(results)
  /\ changes' = changes + 1

GuestResize ==
  /\ \E n \in JftMinimum .. JftMaximum :
       /\ n # psps[Caller].length
       /\ Change(SetHandleCount(Now, Caller, n))
  /\ UNCHANGED strayed

(* AH=25h *)
GuestVectors ==
  /\ vectors # Caller
  /\ Change(SetVectors(Now, Caller))
  /\ UNCHANGED strayed

(* AH=1Ah *)
GuestDta ==
  /\ runtime.dta # OwnDta
  /\ Change(SetRuntime(Now, Caller, OwnDta))
  /\ UNCHANGED strayed

(* AH=50h, for the PSP of a process that exists *)
GuestSetPsp ==
  /\ \E p \in Live \ {Caller} : Change(SetRuntime(Now, p, runtime.dta))
  /\ strayed' = TRUE

(* AH=4Bh *)
GuestExec ==
  /\ Running /\ CanRun(Now, shell.session)
  /\ IF exec.at = "idle" THEN ExecOpen(shell)
     ELSE /\ shell' = Stopping(shell)
          /\ UNCHANGED <<domain, exec, changes, strayed>>

(* The backend does not return from the guest, or what it returns is        *)
(* uncertain; the guest does what no service answers.                       *)
GuestFaults ==
  /\ shell.at = "running" /\ exec.at \in {"idle", "stranded"}
  /\ shell' = Stopping(shell)
  /\ \/ UNCHANGED domain
     \/ /\ Running /\ CanRun(Now, shell.session) /\ CanFail(Now)
        /\ Become(PoisonSession(Faulty(Now), shell.session))
  /\ UNCHANGED <<exec, changes, strayed>>

(* AH=4Ch of a program whose parent waits: dos_int21_publish_child_return   *)
(* needs a personality that is not poisoned, as did the call.               *)
Resumed(r) ==
  LET frame == Last(shell.frames)
      back  == [shell EXCEPT !.session = frame.session,
                             !.frames = Front(@)]
  IN  IF r.st = "OK" THEN back ELSE Stopping(back)

GuestExit ==
  /\ Running /\ CanRun(Now, shell.session)
  /\ poison \cap {"int21", "arena", "runtime"} = {}
  /\ IF shell.frames = <<>>
       THEN UNCHANGED domain /\ shell' = Stopping(shell)
       ELSE \E s \in StopAndRetire(Now, shell.session) :
              IF s.st # "OK" THEN Become(s.d) /\ shell' = Stopping(shell)
              ELSE \E r \in Terminate(s.d, Last(shell.frames).saved,
                                      Last(shell.frames).child) :
                     Become(r.d) /\ shell' = Resumed(r)
  /\ UNCHANGED <<exec, changes, strayed>>

(* Every session is stopped and retired, whatever fails. *)
DriverStop ==
  /\ shell.at = "stopping"
  /\ \E r \in StopAndRetire(Now, Head(shell.stops)) :
       /\ Become(r.d)
       /\ shell' = [shell EXCEPT
                      !.at = IF Len(shell.stops) = 1
                               THEN "ending" ELSE "stopping",
                      !.stops = Tail(@)]
  /\ UNCHANGED <<exec, changes, strayed>>

(* The processes are terminated from the deepest child toward COMMAND; one  *)
(* that is not ends the recovery.                                           *)
DriverEnd ==
  /\ shell.at = "ending"
  /\ IF shell.frames = <<>>
       THEN /\ \E r \in Terminate(Now, shell.saved, shell.child) : Become(r.d)
            /\ shell' = AtPrompt
       ELSE \E r \in Terminate(Now, Last(shell.frames).saved,
                               Last(shell.frames).child) :
              /\ Become(r.d)
              /\ shell' = IF r.st = "OK" THEN [shell EXCEPT !.frames = Front(@)]
                                         ELSE AtPrompt
  /\ UNCHANGED <<exec, changes, strayed>>

Next ==
  \/ Start \/ ExecLoad \/ ExecClose \/ ExecInherit \/ ExecBackend \/ ExecSeal
  \/ ExecAbort
  \/ GuestOpen \/ GuestCreate \/ GuestClose \/ GuestRead \/ GuestWrite \/ GuestSeek
  \/ GuestResize \/ GuestVectors \/ GuestDta \/ GuestSetPsp \/ GuestExec
  \/ GuestFaults \/ GuestExit
  \/ DriverStop \/ DriverEnd

Spec == Init /\ [][Next]_vars

-----------------------------------------------------------------------------

JftEntries == UNION {{<<p, j>> : j \in JftIndices(Now, p)} : p \in Live}

(* Every description counts exactly the JFT entries of the processes that   *)
(* exist and what a child under construction holds, the device opens go     *)
(* with the references, and no entry names a description that is not open:  *)
(* resizes, failed opens and EXECs and terminations neither lose one nor    *)
(* count one twice.                                                         *)
ReferencesExact ==
  \A n \in Sfns :
    LET named == Cardinality({x \in JftEntries : EntryAt(Now, x[1], x[2]) = n})
                   + Held(Now, n)
    IN  /\ named # 0 => sft[n].state = "PRESENT"
        /\ sft[n].state = "PRESENT" =>
             sft[n].references = named /\ sft[n].device_opens = named

(* Every file the backend has open belongs to one description or to the     *)
(* lease of the EXEC under way, and those only name files that are open.    *)
BackendOwned ==
  LET descriptions == {n \in Sfns : /\ sft[n].state = "PRESENT"
                                    /\ sft[n].kind # "STANDARD"}
      readers == {l \in FileLeases : leases[l].state \in {"OPEN", "PROBED"}}
  IN  \A h \in Handles :
        Cardinality({n \in descriptions : sft[n].handle = h})
          + Cardinality({l \in readers : leases[l].reader = h})
        = IF h \in open THEN 1 ELSE 0

(* Every block of memory belongs to a process that exists, and a table      *)
(* outside its PSP to the process that uses it; no table is left behind.    *)
TablesOwned ==
  /\ \A b \in Blocks : arena[b] # NoOwner => arena[b] \in Live
  /\ \A b \in Tables :
       \A p \in Live : psps[p].table = b <=> arena[b] = p

(* Unless a part of the domain has been poisoned, its books are in order. *)
BooksBalance ==
  poison = {} => ReferencesExact /\ BackendOwned /\ TablesOwned

AtRest ==
  shell.at = "prompt" /\ exec.at = "idle" /\ poison = {} /\ faults = 0

OnlyCommand ==
  /\ Live = {COMMAND} /\ vectors = COMMAND
  /\ runtime.current = COMMAND /\ runtime.dta = COMMAND
  /\ \A s \in Sessions : sessions[s] = "VACANT"

(* When no part has failed and no program has used AH=50h to become another *)
(* process, COMMAND is back after every program as it was: it is the only   *)
(* process, CurrentPDB, the DTA and the handlers are its own, and no        *)
(* session is left.                                                         *)
Restored == AtRest /\ ~strayed => OnlyCommand

TableOf(p) ==
  [j \in 0 .. JftMaximum - 1 |->
     IF j \in JftIndices(Now, p) THEN EntryAt(Now, p, j) ELSE UNUSED]

OpenSfns == {n \in Sfns : sft[n].state = "PRESENT"}

(* The handles of the processes and the cursors behind them do what         *)
(* OpenFiles says: moving a table, an EXEC that fails and what other        *)
(* processes do to their handles changes none of them.                      *)
Promise ==
  INSTANCE OpenFiles WITH
    Process <- Psps, Handle <- 0 .. JftMaximum - 1,
    Inherited <- 0 .. JftMinimum - 1,
    Description <- Sfns, Nothing <- UNUSED,
    table <- IF poison = {} THEN [p \in Live |-> TableOf(p)] ELSE <<>>,
    cursor <- IF poison = {} THEN [n \in OpenSfns |-> sft[n].position]
                             ELSE <<>>,
    inherit <- IF poison = {} THEN {n \in OpenSfns : sft[n].inherit} ELSE {},
    lost <- poison # {}

KeepsHandles == Promise!Spec

=============================================================================
