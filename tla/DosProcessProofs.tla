---------------------------- MODULE DosProcessProofs ----------------------------
(***************************************************************************)
(* DOS processes and their handles, for every number of processes,         *)
(* handles, descriptions, sessions and failures: types, the books of the   *)
(* domain, and that COMMAND is back after every program.                   *)
(*                                                                         *)
(* The three are not inductive: they do not say what a stage of EXEC may   *)
(* rely on, which sessions are whose, nor who waits for whom.  The         *)
(* inductive invariant adds that: what each stage finds (StageHeld,        *)
(* ChildHeld), that the sessions of the programs and of the EXEC are       *)
(* different ones (SessionsHeld), that whoever is to be restored exists    *)
(* (WaitingLive), and, while nothing failed, that the programs form a line *)
(* from COMMAND, each the parent of the next (Line).                       *)
(***************************************************************************)
EXTENDS DosBooksProofs

ShellRecord ==
  [at : {"prompt", "starting", "running", "stopping", "ending"},
   session : Sessions \cup {None}, stops : Seq(Sessions), frames : Seq(Frame),
   child : Psps \cup {None}, saved : Snapshot]

-----------------------------------------------------------------------------
(* The transaction x under way and the programs h that wait, in a domain d. *)

(* What a stage of EXEC finds, poisoned or not *)
StageHeld(d, x, h) ==
  /\ \A l \in FileLeases \ {1} : d.leases[l] = VacantLease
  /\ \A k \in Batches \ {1} : d.batches[k].state = "FREE"
  /\ x.at = "idle" => x = Quiet /\ d.leases[1] = VacantLease
  /\ x.at = "load" => d.leases[1].state = "OPEN"
  /\ x.at = "close" => d.leases[1].state = "PROBED"
  /\ x.at \in {"inherit", "backend", "seal"} => d.leases[1].state = "CLOSED"
  /\ x.at \in {"close", "inherit", "backend", "seal"} => x.child # None
  /\ x.at = "load" => x.child = None
  /\ x.at \in {"load", "close", "inherit", "backend"} => x.session = None
  /\ x.at = "seal" => x.session # None
  /\ x.at \notin {"idle", "stranded"} => h.at \in {"starting", "running"}
  /\ x.at = "stranded" => h.at \in {"prompt", "stopping", "ending"}

ShellHeld(x, h) ==
  /\ h.at = "prompt" => h = AtPrompt
  /\ h.at = "starting" =>
       /\ x.at # "idle" /\ h.frames = <<>> /\ h.session = None
       /\ h.child = None /\ h.stops = <<>>
  /\ h.at \in {"running", "stopping", "ending"} => h.child # None
  /\ h.at = "running" => h.session # None /\ h.stops = <<>>
  /\ h.at = "stopping" => h.stops # <<>>
  /\ Len(h.stops) <= SessionCount /\ Len(h.frames) < SessionCount

(* The sessions of the program that runs, of those that wait and of the    *)
(* EXEC under way are different ones, and none is vacant.                  *)
Depth(h) == Len(h.frames)
SessionOf(h, i) == IF i = Depth(h) + 1 THEN h.session ELSE h.frames[i].session
SessionsHeld(d, x, h) ==
  /\ h.at = "running" =>
       /\ \A i, k \in 1 .. Depth(h) + 1 :
            SessionOf(h, i) = SessionOf(h, k) => i = k
       /\ \A i \in 1 .. Depth(h) + 1 :
            SessionOf(h, i) # x.session /\ d.sessions[SessionOf(h, i)] # "VACANT"
  /\ x.session # None /\ x.at # "stranded" => d.sessions[x.session] # "VACANT"

(* The program at depth i and what is to be restored when it ends *)
Child(h, i) == IF i = 0 THEN h.child ELSE h.frames[i].child
Saved(h, i) == IF i = 0 THEN h.saved ELSE h.frames[i].saved

(* Whoever waits exists, and no deeper program is the one that is to be    *)
(* restored.                                                               *)
WaitingLive(d, h) ==
  /\ d.runtime.current \in LiveOf(d)
  /\ h.at # "prompt" =>
       \A i \in 0 .. Depth(h) :
         /\ Saved(h, i).current \in LiveOf(d)
         /\ h.at # "starting" =>
              \A k \in i .. Depth(h) : Child(h, k) # Saved(h, i).current

(* The sessions in use: those of the programs until they are stopped *)
InUse(h) ==
  CASE h.at = "running" -> {SessionOf(h, i) : i \in 1 .. Depth(h) + 1}
    [] h.at = "stopping" -> {h.stops[i] : i \in 1 .. Len(h.stops)}
    [] OTHER -> {}

(* When nothing has failed and nobody strayed: the programs form a line    *)
(* from COMMAND, each the parent of the next, and the last one is current. *)
Line(d, h) ==
  /\ LiveOf(d) = {COMMAND} \cup {Child(h, i) : i \in 0 .. Depth(h)}
  /\ \A i \in 0 .. Depth(h) :
       /\ Child(h, i) # COMMAND
       /\ \A k \in 0 .. Depth(h) : Child(h, i) = Child(h, k) => i = k
       /\ Saved(h, i).current = IF i = 0 THEN COMMAND ELSE Child(h, i - 1)
       /\ d.psps[Child(h, i)].parent = Saved(h, i).current
       /\ Saved(h, i).generation < d.runtime.generation
  /\ Saved(h, 0).dta = COMMAND /\ d.psps[Child(h, 0)].vectors = COMMAND
  /\ d.runtime.current = Child(h, Depth(h))

Alone(d) ==
  /\ LiveOf(d) = {COMMAND} /\ d.vectors = COMMAND
  /\ d.runtime.current = COMMAND /\ d.runtime.dta = COMMAND

Programs(d, h) ==
  /\ h.at = "prompt" => Alone(d)
  /\ h.at = "starting" => Alone(d) /\ h.saved = d.runtime
  /\ h.at \in {"running", "stopping", "ending"} => Line(d, h)

SessionsUsed(d, x, h) ==
  /\ \A s \in Sessions :
       d.sessions[s] = IF s \in InUse(h) THEN "RUNNABLE"
                       ELSE IF s = x.session THEN "DORMANT" ELSE "VACANT"
  /\ h.at = "stopping" =>
       \A i, k \in 1 .. Len(h.stops) : h.stops[i] = h.stops[k] => i = k

TypeInv(d, x, h) ==
  /\ d \in Domain /\ x \in ExecRecord /\ h \in ShellRecord
  /\ StageHeld(d, x, h) /\ ShellHeld(x, h) /\ SessionsHeld(d, x, h)

SoundInv(d, x, h) == Books(d) /\ ChildHeld(d, x) /\ WaitingLive(d, h)

Inv(d, x, h, y) ==
  /\ TypeInv(d, x, h)
  /\ d.poison = {} => SoundInv(d, x, h)
  /\ d.poison = {} /\ d.faults = 0 /\ ~y /\ x.at # "stranded" =>
       Programs(d, h) /\ SessionsUsed(d, x, h)

IndInv ==
  /\ Inv(Now, exec, shell, strayed)
  /\ changes \in 0 .. ChangeMax /\ strayed \in BOOLEAN

-----------------------------------------------------------------------------
(* Steps of the whole system.                                              *)

(* The variables become the parts of a domain. *)
LEMMA Became ==
  ASSUME NEW d \in Domain, Become(d)
  PROVE  Now' = d
BY DEF Now, Become, Domain

Safe(d, x, h) == TypeInv(d, x, h) /\ (d.poison = {} => SoundInv(d, x, h))
Calm(d, x, h) == Programs(d, h) /\ SessionsUsed(d, x, h)

(* A step from d, x and h to e, u and g *)
Goes(d, x, h, e, u, g) ==
  /\ Safe(e, u, g) /\ Later(d, e)
  /\ x.at = "stranded" => u.at = "stranded"
  /\ e.poison = {} /\ e.faults = 0 /\ u.at # "stranded" /\ Calm(d, x, h) =>
       Calm(e, u, g)

(* Such a step keeps the invariant. *)
LEMMA GoesOn ==
  ASSUME IndInv, Goes(Now, exec, shell, Now', exec', shell'),
         strayed => strayed', changes' \in 0 .. ChangeMax, strayed' \in BOOLEAN
  PROVE  IndInv'
<1>1. Safe(Now', exec', shell') /\ Later(Now, Now')
  BY DEF Goes
<1>4. ASSUME Now'.poison = {}, Now'.faults = 0, ~strayed', exec'.at # "stranded"
      PROVE  Programs(Now', shell') /\ SessionsUsed(Now', exec', shell')
  BY <1>1, Parts, <1>4 DEF Later, Goes, IndInv, Inv, Calm, Safe, TypeInv
<1> QED
  BY <1>1, <1>4 DEF IndInv, Inv, Safe

(* The invariant says that the system is safe. *)
LEMMA NowSafe ==
  ASSUME IndInv
  PROVE  Safe(Now, exec, shell) /\ Now \in Domain /\ exec \in ExecRecord
         /\ shell \in ShellRecord
BY DEF IndInv, Inv, Safe, TypeInv

-----------------------------------------------------------------------------
(* The programs that run and wait.                                         *)

(* A shell and the sessions of its programs *)
LEMMA ShellTyped ==
  ASSUME NEW h \in ShellRecord
  PROVE  /\ Depth(h) \in Nat /\ h.frames \in Seq(Frame) /\ h.stops \in Seq(Sessions)
         /\ \A i \in 1 .. Depth(h) : /\ h.frames[i] \in Frame
                                     /\ h.frames[i].session \in Sessions
                                     /\ h.frames[i].saved \in Snapshot
                                     /\ h.frames[i].child \in Psps
         /\ h.session # None => \A i \in 1 .. Depth(h) + 1 : SessionOf(h, i) \in Sessions
         /\ h.child # None => \A i \in 0 .. Depth(h) : Child(h, i) \in Psps
         /\ \A i \in 0 .. Depth(h) : Saved(h, i) \in Snapshot
<1>1. h.frames \in Seq(Frame) /\ h.stops \in Seq(Sessions) /\ h.saved \in Snapshot
      /\ h.session \in Sessions \cup {None} /\ h.child \in Psps \cup {None}
  BY DEF ShellRecord
<1>2. PICK m \in Nat : m = Depth(h)
  BY <1>1 DEF Depth
<1>3. \A i \in 1 .. m : h.frames[i] \in Frame
  BY <1>1, <1>2 DEF Depth
<1> QED
  BY <1>1, <1>2, <1>3 DEF SessionOf, Child, Saved, Frame

(* Only the frames, the child and what is saved decide who waits. *)
LEMMA SameWaiting ==
  ASSUME NEW h, NEW g, g.frames = h.frames, g.child = h.child, g.saved = h.saved
  PROVE  /\ Depth(g) = Depth(h)
         /\ \A i : Child(g, i) = Child(h, i) /\ Saved(g, i) = Saved(h, i)
         /\ g.session = h.session => \A i : SessionOf(g, i) = SessionOf(h, i)
BY DEF Depth, Child, Saved, SessionOf

(* stop_session: the driver gives up *)
LEMMA StoppingIs ==
  ASSUME NEW h \in ShellRecord, h.session # None, Depth(h) < SessionCount,
         NEW g, g = Stopping(h)
  PROVE  /\ g \in ShellRecord /\ g.at = "stopping" /\ g.session = h.session
         /\ g.frames = h.frames /\ g.child = h.child /\ g.saved = h.saved
         /\ Len(g.stops) = Depth(h) + 1 /\ g.stops # <<>>
         /\ \A i \in 1 .. Depth(h) + 1 : g.stops[i] = SessionOf(h, Depth(h) + 2 - i)
<1>1. PICK m \in Nat : m = Depth(h)
  BY ShellTyped
<1>2. PICK q : q = [i \in 1 .. m |-> h.frames[m + 1 - i].session]
  OBVIOUS
<1>3. \A i \in 1 .. m : m + 1 - i \in 1 .. m /\ h.frames[m + 1 - i].session \in Sessions
  BY <1>1, ShellTyped
<1>5. q \in Seq(Sessions) /\ Len(q) = m
  BY <1>2, <1>3
<1>7. PICK w : w = <<h.session>>
  OBVIOUS
<1>8. w \in Seq(Sessions) /\ Len(w) = 1 /\ w[1] = h.session
  BY <1>7 DEF ShellRecord
<1>8a. PICK v \in Seq(Sessions) : v = w
  BY <1>8
<1>8b. PICK y \in Seq(Sessions) : y = q
  BY <1>5
<1>9. PICK z : z = v \o y
  OBVIOUS
<1>9a. Len(v) = 1 /\ v[1] = h.session /\ Len(y) = m
  BY <1>5, <1>8, <1>8a, <1>8b
<1>9b. /\ z \in Seq(Sessions) /\ Len(z) = Len(v) + Len(y)
       /\ \A i \in 1 .. Len(v) + Len(y) :
            z[i] = IF i <= Len(v) THEN v[i] ELSE y[i - Len(v)]
  BY <1>9, ConcatProperties
<1>10. z \in Seq(Sessions) /\ Len(z) = m + 1
  BY <1>9a, <1>9b
<1>11. ASSUME NEW i \in 1 .. m + 1
       PROVE  z[i] = SessionOf(h, m + 2 - i)
  <2>1. CASE i = 1
    BY <1>9a, <1>9b, <2>1, <1>1 DEF SessionOf
  <2>2. CASE i # 1
    <3>2. z[i] = q[i - 1]
      BY <1>8b, <1>9a, <1>9b, <2>2
    <3> QED
      BY <1>1, <2>2, <3>2, <1>2 DEF SessionOf
  <2> QED
    BY <2>1, <2>2
<1>13. /\ g \in ShellRecord /\ g.at = "stopping" /\ g.session = h.session
       /\ g.frames = h.frames /\ g.child = h.child /\ g.saved = h.saved /\ g.stops = z
  BY <1>10, <1>1, <1>2, <1>7, <1>8a, <1>8b, <1>9 DEF ShellRecord, Stopping, Depth
<1> QED
  BY <1>1, <1>10, <1>11, <1>13

(* Whoever is the child of whom stays so. *)
Alike(d, e) ==
  /\ LiveOf(e) = LiveOf(d)
  /\ \A p \in LiveOf(d) : /\ e.psps[p].parent = d.psps[p].parent
                          /\ e.psps[p].vectors = d.psps[p].vectors
  /\ e.runtime.current = d.runtime.current
  /\ d.runtime.generation <= e.runtime.generation

(* Then the line of programs is the same. *)
LEMMA LineSame ==
  ASSUME NEW d \in Domain, NEW e \in Domain, Alike(d, e), NEW h \in ShellRecord,
         Line(d, h)
  PROVE  Line(e, h)
<1>1. /\ d.runtime.generation \in Nat /\ e.runtime.generation \in Nat
      /\ \A i \in 0 .. Depth(h) : Saved(h, i).generation \in Nat
  BY Parts, ShellTyped DEF Snapshot
<1>2. \A i \in 0 .. Depth(h) : Child(h, i) \in LiveOf(d)
  BY DEF Line
<1>4. ASSUME NEW i \in 0 .. Depth(h)
      PROVE  /\ e.psps[Child(h, i)].parent = Saved(h, i).current
             /\ Saved(h, i).generation < e.runtime.generation
  BY <1>1, <1>2 DEF Line, Alike
<1> QED
  BY <1>4, <1>2, ShellTyped DEF Line, Alike

(* What the driver's own state decides, when only at and stops change *)
LEMMA LineShell ==
  ASSUME NEW d, NEW h, NEW g, g.frames = h.frames, g.child = h.child,
         g.saved = h.saved, Line(d, h)
  PROVE  Line(d, g)
BY SameWaiting DEF Line

(* Programs that wait still do. *)
LEMMA ProgramsSame ==
  ASSUME NEW d \in Domain, NEW e \in Domain, Alike(d, e), NEW h \in ShellRecord,
         SameRuntime(d, e) \/ h.at \in {"running", "stopping", "ending"}
  PROVE  /\ WaitingLive(d, h) => WaitingLive(e, h)
         /\ Programs(d, h) => Programs(e, h)
<1> QED
  BY LineSame DEF Programs, SameRuntime, Alone, Alike, WaitingLive

(* The sessions in use are those that are to be stopped. *)
LEMMA StoppingKept ==
  ASSUME NEW h \in ShellRecord, h.at = "running", NEW x, ShellHeld(x, h),
         NEW g, g = Stopping(h)
  PROVE  /\ g \in ShellRecord /\ g.at = "stopping" /\ ShellHeld(x, g)
         /\ g.frames = h.frames /\ g.child = h.child /\ g.saved = h.saved
         /\ InUse(g) = InUse(h)
         /\ (\A i, k \in 1 .. Depth(h) + 1 : SessionOf(h, i) = SessionOf(h, k) => i = k)
              => \A i, k \in 1 .. Len(g.stops) : g.stops[i] = g.stops[k] => i = k
<1>1. /\ h.session # None /\ h.child # None /\ Depth(h) < SessionCount
      /\ SessionCount \in Nat
  BY SessionAssumption DEF ShellHeld, Depth
<1>2. PICK m \in Nat : m = Depth(h)
  BY ShellTyped
<1>3. /\ g \in ShellRecord /\ g.at = "stopping" /\ g.session = h.session
      /\ g.frames = h.frames /\ g.child = h.child /\ g.saved = h.saved
      /\ Len(g.stops) = m + 1 /\ g.stops # <<>>
      /\ \A i \in 1 .. m + 1 : g.stops[i] = SessionOf(h, m + 2 - i)
  BY <1>1, <1>2, StoppingIs
<1>5. \A i \in 1 .. m + 1 : m + 2 - i \in 1 .. m + 1 /\ m + 2 - (m + 2 - i) = i
  OBVIOUS
<1>6. InUse(g) = InUse(h)
  <2>1. InUse(h) = {SessionOf(h, i) : i \in 1 .. m + 1}
    BY <1>2 DEF InUse
  <2>2. InUse(g) = {g.stops[i] : i \in 1 .. m + 1}
    BY <1>3 DEF InUse
  <2>3. \A i \in 1 .. m + 1 : g.stops[i] \in InUse(h)
    BY <1>3, <1>5, <2>1
  <2>4. ASSUME NEW i \in 1 .. m + 1
        PROVE  SessionOf(h, i) \in InUse(g)
    BY <1>5, <1>3, <2>2
  <2> QED
    BY <2>1, <2>2, <2>3, <2>4
<1>7. ASSUME \A i, k \in 1 .. m + 1 : SessionOf(h, i) = SessionOf(h, k) => i = k,
             NEW i \in 1 .. m + 1, NEW k \in 1 .. m + 1, g.stops[i] = g.stops[k]
      PROVE  i = k
  BY <1>3, <1>5, <1>7
<1> QED
  BY <1>2, <1>3, <1>1, <1>6, <1>7 DEF ShellHeld, Depth

(* What a service, or a guest that fails, may do *)
Guested(d, e) ==
  /\ e \in Domain /\ e.batches = d.batches /\ e.leases = d.leases /\ Later(d, e)
  /\ \A s \in Sessions : \/ e.sessions[s] = d.sessions[s]
                         \/ e.sessions[s] # "VACANT" /\ e.poison # {}
  /\ \A b \in Psps : e.arena[b] = d.arena[b]
  /\ \A q \in Psps : d.arena[q] # NoOwner =>
       e.psps[q].parent = d.psps[q].parent /\ e.psps[q].vectors = d.psps[q].vectors
  /\ Books(d) /\ e.poison = {} => Books(e)
  /\ d.runtime.current \in LiveOf(d) => e.runtime.current \in LiveOf(d)

SameWho(d, e) == /\ e.runtime.current = d.runtime.current
                 /\ d.runtime.generation <= e.runtime.generation

(* The program goes on, or the driver gives up. *)
LEMMA GuestGoes ==
  ASSUME NEW d \in Domain, NEW x, NEW h, Safe(d, x, h), h.at = "running",
         x.at \in {"idle", "stranded"}, NEW e, Guested(d, e),
         NEW g, g \in {h, Stopping(h)}
  PROVE  /\ Safe(e, x, g) /\ Later(d, e)
         /\ SameWho(d, e) => Goes(d, x, h, e, x, g)
<1>1. /\ h \in ShellRecord /\ x \in ExecRecord /\ StageHeld(d, x, h)
      /\ ShellHeld(x, h) /\ SessionsHeld(d, x, h)
  BY DEF Safe, TypeInv
<1>2. x.at = "idle" /\ x = Quiet /\ d.leases[1] = VacantLease
  BY <1>1 DEF StageHeld
<1>3. x.session = None /\ x.child = None /\ x.at = "idle"
  BY <1>2 DEF Quiet
<1>4. /\ e \in Domain /\ e.batches = d.batches /\ e.leases = d.leases /\ Later(d, e)
  BY DEF Guested
<1>5. LiveOf(e) = LiveOf(d)
  BY DEF Guested, LiveOf
<1>6. /\ g \in ShellRecord /\ g.at \in {"running", "stopping"} /\ ShellHeld(x, g)
      /\ g.frames = h.frames /\ g.child = h.child /\ g.saved = h.saved
      /\ InUse(g) = InUse(h)
      /\ g.at = "running" => g = h
      /\ g.at = "stopping" => g = Stopping(h)
  BY <1>1, StoppingKept
<1>10. TypeInv(e, x, g)
  BY <1>1, <1>4, <1>6, <1>2, <1>3, ShellTyped
  DEF TypeInv, StageHeld, SessionsHeld, Guested, ShellHeld
<1>11. ASSUME e.poison = {}
       PROVE  SoundInv(e, x, g)
  BY <1>4, <1>11, <1>3, <1>5, <1>6, SameWaiting
  DEF Later, Safe, SoundInv, Guested, ChildHeld, WaitingLive
<1>13. ASSUME SameWho(d, e), e.poison = {}, Calm(d, x, h)
       PROVE  Calm(e, x, g)
  BY Numbers, <1>5, <1>13, <1>1, <1>4, LineSame, <1>6, LineShell, StoppingKept
  DEF LiveOf, Alike, SameWho, Guested, Calm, Programs, SessionsHeld, SessionsUsed
<1> QED
  BY <1>3, <1>4, <1>10, <1>11, <1>13 DEF Goes, Safe

(* A step of a handle is one of these. *)
LEMMA KeptGuested ==
  ASSUME NEW d \in Domain, NEW e, Kept(d, e)
  PROVE  Guested(d, e) /\ SameWho(d, e)
<1> QED
  BY Parts DEF HandleStep, Guested, SameWho, SameExec, SameRuntime, Kept, Snapshot

-----------------------------------------------------------------------------
(* The program that runs.                                                  *)

(* The parts of Now *)
LEMMA NowIs ==
  /\ Now.sft = sft /\ Now.open = open /\ Now.batches = batches
  /\ Now.leases = leases /\ Now.sessions = sessions /\ Now.arena = arena
  /\ Now.tables = tables /\ Now.psps = psps /\ Now.runtime = runtime
  /\ Now.vectors = vectors /\ Now.poison = poison /\ Now.faults = faults
BY DEF Now

(* dos_personality_interrupt: a service answers only in a domain in which  *)
(* nothing is poisoned.                                                    *)
LEMMA ServicedIs ==
  ASSUME IndInv, Running, CanRun(Now, shell.session), NEW rs, NEW r \in Serviced(rs)
  PROVE  (r \in rs /\ Now.poison = {}) \/ Kept(Now, r.d)
<1>1. Now \in Domain
  BY NowSafe
<1>4. CASE r = Result(Now, "FAULT")
  BY <1>1, <1>4, HandleStays DEF Result
<1>5. CASE r = Poisoned(Now)
  BY <1>1, HandleStays, <1>5, PoisonedKept DEF Kept
<1>6. CASE r \in rs /\ Now.poison \cap {"int21", "arena", "runtime"} = {}
  BY <1>1, Parts, NowIs, <1>6 DEF Poisons, CanRun, SessionsPoisoned
<1> QED
  BY <1>4, <1>5, <1>6 DEF Serviced, Dispatch

(* The caller of a service exists. *)
LEMMA CallerLives ==
  ASSUME IndInv
  PROVE  /\ Caller \in Psps /\ Caller = Now.runtime.current
         /\ Now.poison = {} => Caller \in LiveOf(Now) /\ Books(Now)
<1> QED
  BY NowSafe, NowIs, Parts DEF Snapshot, Safe, SoundInv, WaitingLive, Caller

(* The end of a step of the guest *)
LEMMA GuestEnd ==
  ASSUME IndInv, shell.at = "running", exec.at \in {"idle", "stranded"},
         NEW e, Guested(Now, e), Become(e), exec' = exec,
         shell' \in {shell, Stopping(shell)}
  PROVE  /\ Now' = e /\ Safe(Now', exec', shell') /\ Later(Now, Now')
         /\ SameWho(Now, e) => Goes(Now, exec, shell, Now', exec', shell')
<1>4. PICK g : g = shell'
  OBVIOUS
<1> QED
  BY Became, <1>4, NowSafe, GuestGoes DEF Guested

(* A service that keeps the books *)
LEMMA ServiceEnd ==
  ASSUME IndInv, Running, NEW e, Kept(Now, e), Become(e), exec' = exec,
         shell' \in {shell, Stopping(shell)}
  PROVE  Goes(Now, exec, shell, Now', exec', shell')
<1> QED
  BY NowSafe, KeptGuested, GuestEnd DEF Running

(* AH=3Dh and AH=3Ch *)
LEMMA OpenGoes ==
  ASSUME IndInv, GuestOpen \/ GuestCreate
  PROVE  IndInv'
<1>1. PICK kind \in Kinds, inherit \in BOOLEAN : Step(Open(Now, Caller, kind, inherit))
  BY DEF GuestOpen, GuestCreate, Create, Kinds
<1>2. PICK r \in Serviced(Open(Now, Caller, kind, inherit)) :
        /\ Become(r.d)
        /\ shell' = IF r.st = "HANDLED" THEN shell ELSE Stopping(shell)
  BY <1>1 DEF Step
<1> QED
  BY <1>2, <1>1, NowSafe, CallerLives, OpenKept, ServicedIs, ServiceEnd, GoesOn
  DEF IndInv, Step, GuestOpen, GuestCreate

(* AH=3Eh *)
LEMMA CloseGoes ==
  ASSUME IndInv, GuestClose
  PROVE  IndInv'
<1>1. PICK j \in Named(Now, Caller) : Step(Close(Now, Caller, j))
  BY DEF GuestClose
<1>2. PICK r \in Serviced(Close(Now, Caller, j)) :
        /\ Become(r.d)
        /\ shell' = IF r.st = "HANDLED" THEN shell ELSE Stopping(shell)
  BY <1>1 DEF Step
<1> QED
  BY <1>2, <1>1, NowSafe, CallerLives, CloseKept, ServicedIs, ServiceEnd, GoesOn
  DEF IndInv, Step, GuestClose

(* AH=3Fh, 40h and 42h *)
LEMMA TransferGoes ==
  ASSUME IndInv, GuestRead \/ GuestWrite \/ GuestSeek
  PROVE  IndInv'
<1>1. PICK j \in Named(Now, Caller) :
        \/ Step(Read(Now, Caller, j)) \/ Step(Write(Now, Caller, j))
        \/ Step(Seek(Now, Caller, j))
  BY DEF GuestRead, GuestWrite, GuestSeek
<1>2. PICK r :
        /\ \/ r \in Serviced(Read(Now, Caller, j)) \/ r \in Serviced(Write(Now, Caller, j))
           \/ r \in Serviced(Seek(Now, Caller, j))
        /\ Become(r.d)
        /\ shell' = IF r.st = "HANDLED" THEN shell ELSE Stopping(shell)
  BY <1>1 DEF Step
<1> QED
  BY <1>2, <1>1, NowSafe, CallerLives, TransferKept, ServicedIs, ServiceEnd, GoesOn
  DEF IndInv, GuestRead, GuestWrite, GuestSeek, Step

(* A call that is counted *)
LEMMA Changed ==
  ASSUME IndInv, changes < ChangeMax, changes' = changes + 1
  PROVE  changes' \in 0 .. ChangeMax
BY ChangeAssumption DEF IndInv

(* AH=67h *)
LEMMA ResizeGoes ==
  ASSUME IndInv, GuestResize
  PROVE  IndInv'
<1>1. PICK n \in JftMinimum .. JftMaximum : Change(SetHandleCount(Now, Caller, n))
  BY DEF GuestResize
<1>2. PICK r \in Serviced(SetHandleCount(Now, Caller, n)) :
        /\ Become(r.d)
        /\ shell' = IF r.st = "HANDLED" THEN shell ELSE Stopping(shell)
  BY <1>1 DEF Step, Change
<1> QED
  BY <1>2, <1>1, NowSafe, CallerLives, HandleCountKept, ServicedIs, ServiceEnd, Changed,
     GoesOn DEF IndInv, GuestResize, Change, Step

(* Nothing that the books are about changes. *)
LEMMA BooksKept ==
  ASSUME NEW d \in Domain, NEW e \in Domain, SameFiles(d, e), SameMemory(d, e),
         e.batches = d.batches, e.leases = d.leases
  PROVE  Books(d) => Books(e)
BY BooksSame, LedgerFiles DEF Books

(* set_runtime_current_psp and dispatch_set_dta *)
LEMMA SetRuntimeIs ==
  ASSUME NEW d \in Domain, NEW c \in Psps, NEW t \in {OwnDta} \cup Psps,
         c \in LiveOf(d) \/ c = d.runtime.current, NEW r \in SetRuntime(d, c, t)
  PROVE  Guested(d, r.d) /\ (c = d.runtime.current => SameWho(d, r.d))
<1>1. d.runtime.generation \in Nat /\ d.faults \in Nat /\ d.poison \in Poisons
  BY Parts DEF Snapshot
<1>2. CASE CanAdvance(d)
  BY <1>2, RestoreIs, BooksKept, <1>1
  DEF SetRuntime, Handled, Result, SameExec, Guested, SameWho, SameMemory, SameHealth,
      Later
<1>3. CASE ~CanAdvance(d)
  <2>1. PICK y, z \in Poisons : y = {"runtime"} /\ z = {"int21"}
    BY DEF Poisons
  <2>2. PICK e : e = [d EXCEPT !.poison = d.poison \cup y]
    OBVIOUS
  <2>3. /\ e \in Domain /\ e.poison = d.poison \cup y /\ e.faults = d.faults
        /\ SameFiles(d, e) /\ SameExec(d, e) /\ SameMemory(d, e) /\ SameRuntime(d, e)
    BY <2>2, WithPoison
  <2>3b. PICK f : f = [e EXCEPT !.poison = e.poison \cup z]
    OBVIOUS
  <2>5. r.d = f
    BY <1>3, <2>1, <2>2, <2>3b DEF SetRuntime, Poisoned, Result
  <2> QED
    BY <1>1, <2>3, <2>3b, WithPoison, <2>5, <2>1
    DEF Guested, SameWho, SameExec, SameMemory, SameRuntime, Later
<1> QED
  BY <1>2, <1>3

(* dispatch_set_interrupt_vector *)
LEMMA SetVectorsIs ==
  ASSUME NEW d \in Domain, NEW c \in Psps, NEW r \in SetVectors(d, c)
  PROVE  Guested(d, r.d) /\ SameWho(d, r.d)
<1>1. PICK e : e = [d EXCEPT !.vectors = c]
  OBVIOUS
<1>2. /\ e \in Domain /\ SameFiles(d, e) /\ SameExec(d, e) /\ SameMemory(d, e)
      /\ SameHealth(d, e) /\ e.runtime = d.runtime
  BY <1>1, Parts DEF Domain, SameFiles, SameExec, SameMemory, SameHealth
<1>3. PICK q \in Replace(d, e) : r.d = q.d \/ r = Poisoned(q.d)
  BY <1>1 DEF SetVectors, Handled, Result
<1>4. PICK x \in {d, e} : q.d = x \/ (CanFail(x) /\ q.d = Faulty(x))
  BY <1>2, <1>3 DEF Replace, Result, CanFail, SameHealth
<1>5. /\ x \in Domain /\ SameFiles(d, x) /\ SameExec(d, x) /\ SameMemory(d, x)
      /\ SameHealth(d, x) /\ x.runtime = d.runtime
  BY <1>2, <1>4 DEF SameFiles, SameExec, SameMemory, SameHealth
<1>6. /\ q.d \in Domain /\ SameFiles(d, q.d) /\ SameExec(d, q.d) /\ SameMemory(d, q.d)
      /\ Later(d, q.d) /\ q.d.runtime = d.runtime
  BY <1>4, <1>5, FaultyIs, Parts, SftAssumption
  DEF SameFiles, SameExec, SameMemory, SameRuntime, SameHealth, Later
<1>7. /\ r.d \in Domain /\ SameFiles(d, r.d) /\ SameExec(d, r.d) /\ SameMemory(d, r.d)
      /\ Later(d, r.d) /\ r.d.runtime = d.runtime
  <2>1. CASE r.d = q.d
    BY <1>6, <2>1
  <2>2. CASE r = Poisoned(q.d)
    <3>1. PICK z \in Poisons : z = {"int21"}
      BY DEF Poisons
    <3>2. PICK f : f = [q.d EXCEPT !.poison = q.d.poison \cup z]
      OBVIOUS
    <3>3. r.d = f
      BY <2>2, <3>1, <3>2 DEF Poisoned, Result
    <3> QED
      BY <1>6, <3>2, <3>3, WithPoison, Parts
      DEF SameFiles, SameExec, SameMemory, SameRuntime, Later
  <2> QED
    BY <1>3, <2>1, <2>2
<1>8. Books(d) => Books(r.d)
  BY <1>7, BooksKept DEF SameExec
<1>9. d.runtime.generation \in Nat
  BY Parts DEF Snapshot
<1> QED
  BY <1>7, <1>8, <1>9 DEF Guested, SameWho, SameExec, SameMemory

(* AH=25h and AH=1Ah *)
LEMMA ChangeGoes ==
  ASSUME IndInv, GuestVectors \/ GuestDta
  PROVE  IndInv'
<1>1. \/ Change(SetVectors(Now, Caller)) \/ Change(SetRuntime(Now, Caller, OwnDta))
  BY DEF GuestVectors, GuestDta
<1>2. PICK r :
        /\ \/ r \in Serviced(SetVectors(Now, Caller))
           \/ r \in Serviced(SetRuntime(Now, Caller, OwnDta))
        /\ Become(r.d)
        /\ shell' = IF r.st = "HANDLED" THEN shell ELSE Stopping(shell)
  BY <1>1 DEF Step, Change
<1> QED
  BY <1>2, <1>1, NowSafe, KeptGuested, CallerLives, SetVectorsIs, SetRuntimeIs,
     ServicedIs, GuestEnd, Changed, GoesOn
  DEF IndInv, GuestVectors, GuestDta, Change, Running, Step

(* AH=50h: from now on somebody has strayed. *)
LEMMA SetPspGoes ==
  ASSUME IndInv, GuestSetPsp
  PROVE  IndInv'
<1>1. PICK p \in Live \ {Caller} : Change(SetRuntime(Now, p, runtime.dta))
  BY DEF GuestSetPsp
<1>2. PICK r \in Serviced(SetRuntime(Now, p, runtime.dta)) :
        /\ Become(r.d)
        /\ shell' = IF r.st = "HANDLED" THEN shell ELSE Stopping(shell)
  BY <1>1 DEF Step, Change
<1> QED
  BY <1>1, Changed, <1>2, NowSafe, KeptGuested, NowIs, Parts, SetRuntimeIs, ServicedIs,
     GuestEnd
  DEF IndInv, Inv, Safe, GuestSetPsp, Change, Running, Snapshot, Live, LiveOf, Step

(* The guest faults. *)
LEMMA FaultsGoes ==
  ASSUME IndInv, GuestFaults
  PROVE  IndInv'
<1>1. /\ shell.at = "running" /\ exec.at \in {"idle", "stranded"}
      /\ shell' = Stopping(shell) /\ exec' = exec
      /\ changes' = changes /\ strayed' = strayed
  BY DEF GuestFaults
<1>2. Safe(Now, exec, shell) /\ Now \in Domain /\ shell \in ShellRecord
  BY NowSafe
<1>3. CASE UNCHANGED domain
  BY <1>3, <1>2, HandleStays, KeptGuested, <1>1, GuestEnd, GoesOn
  DEF Become, domain, Now, IndInv
<1>4. CASE CanFail(Now) /\ Become(PoisonSession(Faulty(Now), shell.session))
  <2>1. PICK s \in Sessions : s = shell.session
    BY <1>1, <1>2 DEF Safe, TypeInv, ShellHeld, ShellRecord
  <2>2. PICK e, f : e = Faulty(Now) /\ f = PoisonSession(e, s)
    OBVIOUS
  <2>3. SessionStep(Now, e, s)
    BY <1>2, <1>4, <2>2, FaultySession
  <2>5. SessionStep(e, f, s) /\ f.sessions[s] = "POISONED" /\ f.poison # {}
    BY <2>2, <2>3, PoisonSessionIs DEF SessionStep
  <2>8. Guested(Now, f) /\ SameWho(Now, f)
    BY <2>5, <1>2, <2>3, SessionSteps, Parts
    DEF SessionStep, Guested, SameWho, SameMemory, SameRuntime, Snapshot
  <2> QED
    BY <1>1, <1>4, <2>1, <2>2, <2>8, GuestEnd, GoesOn DEF IndInv
<1> QED
  BY <1>3, <1>4 DEF GuestFaults

-----------------------------------------------------------------------------
(* The stages of EXEC.                                                     *)

Stages == {"load", "close", "inherit", "backend", "seal", "abort"}

(* The sessions stay as they are. *)
LEMMA SessionsSame ==
  ASSUME NEW d, NEW e, NEW x, NEW u, NEW h, e.sessions = d.sessions,
         u.session = x.session, x.at # "stranded"
  PROVE  /\ SessionsHeld(d, x, h) => SessionsHeld(e, u, h)
         /\ SessionsUsed(d, x, h) => SessionsUsed(e, u, h)
BY DEF SessionsHeld, SessionsUsed

(* A stage of EXEC after which the transaction is still under way *)
LEMMA StageGoes ==
  ASSUME NEW d \in Domain, NEW x, NEW h, Safe(d, x, h), x.at \in Stages,
         NEW e \in Domain, NEW u \in ExecRecord, u.at \in Stages, StageHeld(e, u, h),
         SameRuntime(d, e), Later(d, e), SessionsHeld(e, u, h),
         SessionsUsed(d, x, h) => SessionsUsed(e, u, h),
         d.poison = {} /\ SoundInv(d, x, h) /\ e.poison = {} =>
           Alike(d, e) /\ Books(e) /\ ChildHeld(e, u)
  PROVE  Goes(d, x, h, e, u, h)
<1>1. h \in ShellRecord /\ StageHeld(d, x, h) /\ ShellHeld(x, h)
  BY DEF Safe, TypeInv
<1>2. h.at \in {"starting", "running"}
  BY <1>1 DEF StageHeld, Stages
<1>5. ASSUME e.poison = {}
      PROVE  d.poison = {} /\ SoundInv(d, x, h) /\ Alike(d, e) /\ Books(e) /\ ChildHeld(e, u)
  BY <1>5 DEF Later, Safe
<1>6. ASSUME e.poison = {}
      PROVE  SoundInv(e, u, h) /\ (Programs(d, h) => Programs(e, h))
  BY <1>5, <1>6, <1>1, ProgramsSame DEF SoundInv
<1> QED
  BY <1>6, <1>1 DEF Goes, Calm, Stages, Safe, TypeInv, ShellHeld

(* The memory and the runtime stay as they are. *)
LEMMA AlikeSame ==
  ASSUME NEW d \in Domain, NEW e \in Domain, SameMemory(d, e), SameRuntime(d, e)
  PROVE  Alike(d, e)
<1> QED
  BY Parts DEF Alike, SameMemory, SameRuntime, LiveOf, Snapshot

(* A vacant lease is found. *)
LEMMA FirstLease ==
  ASSUME NEW d \in Domain, d.leases[1] = VacantLease
  PROVE  Min(VacantLeases(d)) = 1
<1>1. 1 \in FileLeases /\ FileLeases \subseteq Nat /\ \A l \in FileLeases : 1 <= l
  BY FileLeaseAssumption DEF FileLeases
<1>2. 1 \in VacantLeases(d)
  BY <1>1 DEF VacantLeases, VacantLease
<1>3. VacantLeases(d) \in SUBSET Nat /\ VacantLeases(d) # {}
        /\ VacantLeases(d) \subseteq FileLeases
  BY <1>1, <1>2 DEF VacantLeases
<1>4. PICK S \in SUBSET Nat : S = VacantLeases(d)
  BY <1>3
<1> QED
  BY <1>4, <1>1, <1>2, <1>3, MinIs

(* dos_exec_transaction_open, for a command or for a program *)
LEMMA OpenedGoes ==
  ASSUME NEW d \in Domain, NEW x, NEW h, Safe(d, x, h), x.at = "idle",
         NEW g, \/ h.at = "prompt" /\ g = [h EXCEPT !.at = "starting", !.saved = d.runtime]
                \/ h.at = "running" /\ g = h,
         NEW r \in AcquireLease(d, Min(VacantLeases(d))), NEW e, e = r.d,
         NEW u, u = [x EXCEPT !.at = IF r.st = "OK" THEN "load" ELSE "abort",
                              !.visible = TRUE]
  PROVE  e \in Domain /\ Goes(d, x, h, e, u, g)
<1>1. /\ h \in ShellRecord /\ x \in ExecRecord /\ StageHeld(d, x, h)
      /\ ShellHeld(x, h) /\ SessionsHeld(d, x, h)
  BY DEF Safe, TypeInv
<1>2. x = Quiet /\ d.leases[1] = VacantLease
  BY <1>1 DEF StageHeld
<1>4. /\ LeaseStep(d, e) /\ r.st \in {"OK", "OPEN_FAILED"}
      /\ r.st = "OK" => e.leases[1].state = "OPEN"
      /\ r.st # "OK" => e = d
  BY <1>2, FirstLease, AcquireIs
<1>5. /\ e \in Domain /\ e.sft = d.sft /\ e.batches = d.batches
      /\ e.sessions = d.sessions /\ SameMemory(d, e) /\ SameRuntime(d, e)
      /\ e.poison = d.poison /\ d.faults <= e.faults
      /\ \A k \in FileLeases \ {1} : e.leases[k] = d.leases[k]
      /\ Books(d) => Books(e)
  BY <1>4 DEF LeaseStep
<1>6. /\ u \in ExecRecord /\ u.at \in {"load", "abort"} /\ u.child = None
      /\ u.session = None /\ (u.at = "load" => r.st = "OK") /\ x.session = None
      /\ x.at = "idle" /\ x.child = None
  BY <1>1, <1>2, <1>4 DEF ExecRecord, Quiet
<1>7. d.runtime \in Snapshot /\ SessionCount \in Nat \ {0}
  BY Parts, SessionAssumption
<1>8. /\ g \in ShellRecord /\ g.at \in {"starting", "running"}
      /\ g.at = "running" => g = h
      /\ g.at = "starting" =>
           /\ h = AtPrompt /\ g.saved = d.runtime /\ g.frames = <<>> /\ g.session = None
           /\ g.child = None /\ g.stops = <<>>
  <2>1. CASE h.at = "running" /\ g = h
    BY <1>1, <2>1
  <2>2. CASE h.at = "prompt" /\ g = [h EXCEPT !.at = "starting", !.saved = d.runtime]
    <3>1. h = AtPrompt
      BY <1>1, <2>2 DEF ShellHeld
    <3> QED
      BY <1>1, <1>7, <2>2, <3>1 DEF ShellRecord, AtPrompt
  <2> QED
    BY <2>1, <2>2
<1>13. Alike(d, e)
  BY <1>5, AlikeSame
<1>15. ASSUME e.poison = {}
       PROVE  SoundInv(e, u, g)
  BY <1>5, <1>15, <1>6, <1>1, <1>8, <1>13, ProgramsSame
  DEF Safe, SoundInv, ChildHeld, WaitingLive, Alike, Depth, Saved
<1>16. ASSUME Calm(d, x, h)
       PROVE  Calm(e, u, g)
  BY <1>1, <1>5, <1>8, <1>13, <1>16, ProgramsSame, <1>6
  DEF Calm, AtPrompt, Programs, Alone, Alike, SameRuntime, SessionsUsed, InUse
<1> QED
  BY <1>5, <1>6, <1>8, <1>1, <1>4, <1>7, <1>15, <1>16
  DEF Goes, Safe, Later, TypeInv, SessionsHeld, StageHeld, ShellHeld

(* A command starts a program. *)
LEMMA StartGoes ==
  ASSUME IndInv, Start
  PROVE  IndInv'
<1>3. PICK r \in AcquireLease(Now, Min(VacantLeases(Now))) :
        /\ Become(r.d)
        /\ exec' = [exec EXCEPT !.at = IF r.st = "OK" THEN "load" ELSE "abort",
                                !.visible = TRUE]
  BY DEF Start, ExecOpen
<1>4. PICK e, u, g : e = r.d /\ u = exec' /\ g = shell'
  OBVIOUS
<1> QED
  BY NowIs, <1>4, NowSafe, <1>3, OpenedGoes, Became, GoesOn DEF IndInv, Start, ExecOpen

(* AH=4Bh *)
LEMMA GuestExecGoes ==
  ASSUME IndInv, GuestExec
  PROVE  IndInv'
<1>1. Safe(Now, exec, shell) /\ Now \in Domain
  BY NowSafe
<1>2. shell.at = "running" /\ exec.at \in {"idle", "stranded"}
  BY DEF GuestExec, Running
<1>3. CASE exec.at = "idle"
  BY <1>3, <1>1, <1>2, OpenedGoes, Became, GoesOn DEF GuestExec, ExecOpen, IndInv
<1>4. CASE exec.at # "idle"
  BY <1>4, <1>1, HandleStays, KeptGuested, <1>2, GuestEnd, GoesOn
  DEF GuestExec, Become, domain, Now, IndInv
<1> QED
  BY <1>3, <1>4

Taking(d, c, w) == [d EXCEPT !.arena[c] = w]

(* A block is taken for a child. *)
LEMMA BlockTaken ==
  ASSUME NEW d \in Domain, NEW c \in Psps, d.arena[c] = NoOwner,
         NEW w \in Psps, NEW e, e = Taking(d, c, w)
  PROVE  /\ e \in Domain /\ SameFiles(d, e) /\ SameExec(d, e) /\ SameRuntime(d, e)
         /\ SameHealth(d, e) /\ e.arena[c] = w /\ e.psps = d.psps
         /\ w \in LiveOf(d) => c # w /\ LiveOf(e) = LiveOf(d) /\ (Books(d) => Books(e))
<1>1. c \in Blocks /\ Psps \subseteq Blocks /\ Tables \subseteq Blocks
      /\ Psps \cap Tables = {} /\ NoOwner \notin Psps
  BY Numbers
<1>2. d.arena \in Arena /\ d.tables \in JftTables /\ d.psps \in PspTable
  BY Parts
<1>3. PICK a \in Arena : a = [d.arena EXCEPT ![c] = w]
  BY <1>1, <1>2 DEF Arena
<1>5. /\ e \in Domain /\ e.arena = a /\ e.tables = d.tables /\ e.psps = d.psps
      /\ SameFiles(d, e) /\ SameExec(d, e) /\ SameRuntime(d, e) /\ SameHealth(d, e)
  BY <1>3 DEF Domain, SameFiles, SameExec, SameRuntime, SameHealth, Taking
<1>6. \A b \in Blocks : e.arena[b] = IF b = c THEN w ELSE d.arena[b]
  BY <1>2, <1>3, <1>5 DEF Arena
<1>7. ASSUME w \in LiveOf(d)
      PROVE  c # w /\ LiveOf(e) = LiveOf(d) /\ (Books(d) => Books(e))
  <2>1. c # w
    BY <1>1, <1>7 DEF LiveOf
  <2>2. LiveOf(e) = LiveOf(d)
    BY <1>1, <1>6, <2>1 DEF LiveOf
  <2>3. Counts(e) = Counts(d)
    BY <1>5, <2>2, CountsSame DEF Sees, JftIndices, EntryAt, SameExec
  <2>4. ASSUME Books(d)
        PROVE  Books(e)
    BY <2>4, <1>6, <1>7, <2>2, <1>1, <1>5, <2>3, BooksMoved
    DEF Books, TablesHeld, SameExec
  <2> QED
    BY <2>1, <2>2, <2>4
<1> QED
  BY <1>1, <1>5, <1>6, <1>7

(* A stage that leaves sessions, programs and the other slots alone *)
Passed(d, e) ==
  /\ e \in Domain /\ e.sessions = d.sessions /\ SameRuntime(d, e) /\ Later(d, e)
  /\ \A l \in FileLeases \ {1} : e.leases[l] = d.leases[l]
  /\ \A k \in Batches \ {1} : e.batches[k] = d.batches[k]

(* The stages that leave the sessions alone *)
LEMMA PassedGoes ==
  ASSUME NEW d \in Domain, NEW x, NEW h, Safe(d, x, h), x.at \in Stages,
         NEW e, Passed(d, e), NEW u \in ExecRecord, u.session = x.session,
         u.at \in Stages,
         u.at = "abort" \/ StageHeld(e, u, h),
         d.poison = {} /\ SoundInv(d, x, h) /\ e.poison = {} =>
           Alike(d, e) /\ Books(e) /\ ChildHeld(e, u)
  PROVE  Goes(d, x, h, e, u, h)
<1> QED
  BY SessionsSame, StageGoes DEF Stages, Passed, StageHeld, Safe, TypeInv

(* dos_exec_transaction_probe to _relocate_resident, over a block c *)
LEMMA LoadedGoes ==
  ASSUME NEW d \in Domain, NEW x, NEW h, Safe(d, x, h), x.at = "load",
         NEW e, LeaseStep(d, e), e.leases[1].state = "PROBED",
         NEW c \in Psps, d.arena[c] = NoOwner, NEW w \in Psps,
         w = d.runtime.current, NEW f, f = Taking(e, c, w),
         NEW u, u = [x EXCEPT !.at = "close", !.child = c]
                \/ u = [x EXCEPT !.at = "abort", !.child = c]
  PROVE  f \in Domain /\ Goes(d, x, h, f, u, h)
<1>1. StageHeld(d, x, h) /\ x \in ExecRecord
  BY DEF Safe, TypeInv
<1>2. LeaseStep(d, e) /\ e.leases[1].state = "PROBED"
  OBVIOUS
<1>3. /\ e \in Domain /\ e.arena = d.arena /\ e.runtime = d.runtime
      /\ e.psps = d.psps /\ LiveOf(e) = LiveOf(d)
  BY <1>2 DEF LeaseStep, SameMemory, SameRuntime, LiveOf
<1>5. /\ f \in Domain /\ SameFiles(e, f) /\ SameExec(e, f) /\ SameRuntime(e, f)
      /\ SameHealth(e, f) /\ f.arena[c] = w /\ f.psps = e.psps
      /\ w \in LiveOf(e) => c # w /\ LiveOf(f) = LiveOf(e) /\ (Books(e) => Books(f))
  BY <1>3, BlockTaken
<1>6. /\ u \in ExecRecord /\ u.session = x.session /\ u.at \in {"close", "abort"}
      /\ u.child = c /\ c # None
  BY <1>1, Numbers DEF ExecRecord
<1>9. ASSUME d.poison = {}, SoundInv(d, x, h), f.poison = {}
      PROVE  Alike(d, f) /\ Books(f) /\ ChildHeld(f, u)
  BY <1>9, <1>2, <1>3, <1>5, Parts, <1>6
  DEF SoundInv, WaitingLive, LeaseStep, Snapshot, SameRuntime, Alike, ChildHeld,
      SameExec
<1> QED
  BY <1>5, <1>6, <1>2, <1>1, <1>9, PassedGoes
  DEF Stages, StageHeld, Passed, SameExec, LeaseStep, SameRuntime, SameHealth, Later

(* ... and when there is none *)
LEMMA UnloadedGoes ==
  ASSUME NEW d \in Domain, NEW x, NEW h, Safe(d, x, h), x.at = "load",
         NEW e, e = ProbeLease(d, 1), NEW v \in BOOLEAN,
         NEW u, u = [x EXCEPT !.at = "abort", !.visible = v]
  PROVE  e \in Domain /\ Goes(d, x, h, e, u, h)
<1>1. StageHeld(d, x, h) /\ x \in ExecRecord
  BY DEF Safe, TypeInv
<1>2. LeaseStep(d, e)
  BY <1>1, ProbeIs DEF StageHeld
<1>3. e \in Domain /\ Passed(d, e) /\ SameMemory(d, e) /\ SameRuntime(d, e)
  BY <1>2 DEF Passed, LeaseStep, Later
<1>4. u \in ExecRecord /\ u.session = x.session /\ u.at = "abort" /\ u.child = x.child
  BY <1>1 DEF ExecRecord
<1>5. ASSUME d.poison = {}, SoundInv(d, x, h), e.poison = {}
      PROVE  Alike(d, e) /\ Books(e) /\ ChildHeld(e, u)
  BY <1>3, AlikeSame, <1>1, <1>5, <1>2, <1>4
  DEF SoundInv, StageHeld, LeaseStep, ChildHeld
<1> QED
  BY <1>3, <1>4, <1>5, PassedGoes DEF Stages

(* dos_exec_transaction_close *)
LEMMA FinishedGoes ==
  ASSUME NEW d \in Domain, NEW x, NEW h, Safe(d, x, h), x.at = "close",
         NEW r \in FinishLease(d, 1), NEW e, e = r.d,
         NEW u, u = IF r.st = "OK" THEN [x EXCEPT !.at = "inherit"]
                    ELSE [x EXCEPT !.at = "abort", !.visible = FALSE]
  PROVE  e \in Domain /\ Goes(d, x, h, e, u, h)
<1>1. StageHeld(d, x, h) /\ x \in ExecRecord
  BY DEF Safe, TypeInv
<1>2. LeaseStep(d, e) /\ (r.st = "OK" => e.leases[1].state = "CLOSED")
  BY <1>1, FinishIs DEF StageHeld, Finishable
<1>3. e \in Domain /\ Passed(d, e) /\ SameMemory(d, e) /\ SameRuntime(d, e)
  BY <1>2 DEF Passed, LeaseStep, Later
<1>4. /\ u \in ExecRecord /\ u.session = x.session /\ u.child = x.child
      /\ u.at \in {"inherit", "abort"} /\ (u.at = "inherit" => r.st = "OK")
  BY <1>1 DEF ExecRecord
<1>6. ASSUME d.poison = {}, SoundInv(d, x, h), e.poison = {}
      PROVE  Alike(d, e) /\ Books(e) /\ ChildHeld(e, u)
  BY <1>3, AlikeSame, <1>6, <1>2, <1>4
  DEF SoundInv, LeaseStep, SameMemory, SameRuntime, ChildHeld
<1> QED
  BY <1>3, <1>4, <1>1, <1>2, <1>6, PassedGoes DEF Stages, StageHeld, Passed

(* ExecLoad preserves the invariant. *)
LEMMA LoadGoes ==
  ASSUME IndInv, ExecLoad
  PROVE  IndInv'
<1>1. Safe(Now, exec, shell) /\ Now \in Domain
  BY NowSafe
<1>2. /\ exec.at = "load" /\ shell' = shell /\ changes' = changes
      /\ strayed' = strayed
  BY DEF ExecLoad
<1>3. PICK e : e = ProbeLease(Now, 1)
  OBVIOUS
<1>4. PICK S : S = {p \in Psps : arena[p] = NoOwner}
  OBVIOUS
<1>5. CASE /\ S # {}
           /\ Become([e EXCEPT !.arena[Min(S)] = runtime.current])
           /\ \/ exec' = [exec EXCEPT !.at = "close", !.child = Min(S)]
              \/ exec' = [exec EXCEPT !.at = "abort", !.child = Min(S)]
  <2>3. PICK c \in Psps : c = Min(S) /\ Now.arena[c] = NoOwner
    BY <1>4, Numbers, <1>5, MinIs, NowIs
  <2>4. PICK f, u : f = [e EXCEPT !.arena[c] = Now.runtime.current] /\ u = exec'
    OBVIOUS
  <2>5. /\ u = [exec EXCEPT !.at = "close", !.child = c]
           \/ u = [exec EXCEPT !.at = "abort", !.child = c]
        /\ Become(f)
    BY <1>5, <2>3, <2>4, NowIs
  <2>6. LeaseStep(Now, e) /\ e.leases[1].state = "PROBED"
    BY <1>1, <1>2, <1>3, ProbeIs DEF Safe, TypeInv, StageHeld
  <2>7. PICK w \in Psps : w = Now.runtime.current
    BY <1>1, Parts DEF Snapshot
  <2>9. f \in Domain /\ Goes(Now, exec, shell, f, u, shell)
    BY <1>1, <1>2, <2>3, <2>5, <2>6, <2>7, <2>4, LoadedGoes DEF Taking
  <2> QED
    BY <1>2, <2>4, <2>9, <2>5, Became, GoesOn DEF IndInv
<1>6. CASE Become(e) /\ Fail("arena" \notin poison)
  BY <1>6, <1>1, <1>2, <1>3, UnloadedGoes, Became, GoesOn DEF Fail, IndInv
<1> QED
  BY <1>3, <1>4, <1>5, <1>6 DEF ExecLoad

(* ExecClose preserves the invariant. *)
LEMMA FinishGoes ==
  ASSUME IndInv, ExecClose
  PROVE  IndInv'
<1>3. PICK r \in FinishLease(Now, 1) :
        /\ Become(r.d)
        /\ exec' = IF r.st = "OK" THEN [exec EXCEPT !.at = "inherit"]
                   ELSE [exec EXCEPT !.at = "abort", !.visible = FALSE]
  BY DEF ExecClose, Fail
<1>4. PICK e, u : e = r.d /\ u = exec'
  OBVIOUS
<1> QED
  BY <1>4, NowSafe, <1>3, FinishedGoes, Became, GoesOn DEF IndInv, ExecClose

(* dos_exec_transaction_prepare_inheritance *)
LEMMA InheritedGoes ==
  ASSUME NEW d \in Domain, NEW x, NEW h, Safe(d, x, h), x.at = "inherit",
         NEW t \in [0 .. JftMinimum - 1 -> Entry], NEW r \in PrepareBatch(d, 1, t),
         NEW e, NEW u, NEW v \in BOOLEAN,
         \/ r.st = "OK" /\ e = r.d /\ u = [x EXCEPT !.at = "backend"]
         \/ /\ r.st # "OK" /\ e \in {r.d, PoisonArena(r.d)}
            /\ u = [x EXCEPT !.at = "abort", !.visible = v]
  PROVE  e \in Domain /\ Goes(d, x, h, e, u, h)
<1>1. StageHeld(d, x, h) /\ x \in ExecRecord
  BY DEF Safe, TypeInv
<1>2. PICK f : f = r.d
  OBVIOUS
<1>3. /\ BatchStep(d, f) /\ (r.st = "OK" => f.batches[1].state = "PREPARED")
      /\ Books(d) /\ d.batches[1].state # "PREPARED"
           /\ (\A k \in Batches \ {1} : d.batches[k].state = "FREE") =>
           r.st = "OK" /\ Books(f) /\ BatchHeld(f.batches[1])
  BY <1>2, PrepareKept
<1>4. /\ u \in ExecRecord /\ u.session = x.session /\ u.child = x.child
      /\ u.at \in {"backend", "abort"} /\ (u.at = "backend" => r.st = "OK")
      /\ (r.st = "OK" => u.at = "backend")
  BY <1>1 DEF ExecRecord
<1>5. f \in Domain
  BY <1>3 DEF BatchStep
<1>7. Passed(d, e) /\ (r.st = "OK" => e = f)
  BY <1>3, <1>5, PoisonArenaIs, Parts, <1>2
  DEF Passed, SameExec, SameRuntime, HandleStep, Later, BatchStep
<1>9. ASSUME d.poison = {}, SoundInv(d, x, h), e.poison = {}
      PROVE  Alike(d, e) /\ Books(e) /\ ChildHeld(e, u)
  BY <1>9, <1>1, <1>3, <1>4, <1>7, <1>5, AlikeSame
  DEF SoundInv, ChildHeld, StageHeld, BatchStep, SameMemory, SameRuntime
<1> QED
  BY <1>4, <1>7, <1>1, <1>3, <1>9, PassedGoes DEF Stages, StageHeld, Passed, BatchStep

(* ExecInherit preserves the invariant. *)
LEMMA InheritGoes ==
  ASSUME IndInv, ExecInherit
  PROVE  IndInv'
<1>1. Safe(Now, exec, shell) /\ Now \in Domain
  BY NowSafe
<1>3. PICK r \in PrepareBatch(Now, 1, ParentTable) :
        \/ /\ r.st = "OK" /\ Become(r.d) /\ exec' = [exec EXCEPT !.at = "backend"]
        \/ r.st # "OK" /\ Become(r.d) /\ Fail(TRUE)
        \/ r.st # "OK" /\ Become(PoisonArena(r.d)) /\ Fail(FALSE)
  BY DEF ExecInherit
<1>4. PICK p \in Psps : p = Now.runtime.current
  BY <1>1, Parts DEF Snapshot
<1>5. PICK t : t = ParentTable
  OBVIOUS
<1>7. PICK e, u : u = exec' /\ \E v \in BOOLEAN :
        /\ Become(e)
        /\ \/ r.st = "OK" /\ e = r.d /\ u = [exec EXCEPT !.at = "backend"]
           \/ /\ r.st # "OK" /\ e \in {r.d, PoisonArena(r.d)}
              /\ u = [exec EXCEPT !.at = "abort", !.visible = v]
  BY <1>3 DEF Fail
<1>8. PICK v \in BOOLEAN :
        /\ Become(e)
        /\ \/ r.st = "OK" /\ e = r.d /\ u = [exec EXCEPT !.at = "backend"]
           \/ /\ r.st # "OK" /\ e \in {r.d, PoisonArena(r.d)}
              /\ u = [exec EXCEPT !.at = "abort", !.visible = v]
  BY <1>7
<1> QED
  BY <1>7, <1>1, <1>5, <1>4, Indices, EntryTyped, NowIs, <1>8, InheritedGoes, Became,
     GoesOn DEF IndInv, ParentTable, ExecInherit

-----------------------------------------------------------------------------
(* The session of the child and the end of EXEC.                           *)

(* dos_exec_transaction_prepare_backend, when a session is prepared *)
LEMMA BackedGoes ==
  ASSUME NEW d \in Domain, NEW x, NEW h, Safe(d, x, h), x.at = "backend",
         NEW s \in Sessions, d.sessions[s] = "VACANT",
         NEW e, e = SetSession(d, s, "DORMANT"),
         NEW u, u = [x EXCEPT !.at = "seal", !.session = s]
  PROVE  e \in Domain /\ Goes(d, x, h, e, u, h)
<1>1. /\ h \in ShellRecord /\ x \in ExecRecord /\ StageHeld(d, x, h)
      /\ ShellHeld(x, h) /\ SessionsHeld(d, x, h)
  BY DEF Safe, TypeInv
<1>2. SessionStep(d, e, s) /\ e.sessions[s] = "DORMANT" /\ SameHealth(d, e)
  BY SetSessionIs DEF SessionState
<1>3. /\ e \in Domain /\ SameFiles(d, e) /\ e.batches = d.batches
      /\ e.leases = d.leases /\ SameMemory(d, e) /\ SameRuntime(d, e) /\ Later(d, e)
      /\ \A t \in Sessions \ {s} : e.sessions[t] = d.sessions[t]
      /\ Books(d) => Books(e)
  BY <1>2 DEF SessionStep
<1>4. u \in ExecRecord /\ u.session = s /\ u.child = x.child /\ u.at = "seal"
  BY <1>1 DEF ExecRecord
<1>5. None \notin Sessions /\ s # None
  BY DEF Sessions, None
<1>6. StageHeld(e, u, h)
  BY <1>1, <1>3, <1>4, <1>5 DEF StageHeld
<1>7. SessionsHeld(e, u, h)
  BY <1>1, ShellTyped, <1>3, <1>2, <1>4 DEF ShellHeld, SessionsHeld
<1>8. ASSUME SessionsUsed(d, x, h)
      PROVE  SessionsUsed(e, u, h)
  BY <1>1, <1>8, <1>5, <1>2, <1>3, <1>4 DEF StageHeld, SessionsUsed
<1>9. ASSUME d.poison = {}, SoundInv(d, x, h), e.poison = {}
      PROVE  Alike(d, e) /\ Books(e) /\ ChildHeld(e, u)
  BY <1>3, AlikeSame, <1>9, <1>4 DEF SoundInv, ChildHeld, SameMemory, SameRuntime
<1> QED
  BY <1>3, <1>4, <1>6, <1>7, <1>8, <1>9, StageGoes DEF Stages

(* goto failed, with nothing changed *)
LEMMA FailedGoes ==
  ASSUME NEW d \in Domain, NEW x, NEW h, Safe(d, x, h), x.at \in {"backend", "seal"},
         NEW u, u = [x EXCEPT !.at = "abort", !.visible = FALSE]
  PROVE  Goes(d, x, h, d, u, h)
<1>2. u \in ExecRecord /\ u.session = x.session /\ u.child = x.child /\ u.at = "abort"
  BY DEF ExecRecord, Safe, TypeInv
<1>4. Passed(d, d)
  BY Parts DEF Passed, SameRuntime, Later
<1>5. ASSUME SoundInv(d, x, h)
      PROVE  Alike(d, d) /\ Books(d) /\ ChildHeld(d, u)
  BY AlikeSame, <1>2, <1>5 DEF SameMemory, SameRuntime, SoundInv, ChildHeld
<1> QED
  BY <1>2, <1>4, <1>5, PassedGoes DEF Stages

(* ExecBackend preserves the invariant. *)
LEMMA BackendGoes ==
  ASSUME IndInv, ExecBackend
  PROVE  IndInv'
<1>1. Safe(Now, exec, shell) /\ Now \in Domain
  BY NowSafe
<1>2. /\ exec.at = "backend" /\ shell' = shell /\ changes' = changes
      /\ strayed' = strayed
  BY DEF ExecBackend
<1>3. PICK u : u = exec'
  OBVIOUS
<1>4. ASSUME Become(Now), Fail(FALSE)
      PROVE  IndInv'
  BY <1>3, <1>4, <1>1, <1>2, FailedGoes, Became, GoesOn DEF Fail, IndInv
<1>5. CASE UNCHANGED domain /\ Fail(FALSE)
  BY <1>5, <1>4 DEF Become, domain, Now
<1>6. CASE VacantSessions(Now) # {}
  <2>1. VacantSessions(Now) \in SUBSET Nat /\ VacantSessions(Now) \subseteq Sessions
    BY DEF VacantSessions, Sessions
  <2>2. PICK S \in SUBSET Nat : S = VacantSessions(Now)
    BY <2>1
  <2>4. PICK s \in Sessions : s = Min(VacantSessions(Now)) /\ Now.sessions[s] = "VACANT"
    BY <2>1, <2>2, <1>6, MinIs DEF VacantSessions
  <2>5. PICK r \in PrepareSession(Now, s) :
          /\ Become(r.d)
          /\ IF r.st = "OK" THEN exec' = [exec EXCEPT !.at = "seal", !.session = s]
             ELSE Fail(FALSE)
    BY <1>6, <2>4 DEF ExecBackend
  <2>6. CASE r = Result(SetSession(Now, s, "DORMANT"), "OK")
    BY <1>3, <2>5, <2>6, <1>1, <1>2, <2>4, BackedGoes, Became, GoesOn DEF Result, IndInv
  <2>7. CASE r = Result(Now, "REJECTED")
    BY <2>5, <2>7, <1>4 DEF Result
  <2> QED
    BY <2>5, <2>6, <2>7 DEF PrepareSession
<1> QED
  BY <1>5, <1>6 DEF ExecBackend

(* As many programs as there are sessions *)
LEMMA Crowd ==
  ASSUME NEW h \in ShellRecord, h.session # None, NEW s \in Sessions,
         \A i, k \in 1 .. Depth(h) + 1 : SessionOf(h, i) = SessionOf(h, k) => i = k,
         \A i \in 1 .. Depth(h) + 1 : SessionOf(h, i) # s
  PROVE  Depth(h) + 1 < SessionCount
<1>1. Depth(h) \in Nat /\ \A i \in 1 .. Depth(h) + 1 : SessionOf(h, i) \in Sessions
  BY ShellTyped
<1>2. PICK n \in Nat : n = Depth(h)
  BY <1>1
<1>3. SessionCount \in Nat \ {0}
  BY SessionAssumption
<1>4. PICK T : T = 1 .. SessionCount
  OBVIOUS
<1>5. IsFiniteSet(T) /\ Cardinality(T) = SessionCount /\ T = Sessions
  BY <1>3, <1>4, FS_Interval DEF Sessions
<1>6. PICK D : D = 1 .. n + 2
  OBVIOUS
<1>7. IsFiniteSet(D) /\ Cardinality(D) = n + 2
  BY <1>6, FS_Interval
<1>8. PICK f : f = [i \in D |-> IF i = n + 2 THEN s ELSE SessionOf(h, i)]
  OBVIOUS
<1> QED
  BY <1>2, <1>3, <1>5, <1>7, <1>6, <1>1, <1>8, FS_PigeonHole

Deeper(h, s, c, v) ==
  [h EXCEPT !.session = s,
            !.frames = Append(@, [session |-> h.session, saved |-> v, child |-> c])]

(* A program starts another one. *)
LEMMA DeeperIs ==
  ASSUME NEW h \in ShellRecord, h.session # None, NEW s \in Sessions,
         NEW c \in Psps, NEW v \in Snapshot, NEW g, g = Deeper(h, s, c, v)
  PROVE  /\ g \in ShellRecord /\ g.at = h.at /\ g.session = s /\ g.child = h.child
         /\ g.stops = h.stops /\ g.saved = h.saved
         /\ Depth(g) = Depth(h) + 1
         /\ \A i \in 0 .. Depth(h) : Child(g, i) = Child(h, i) /\ Saved(g, i) = Saved(h, i)
         /\ Child(g, Depth(h) + 1) = c /\ Saved(g, Depth(h) + 1) = v
         /\ \A i \in 1 .. Depth(h) + 1 : SessionOf(g, i) = SessionOf(h, i)
         /\ SessionOf(g, Depth(h) + 2) = s
<1>1. /\ h.frames \in Seq(Frame) /\ h.session \in Sessions /\ Depth(h) \in Nat
      /\ Depth(h) = Len(h.frames)
  BY ShellTyped DEF ShellRecord, Depth
<1>2. PICK y \in Frame : y = [session |-> h.session, saved |-> v, child |-> c]
  BY <1>1 DEF Frame
<1>4. PICK q \in Seq(Frame) : q = h.frames
  BY <1>1
<1>5. PICK z : z = Append(q, y)
  OBVIOUS
<1>6. /\ z \in Seq(Frame) /\ Len(z) = Len(q) + 1
      /\ \A i \in 1 .. Len(q) : z[i] = q[i]
      /\ z[Len(q) + 1] = y
  BY <1>5, AppendProperties
<1>8. /\ g \in ShellRecord /\ g.at = h.at /\ g.session = s /\ g.child = h.child
      /\ g.stops = h.stops /\ g.saved = h.saved /\ g.frames = z
  BY <1>6, <1>2, <1>4, <1>5 DEF ShellRecord, Deeper
<1>9. PICK n \in Nat : n = Depth(h) /\ n = Len(q) /\ Depth(g) = n + 1
  BY <1>1, <1>4, <1>6, <1>8 DEF Depth
<1>13. SessionOf(g, n + 2) = s
  BY <1>8, <1>9 DEF SessionOf
<1> QED
  BY <1>8, <1>9, <1>4, <1>6, <1>2, <1>13 DEF Child, Saved, SessionOf

(* The PSP of a child *)
PspOf(d) ==
  [parent |-> d.runtime.current, vectors |-> d.vectors, length |-> JftMinimum,
   table |-> Inline, inline |-> d.batches[1].child]

Born(d, c) == [d EXCEPT !.arena[c] = c, !.psps[c] = PspOf(d)]

SealedAt(d, c, s) ==
  RetireBatch(RetireLease(PublishSession(PublishExec(CommitBatch(Born(d, c), 1), c), s),
                          1), 1)

(* What the seal makes of a domain *)
Sealing(d, e, c, s) ==
  /\ e \in Domain /\ SameFiles(d, e) /\ SameHealth(d, e)
  /\ e.batches[1].state = "FREE" /\ e.leases[1] = VacantLease
  /\ \A k \in Batches \ {1} : e.batches[k] = d.batches[k]
  /\ \A l \in FileLeases \ {1} : e.leases[l] = d.leases[l]
  /\ e.sessions[s] = "RUNNABLE"
  /\ \A t \in Sessions \ {s} : e.sessions[t] = d.sessions[t]
  /\ \A b \in Blocks : e.arena[b] = IF b = c THEN c ELSE d.arena[b]
  /\ e.tables = d.tables /\ e.vectors = d.vectors
  /\ \A p \in Psps : e.psps[p] = IF p = c THEN PspOf(d) ELSE d.psps[p]
  /\ e.runtime.generation = d.runtime.generation + 1
  /\ e.runtime.current = c /\ e.runtime.dta = c

(* The child is born. *)
LEMMA BornIs ==
  ASSUME NEW d \in Domain, NEW c \in Psps, NEW e, e = Born(d, c)
  PROVE  /\ e \in Domain /\ SameFiles(d, e) /\ SameExec(d, e) /\ SameRuntime(d, e)
         /\ SameHealth(d, e) /\ e.tables = d.tables
         /\ \A b \in Blocks : e.arena[b] = IF b = c THEN c ELSE d.arena[b]
         /\ \A p \in Psps : e.psps[p] = IF p = c THEN PspOf(d) ELSE d.psps[p]
<1>1. d.arena \in Arena /\ d.psps \in PspTable /\ c \in Blocks
  BY Parts, Numbers
<1>5. PICK x : x = PspOf(d)
  OBVIOUS
<1>6. x \in PspRecord
  BY BatchTyped, Parts, Numbers, <1>5 DEF PspOf, PspRecord, Psp, Snapshot
<1>7. PICK a \in Arena : a = [d.arena EXCEPT ![c] = c]
  BY <1>1 DEF Arena
<1>8. PICK q \in PspTable : q = [d.psps EXCEPT ![c] = x]
  BY <1>1, <1>6 DEF PspTable
<1> QED
  BY <1>5, <1>7, <1>8, <1>1
  DEF Arena, PspTable, Domain, SameFiles, SameExec, SameRuntime, SameHealth, Born

(* dos_exec_transaction_seal_execute and _retire_published *)
LEMMA SealedIs ==
  ASSUME NEW d \in Domain, NEW c \in Psps, NEW s \in Sessions, CanAdvance(d),
         d.leases[1].state = "CLOSED", NEW e, e = SealedAt(d, c, s)
  PROVE  Sealing(d, e, c, s)
<1>1. PICK d1 : d1 = Born(d, c)
  OBVIOUS
<1>2. /\ d1 \in Domain /\ SameFiles(d, d1) /\ SameExec(d, d1) /\ SameRuntime(d, d1)
      /\ SameHealth(d, d1) /\ d1.tables = d.tables
      /\ \A b \in Blocks : d1.arena[b] = IF b = c THEN c ELSE d.arena[b]
      /\ \A p \in Psps : d1.psps[p] = IF p = c THEN PspOf(d) ELSE d.psps[p]
  BY <1>1, BornIs
<1>3. PICK d2 : d2 = CommitBatch(d1, 1)
  OBVIOUS
<1>4. /\ d2 \in Domain /\ SameFiles(d1, d2) /\ SameMemory(d1, d2)
      /\ SameRuntime(d1, d2) /\ SameHealth(d1, d2)
      /\ d2.leases = d1.leases /\ d2.sessions = d1.sessions
      /\ \A k \in Batches \ {1} : d2.batches[k] = d1.batches[k]
  <2>1. /\ d1.batches[1] \in BatchSlot /\ Len(d1.batches[1].entries) <= JftMinimum
        /\ 1 \in Batches
    BY <1>2, BatchTyped
  <2>2. PICK b : b = [d1.batches[1] EXCEPT !.state = "COMMITTED"]
    OBVIOUS
  <2>4. b \in BatchRecord
    BY <2>1, <2>2, BatchInTyped DEF BatchRecord, BatchStates
  <2> QED
    BY <1>2, <2>4, <1>3, <2>1, <2>2, SetBatchIs
    DEF CommitBatch, SetBatch, Domain, BatchTable
<1>5. PICK d3 : d3 = Advance(d2, c, c)
  OBVIOUS
<1>6. /\ d3 \in Domain /\ SameFiles(d2, d3) /\ SameMemory(d2, d3) /\ SameExec(d2, d3)
      /\ SameHealth(d2, d3) /\ d3.vectors = d2.vectors
      /\ d3.runtime.generation = d2.runtime.generation + 1
      /\ d3.runtime.current = c /\ d3.runtime.dta = c
  BY <1>2, <1>4, <1>5, RestoreIs DEF CanAdvance, SameRuntime, SameHealth
<1>7. PICK d4 : d4 = SetSession(d3, s, "RUNNABLE")
  OBVIOUS
<1>8. SessionStep(d3, d4, s) /\ d4.sessions[s] = "RUNNABLE" /\ SameHealth(d3, d4)
  BY <1>6, <1>7, SetSessionIs DEF SessionState
<1>9. PICK d5 : d5 = RetireLease(d4, 1)
  OBVIOUS
<1>10. LeaseStep(d4, d5) /\ d5.faults = d4.faults /\ d5.leases[1] = VacantLease
  BY <1>8, <1>2, <1>4, <1>6, <1>9, RetireIs DEF SessionStep, SameExec, Finishable
<1>11. e = SetBatch(d5, 1, BatchIn("FREE"))
  BY <1>1, <1>3, <1>5, <1>7, <1>9 DEF SealedAt, RetireBatch, PublishSession, PublishExec
<1>12. /\ e \in Domain /\ SameFiles(d5, e) /\ SameMemory(d5, e)
       /\ SameRuntime(d5, e) /\ SameHealth(d5, e)
       /\ e.leases = d5.leases /\ e.sessions = d5.sessions
       /\ e.batches[1].state = "FREE"
       /\ \A k \in Batches \ {1} : e.batches[k] = d5.batches[k]
  <2>1. BatchIn("FREE") \in BatchRecord /\ BatchIn("FREE").state = "FREE"
    BY BatchInTyped DEF BatchStates
  <2>2. PICK b \in BatchRecord : b = BatchIn("FREE")
    BY <2>1
  <2> QED
    BY <1>11, <2>1, <2>2, <1>10, SetBatchIs DEF LeaseStep
<1> QED
  BY <1>2, <1>12, <1>4, <1>6, <1>8, <1>10, <1>9
  DEF Sealing, SameExec, SessionStep, LeaseStep, SameMemory, SameRuntime, SameFiles,
      RetireLease, SameHealth

(* The books after the seal: what the batch held, the child names. *)
LEMMA SealedBooks ==
  ASSUME NEW d \in Domain, Books(d), NEW c \in Psps, NEW s \in Sessions,
         d.leases[1].state = "CLOSED", d.batches[1].state = "PREPARED",
         \A k \in Batches \ {1} : d.batches[k].state = "FREE",
         BatchHeld(d.batches[1]), c \notin LiveOf(d), NEW e, Sealing(d, e, c, s)
  PROVE  Books(e) /\ LiveOf(e) = LiveOf(d) \cup {c}
<1>1. c \in Blocks /\ Psps \subseteq Blocks /\ Tables \subseteq Blocks
      /\ Psps \cap Tables = {} /\ NoOwner \notin Psps /\ Inline \notin Tables
      /\ JftMinimum \in Nat \ {0} /\ JftMaximum \in Nat /\ JftMinimum <= JftMaximum
  BY Numbers
<1>2. /\ e \in Domain /\ SameFiles(d, e) /\ e.batches[1].state = "FREE"
      /\ e.leases[1] = VacantLease
      /\ \A k \in Batches \ {1} : e.batches[k] = d.batches[k]
      /\ \A l \in FileLeases \ {1} : e.leases[l] = d.leases[l]
      /\ \A b \in Blocks : e.arena[b] = IF b = c THEN c ELSE d.arena[b]
      /\ e.tables = d.tables
      /\ \A p \in Psps : e.psps[p] = IF p = c THEN PspOf(d) ELSE d.psps[p]
  BY DEF Sealing
<1>3. LiveOf(e) = LiveOf(d) \cup {c}
  BY <1>1, <1>2 DEF LiveOf
<1>5. /\ e.psps[c].table = Inline /\ e.psps[c].length = JftMinimum
      /\ e.psps[c].inline = d.batches[1].child
  BY <1>2 DEF PspOf
<1>6. \A p \in LiveOf(d) : p \in Psps /\ p # c /\ e.psps[p] = d.psps[p]
  BY <1>2 DEF LiveOf
<1>7. ASSUME NEW n \in Sfns
      PROVE  Counts(e)[n] = Counts(d)[n]
  <2>1. PICK C : C = ChildOf(d.batches[1], n)
    OBVIOUS
  <2>2. PICK A : A = Names(d, n)
    OBVIOUS
  <2>4. IsFiniteSet(C) /\ Cardinality(C) \in Nat
    BY <2>1, BatchTyped, LenProperties, EntriesFinite
  <2>5. IsFiniteSet({c} \X C) /\ Cardinality({c} \X C) = Cardinality(C)
    BY <2>4, Column
  <2>6. IsFiniteSet(A) /\ Cardinality(A) \in Nat
    BY <2>2, NamesFinite
  <2>7. \A y \in A : y[1] \in LiveOf(d)
    BY <2>2 DEF Names
  <2>8. A \cap ({c} \X C) = {}
    BY <2>7
  <2>9. Names(e, n) = A \cup ({c} \X C)
    BY <1>5, <2>1, <1>2, <1>6, <1>1, NamesAre, <2>2, <2>7, <1>3
    DEF Sees, JftIndices, EntryAt, ChildOf
  <2>10. Cardinality(A \cup ({c} \X C)) = Cardinality(A) + Cardinality(C)
    <3>1. Cardinality({}) = 0
      BY FS_EmptySet
    <3>2. PICK B : B = {c} \X C
      OBVIOUS
    <3>3. Cardinality(A \cup B) = Cardinality(A) + Cardinality(B) - Cardinality(A \cap B)
      BY <2>5, <2>6, <3>2, FS_Union
    <3> QED
      <4>1. Cardinality(A \cap B) = 0
        BY <2>8, <3>1, <3>2
      <4> QED
        BY <3>2, <2>4, <2>6, <3>3, <4>1, <2>5
  <2>13. /\ Counts(e)[n] = Cardinality(Names(e, n)) + Held(e, n)
         /\ Counts(d)[n] = Cardinality(Names(d, n)) + Held(d, n)
    BY <1>2, CountsTyped
  <2> QED
    BY <2>2, <2>4, <2>6, <2>9, <2>10, HeldIs, <2>1, <1>2, <2>13 DEF BatchHeld
<1> QED
  BY <1>3, <1>2, CountsTyped, <1>7, OwnedLeases, <1>1, <1>5, <1>6
  DEF Books, Ledger, Reading, VacantLease, Finishable, SameFiles, TablesHeld

(* The shell record of the driver when the child of EXEC starts *)
Starting(h, c, s) ==
  [h EXCEPT !.at = "running", !.child = c, !.session = s]

(* What the programs are after the seal, whether the child is the first    *)
(* program of a command or one that another program starts.                *)
Entered(h, g, c, s, v) ==
  /\ g \in ShellRecord /\ g.at = "running" /\ g.stops = <<>> /\ g.child # None
  /\ g.session = s
  /\ \/ /\ h.at = "starting" /\ Depth(g) = 0 /\ Child(g, 0) = c
        /\ Saved(g, 0) = h.saved /\ SessionOf(g, 1) = s
     \/ /\ h.at = "running" /\ Depth(h) \in Nat /\ Depth(g) = Depth(h) + 1
        /\ \A i \in 0 .. Depth(h) : Child(g, i) = Child(h, i) /\ Saved(g, i) = Saved(h, i)
        /\ Child(g, Depth(h) + 1) = c /\ Saved(g, Depth(h) + 1) = v
        /\ \A i \in 1 .. Depth(h) + 1 : SessionOf(g, i) = SessionOf(h, i)
        /\ SessionOf(g, Depth(h) + 2) = s

(* The driver enters the child so, from the prompt or from a program. *)
LEMMA EnteredIs ==
  ASSUME NEW h \in ShellRecord, NEW x, ShellHeld(x, h), h.at \in {"starting", "running"},
         NEW c \in Psps, NEW s \in Sessions, NEW v \in Snapshot,
         NEW g, g = IF h.at = "starting" THEN Starting(h, c, s) ELSE Deeper(h, s, c, v)
  PROVE  Entered(h, g, c, s, v)
<1>1. None \notin Psps
  BY Numbers
<1>2. CASE h.at = "starting"
  <2>2. /\ g \in ShellRecord /\ g.at = "running" /\ g.child = c /\ g.session = s
        /\ g.stops = <<>> /\ g.frames = <<>> /\ g.saved = h.saved
    BY <1>2 DEF Starting, ShellRecord, ShellHeld
  <2> QED
    BY <1>1, <1>2, <2>2 DEF Entered, Child, Saved, SessionOf, Depth
<1>3. CASE h.at = "running"
  BY <1>3, ShellTyped, DeeperIs DEF ShellHeld, Entered
<1> QED
  BY <1>2, <1>3

(* There is a session for every program. *)
LEMMA EnteredHeld ==
  ASSUME NEW d \in Domain, NEW x \in ExecRecord, NEW h \in ShellRecord, ShellHeld(x, h),
         SessionsHeld(d, x, h), x.at = "seal", NEW s \in Sessions, s = x.session,
         NEW c, NEW v, NEW g, Entered(h, g, c, s, v), NEW e, Sealing(d, e, c, s)
  PROVE  ShellHeld(Quiet, g) /\ SessionsHeld(e, Quiet, g)
<1>1. None \notin Sessions /\ Quiet.session = None /\ s # None
  BY DEF Sessions, None, Quiet
<1>2. /\ e.sessions[s] = "RUNNABLE"
      /\ \A t \in Sessions \ {s} : e.sessions[t] = d.sessions[t]
  BY DEF Sealing
<1>3. SessionCount \in Nat \ {0}
  BY SessionAssumption
<1>4. CASE h.at = "starting"
  BY <1>4, <1>1, <1>3, <1>2 DEF Entered, Depth, ShellHeld, SessionsHeld
<1>5. CASE h.at = "running"
  <2>1. PICK n \in Nat : n = Depth(h)
    BY <1>5 DEF Entered
  <2>2. /\ Depth(g) = n + 1 /\ \A i \in 1 .. n + 1 : SessionOf(g, i) = SessionOf(h, i)
        /\ SessionOf(g, n + 2) = s /\ g.at = "running" /\ g.stops = <<>>
        /\ g.child # None /\ g.session = s
    BY <1>5, <2>1 DEF Entered
  <2>3. /\ \A i, k \in 1 .. n + 1 : SessionOf(h, i) = SessionOf(h, k) => i = k
        /\ \A i \in 1 .. n + 1 : /\ SessionOf(h, i) # s
                                 /\ d.sessions[SessionOf(h, i)] # "VACANT"
    BY <1>5, <2>1 DEF SessionsHeld
  <2>4. h.session # None
    BY <1>5 DEF ShellHeld
  <2>9. \A i \in 1 .. n + 2 : i \in 1 .. n + 1 \/ i = n + 2
    OBVIOUS
  <2>11. \A i \in 1 .. n + 2 : /\ SessionOf(g, i) # None
                               /\ e.sessions[SessionOf(g, i)] # "VACANT"
    BY <1>1, <1>2, <2>2, <2>3, <2>1, <2>4, ShellTyped, <2>9
  <2> QED
    BY <1>1, <1>3, <2>2, <2>1, <2>3, <2>4, Crowd, <2>9, <2>11
    DEF SessionsHeld, ShellHeld, Depth
<1> QED
  BY <1>4, <1>5 DEF Entered

(* The sessions in use after the seal *)
LEMMA EnteredUsed ==
  ASSUME NEW d \in Domain, NEW x \in ExecRecord, NEW h \in ShellRecord,
         SessionsUsed(d, x, h), NEW s \in Sessions, s = x.session,
         NEW c, NEW v, NEW g, Entered(h, g, c, s, v), NEW e, Sealing(d, e, c, s)
  PROVE  SessionsUsed(e, Quiet, g)
<1> QED
  BY DEF SessionsUsed, Sessions, None, Quiet, Sealing, Entered, InUse

(* Whoever waits exists after the seal. *)
LEMMA EnteredWaits ==
  ASSUME NEW d \in Domain, NEW h \in ShellRecord, WaitingLive(d, h), NEW c \in Psps,
         c \notin LiveOf(d), NEW s, NEW g, Entered(h, g, c, s, d.runtime),
         NEW e, Sealing(d, e, c, s), LiveOf(e) = LiveOf(d) \cup {c}
  PROVE  WaitingLive(e, g)
<1>1. e.runtime.current \in LiveOf(e) /\ d.runtime.current \in LiveOf(d)
  BY DEF Sealing, WaitingLive
<1>2. CASE h.at = "starting"
  BY <1>2, ShellTyped, <1>1 DEF Entered, WaitingLive, Saved
<1>3. CASE h.at = "running"
  BY <1>3, <1>1 DEF Entered, WaitingLive
<1> QED
  BY <1>2, <1>3 DEF Entered

(* The line of programs after the seal *)
LEMMA EnteredLine ==
  ASSUME NEW d \in Domain, NEW h \in ShellRecord, Programs(d, h), NEW c \in Psps,
         c \notin LiveOf(d), NEW s, NEW g, Entered(h, g, c, s, d.runtime),
         NEW e, Sealing(d, e, c, s), LiveOf(e) = LiveOf(d) \cup {c}
  PROVE  Programs(e, g)
<1>1. /\ e.runtime.generation = d.runtime.generation + 1 /\ e.runtime.current = c
      /\ \A p \in Psps : e.psps[p] = IF p = c THEN PspOf(d) ELSE d.psps[p]
  BY DEF Sealing
<1>2. /\ PspOf(d).parent = d.runtime.current /\ PspOf(d).vectors = d.vectors
      /\ d.runtime.generation \in Nat /\ COMMAND \in Psps
      /\ e.psps[c] = PspOf(d)
  BY <1>1, Parts, Numbers DEF PspOf, Snapshot
<1>3. \A p \in LiveOf(d) : p \in Psps /\ p # c /\ e.psps[p] = d.psps[p]
  BY <1>1 DEF LiveOf
<1>4. CASE h.at = "starting"
  BY <1>4, <1>1, <1>2 DEF Programs, Alone, Entered, Line
<1>5. CASE h.at = "running"
  <2>1. PICK n \in Nat : n = Depth(h)
    BY <1>5 DEF Entered
  <2>3. /\ LiveOf(d) = {COMMAND} \cup {Child(h, i) : i \in 0 .. n}
        /\ \A i \in 0 .. n :
             /\ Child(h, i) # COMMAND
             /\ \A k \in 0 .. n : Child(h, i) = Child(h, k) => i = k
             /\ Saved(h, i).current = IF i = 0 THEN COMMAND ELSE Child(h, i - 1)
             /\ d.psps[Child(h, i)].parent = Saved(h, i).current
             /\ Saved(h, i).generation < d.runtime.generation
        /\ Saved(h, 0).dta = COMMAND /\ d.psps[Child(h, 0)].vectors = COMMAND
        /\ d.runtime.current = Child(h, n)
    BY <2>1, <1>5 DEF Line, Programs
  <2>4. /\ Depth(g) = n + 1 /\ g.at = "running"
        /\ \A i \in 0 .. n : Child(g, i) = Child(h, i) /\ Saved(g, i) = Saved(h, i)
        /\ Child(g, n + 1) = c /\ Saved(g, n + 1) = d.runtime
    BY <1>5, <2>1 DEF Entered
  <2>6. \A i \in 0 .. n : Child(h, i) \in LiveOf(d) /\ Saved(h, i).generation \in Nat
    BY <2>1, ShellTyped, <2>3 DEF Snapshot
  <2>11. ASSUME NEW i \in 0 .. n + 1
         PROVE  /\ Saved(g, i).current = IF i = 0 THEN COMMAND ELSE Child(g, i - 1)
                /\ e.psps[Child(g, i)].parent = Saved(g, i).current
                /\ Saved(g, i).generation < e.runtime.generation
    <3>1. CASE i \in 0 .. n
      <4>3. e.psps[Child(g, i)].parent = Saved(g, i).current
        BY <1>3, <2>3, <2>4, <2>6, <3>1
      <4> QED
        BY <2>3, <2>4, <3>1, <4>3, <1>1, <1>2, <2>6
    <3>2. CASE i = n + 1
      BY <3>2, <2>3, <2>4, <1>2, <1>1
    <3> QED
      BY <3>1, <3>2
  <2> QED
    BY <2>4, <1>1, <2>3, <2>6, <2>11, <1>3 DEF Programs, Line
<1> QED
  BY <1>4, <1>5 DEF Entered

(* The child runs. *)
LEMMA SealedGoes ==
  ASSUME NEW d \in Domain, NEW x, NEW h, Safe(d, x, h), x.at = "seal", CanAdvance(d),
         NEW c, c = x.child, NEW s, s = x.session, NEW e, e = SealedAt(d, c, s),
         NEW g, g = IF h.at = "starting" THEN Starting(h, c, s)
                    ELSE Deeper(h, s, c, d.runtime)
  PROVE  e \in Domain /\ Goes(d, x, h, e, Quiet, g)
<1>1. /\ h \in ShellRecord /\ x \in ExecRecord /\ StageHeld(d, x, h)
      /\ ShellHeld(x, h) /\ SessionsHeld(d, x, h)
  BY DEF Safe, TypeInv
<1>2. /\ c \in Psps /\ s \in Sessions /\ d.leases[1].state = "CLOSED"
      /\ h.at \in {"starting", "running"}
      /\ \A k \in Batches \ {1} : d.batches[k].state = "FREE"
      /\ \A l \in FileLeases \ {1} : d.leases[l] = VacantLease
  BY <1>1 DEF StageHeld, ExecRecord
<1>3. Sealing(d, e, c, s)
  BY <1>2, SealedIs
<1>4. PICK v \in Snapshot : v = d.runtime
  BY Parts
<1>5. Entered(h, g, c, s, v)
  BY <1>1, <1>2, <1>4, EnteredIs
<1>6. ShellHeld(Quiet, g) /\ SessionsHeld(e, Quiet, g) /\ g \in ShellRecord
      /\ g.at = "running"
  BY <1>1, <1>2, <1>3, <1>5, EnteredHeld, ZenonT(60) DEF Entered
<1>7. /\ e \in Domain /\ e.poison = d.poison /\ e.faults = d.faults
      /\ e.leases[1] = VacantLease /\ e.batches[1].state = "FREE"
      /\ \A k \in Batches \ {1} : e.batches[k] = d.batches[k]
      /\ \A l \in FileLeases \ {1} : e.leases[l] = d.leases[l]
  BY <1>3 DEF Sealing, SameHealth
<1>8. Quiet \in ExecRecord /\ Quiet.at = "idle" /\ Quiet.child = None
  BY DEF Quiet, ExecRecord, None
<1>10. TypeInv(e, Quiet, g)
  BY <1>6, <1>7, <1>8, <1>2 DEF TypeInv, StageHeld
<1>11. ASSUME e.poison = {}
       PROVE  /\ SoundInv(e, Quiet, g)
              /\ Programs(d, h) => Programs(e, g)
  BY <1>7, <1>11, <1>1, <1>2, <1>3, SealedBooks, <1>4, <1>5, EnteredWaits, <1>8,
     EnteredLine DEF Safe, SoundInv, ChildHeld, StageHeld, LiveOf
<1>13. Later(d, e)
  BY <1>7, Parts DEF Later
<1> QED
  BY <1>7, <1>8, <1>10, <1>11, <1>1, <1>2, <1>3, <1>5, EnteredUsed, <1>13
  DEF Goes, Safe, Calm

(* ExecSeal preserves the invariant. *)
LEMMA SealGoes ==
  ASSUME IndInv, ExecSeal
  PROVE  IndInv'
<1>1. Safe(Now, exec, shell) /\ Now \in Domain
  BY NowSafe
<1>2. exec.at = "seal" /\ changes' = changes /\ strayed' = strayed
  BY DEF ExecSeal
<1>3. shell.at \in {"starting", "running"}
  BY <1>1, <1>2 DEF Safe, TypeInv, StageHeld
<1>4. CASE CanAdvance(Now) /\ poison \cap {"arena", "runtime"} = {}
  <2>1. PICK c, s, e, g : /\ c = exec.child /\ s = exec.session
                          /\ e = SealedAt(Now, c, s) /\ g = shell'
    OBVIOUS
  <2>6. e \in Domain /\ Goes(Now, exec, shell, e, Quiet, g)
    BY <1>1, <1>2, <1>4, <2>1, NowIs, SealedGoes DEF ExecSeal, Starting, Deeper
  <2> QED
    BY <1>2, <2>1, <1>4, NowIs, <2>6, Became, GoesOn
    DEF IndInv, ExecSeal, Sealed, SealedAt, Born, NewPsp, PspOf
<1>5. CASE ~(CanAdvance(Now) /\ poison \cap {"arena", "runtime"} = {})
  <2>1. UNCHANGED <<domain, shell>> /\ Fail(FALSE)
    BY <1>5 DEF ExecSeal
  <2>2. Become(Now) /\ shell' = shell
    BY <2>1 DEF Become, domain, Now
  <2>3. PICK u : u = exec' /\ u = [exec EXCEPT !.at = "abort", !.visible = FALSE]
    BY <2>1 DEF Fail
  <2>5. Now' = Now
    BY <1>1, <2>2, Became
  <2> QED
    BY <1>2, <2>2, <2>3, <1>1, FailedGoes, <2>5, GoesOn DEF IndInv
<1> QED
  BY <1>4, <1>5

(* What an aborted transaction leaves in the domain *)
Left(d, e, x, st) ==
  /\ e \in Domain /\ SameRuntime(d, e) /\ Later(d, e)
  /\ \A k \in FileLeases \ {1} : e.leases[k] = d.leases[k]
  /\ \A k \in Batches \ {1} : e.batches[k] = d.batches[k]
  /\ \A s \in Sessions \ {x.session} : e.sessions[s] = d.sessions[s]
  /\ st \in {"OK", "BACKEND_POISONED"} => e.leases[1] = VacantLease
  /\ st = "OK" /\ x.session # None => e.sessions[x.session] = "VACANT"
  /\ st = "BACKEND_POISONED" => e.poison # {}
  /\ e.poison = {} => Back(d, e)

(* What EXEC and the driver are then *)
Answered(x, h, st, u, g) ==
  /\ \/ st \in {"OK", "BACKEND_POISONED"} /\ u = Quiet
     \/ st \notin {"OK", "BACKEND_POISONED"} /\ u = [x EXCEPT !.at = "stranded"]
  /\ \/ h.at = "starting" /\ g = AtPrompt
     \/ h.at # "starting" /\ st = "OK" /\ g = h
     \/ h.at # "starting" /\ g = Stopping(h)

(* An EXEC that is given up is a step of the system. *)
LEMMA AbortedGoes ==
  ASSUME NEW d \in Domain, NEW x, NEW h, Safe(d, x, h), x.at = "abort",
         NEW st, NEW e, Left(d, e, x, st), NEW u, NEW g, Answered(x, h, st, u, g)
  PROVE  Goes(d, x, h, e, u, g)
<1>1. /\ h \in ShellRecord /\ x \in ExecRecord /\ StageHeld(d, x, h)
      /\ ShellHeld(x, h) /\ SessionsHeld(d, x, h)
  BY DEF Safe, TypeInv
<1>2. /\ e \in Domain /\ SameRuntime(d, e) /\ Later(d, e)
      /\ \A k \in FileLeases \ {1} : e.leases[k] = d.leases[k]
      /\ \A k \in Batches \ {1} : e.batches[k] = d.batches[k]
      /\ \A s \in Sessions \ {x.session} : e.sessions[s] = d.sessions[s]
      /\ st \in {"OK", "BACKEND_POISONED"} => e.leases[1] = VacantLease
      /\ st = "OK" /\ x.session # None => e.sessions[x.session] = "VACANT"
      /\ st = "BACKEND_POISONED" => e.poison # {}
  BY DEF Left
<1>3. /\ None \notin Sessions /\ Quiet \in ExecRecord /\ Quiet.at = "idle"
      /\ Quiet.child = None /\ Quiet.session = None
  BY DEF Sessions, None, Quiet, ExecRecord
<1>4. /\ u \in ExecRecord /\ u.at \in {"idle", "stranded"}
      /\ u.at = "idle" => u = Quiet /\ st \in {"OK", "BACKEND_POISONED"}
      /\ u.at = "stranded" => st # "OK"
  BY <1>1, <1>3 DEF ExecRecord, Answered
<1>5. h.at \in {"starting", "running"}
  BY <1>1 DEF StageHeld
<1>6. /\ AtPrompt \in ShellRecord /\ AtPrompt.at = "prompt"
      /\ Len(AtPrompt.stops) = 0 /\ Len(AtPrompt.frames) = 0
  BY Numbers, RuntimeAssumption DEF AtPrompt, Snapshot, ShellRecord
<1>7. \/ h.at = "starting" /\ g = AtPrompt
      \/ h.at = "running" /\ st = "OK" /\ g = h
      \/ h.at = "running" /\ g = Stopping(h)
  BY <1>5 DEF Answered
<1>8. h.at = "running" /\ g = Stopping(h) =>
        /\ g \in ShellRecord /\ g.at = "stopping" /\ ShellHeld(x, g)
        /\ g.frames = h.frames /\ g.child = h.child /\ g.saved = h.saved
        /\ InUse(g) = InUse(h)
        /\ \A i, k \in 1 .. Len(g.stops) : g.stops[i] = g.stops[k] => i = k
  BY <1>1, StoppingKept DEF SessionsHeld
<1>12. h.at = "running" =>
         \A i \in 1 .. Depth(h) + 1 :
           /\ SessionOf(h, i) \in Sessions /\ SessionOf(h, i) # x.session
           /\ d.sessions[SessionOf(h, i)] # "VACANT"
  BY <1>1, ShellTyped DEF SessionsHeld, ShellHeld
<1>15. ASSUME e.poison = {}
       PROVE  SoundInv(d, x, h) /\ Back(d, e) /\ Alike(d, e)
  BY <1>2, <1>15, Parts DEF Later, Left, Snapshot, Safe, Back, Alike, SameRuntime
<1>16. ASSUME e.poison = {}
       PROVE  SoundInv(e, u, g)
  BY <1>15, <1>16, <1>1, <1>2, ProgramsSame, <1>3, <1>4, <1>6, <1>8, SameWaiting, <1>7
  DEF SoundInv, Back, ChildHeld, WaitingLive
<1>17. ASSUME e.poison = {}, u.at # "stranded", Calm(d, x, h)
       PROVE  Calm(e, u, g)
  BY <1>2, <1>4, <1>17, <1>1, <1>15, ProgramsSame, <1>6, <1>8, LineShell, <1>7, <1>12,
     <1>5, <1>3 DEF Calm, Programs, InUse, SessionsUsed
<1> QED
  BY <1>2, <1>4, <1>1, <1>6, <1>7, <1>8, SessionAssumption, <1>3, <1>12, <1>16, <1>17
  DEF Goes, Safe, TypeInv, SessionsHeld, ShellHeld, StageHeld

(* ExecAbort preserves the invariant. *)
LEMMA AbortGoes ==
  ASSUME IndInv, ExecAbort
  PROVE  IndInv'
<1>1. Safe(Now, exec, shell) /\ Now \in Domain /\ exec \in ExecRecord
  BY NowSafe
<1>2. exec.at = "abort" /\ changes' = changes /\ strayed' = strayed
  BY DEF ExecAbort
<1>3. PICK r \in Aborted(Now) :
        /\ Become(r.d)
        /\ exec' = IF r.st \in {"OK", "BACKEND_POISONED"} THEN Quiet
                   ELSE [exec EXCEPT !.at = "stranded"]
        /\ shell' = IF shell.at = "starting" THEN AtPrompt
                    ELSE IF r.st = "OK" /\ exec.visible THEN shell
                    ELSE Stopping(shell)
  BY DEF ExecAbort
<1>4. PICK e, u, g, st : e = r.d /\ u = exec' /\ g = shell' /\ st = r.st
  OBVIOUS
<1>7. Left(Now, e, exec, st)
  BY <1>4, <1>1, <1>2, AbortedIs DEF Left, Gone, Safe, TypeInv, StageHeld, SoundInv
<1> QED
  BY <1>2, <1>4, <1>1, <1>7, <1>3, AbortedGoes, Became, GoesOn
  DEF IndInv, Left, Answered

-----------------------------------------------------------------------------
(* The end of programs.                                                    *)

(* The frames without the last one *)
LEMMA ShorterIs ==
  ASSUME NEW h \in ShellRecord, h.frames # <<>>, NEW g, g.frames = Front(h.frames),
         g.child = h.child, g.saved = h.saved
  PROVE  /\ Depth(h) \in Nat \ {0} /\ Depth(g) = Depth(h) - 1
         /\ g.frames \in Seq(Frame)
         /\ \A i \in 0 .. Depth(h) - 1 :
              Child(g, i) = Child(h, i) /\ Saved(g, i) = Saved(h, i)
         /\ Last(h.frames).saved = Saved(h, Depth(h))
         /\ Last(h.frames).child = Child(h, Depth(h))
         /\ Last(h.frames).session = SessionOf(h, Depth(h))
         /\ Last(h.frames) \in Frame
         /\ g.session = Last(h.frames).session =>
              \A i \in 1 .. Depth(h) : SessionOf(g, i) = SessionOf(h, i)
<1>1. PICK q \in Seq(Frame) : q = h.frames
  BY DEF ShellRecord
<1>2. PICK n \in Nat \ {0} : n = Len(q) /\ n = Depth(h)
  BY <1>1, EmptySeq, LenProperties DEF Depth
<1>3. PICK z : z = SubSeq(q, 1, n - 1)
  OBVIOUS
<1>4. z = g.frames /\ Last(h.frames) = q[n]
  BY <1>1, <1>2, <1>3 DEF Front, Last
<1>5. \A i \in 1 .. n : q[i] \in Frame
  BY <1>2, ElementOfSeq
<1>6. /\ z \in Seq(Frame) /\ Len(z) = n - 1
      /\ \A i \in 1 .. n - 1 : z[i] = q[i]
  BY <1>5, SubSeqProperties, <1>2, <1>3
<1>7. Depth(g) = n - 1
  BY <1>4, <1>6 DEF Depth
<1>9. q[n].saved = Saved(h, n) /\ q[n].child = Child(h, n) /\ q[n].session = SessionOf(h, n)
  BY <1>2, <1>1 DEF Saved, Child, SessionOf
<1>10. ASSUME g.session = q[n].session, NEW i \in 1 .. n
       PROVE  SessionOf(g, i) = SessionOf(h, i)
  <2>1. CASE i = n
    BY <1>2, <1>7, <1>9, <1>10, <2>1 DEF SessionOf
  <2>2. CASE i # n
    BY <1>2, <2>2, <1>1, <1>4, <1>6, <1>7 DEF SessionOf
  <2> QED
    BY <2>1, <2>2
<1> QED
  BY <1>2, <1>4, <1>6, <1>7, <1>1, <1>9, <1>10, <1>5 DEF Child, Saved

(* What the end of the deepest program p leaves, with s restored *)
Outlived(d, e, s, p) ==
  /\ LiveOf(e) = LiveOf(d) \ {p}
  /\ \A q \in LiveOf(e) : e.psps[q] = d.psps[q]
  /\ e.vectors = d.psps[p].vectors
  /\ e.runtime.generation = d.runtime.generation + 1
  /\ e.runtime.current = s.current /\ e.runtime.dta = s.dta

(* dos_terminate_execute for the deepest program *)
LEMMA DeepestEnds ==
  ASSUME NEW d \in Domain, NEW h \in ShellRecord, h.child # None,
         h.at \notin {"prompt", "starting"}, NEW s, s = Saved(h, Depth(h)),
         NEW p, p = Child(h, Depth(h)), NEW r \in Terminate(d, s, p), NEW e, e = r.d
  PROVE  /\ e \in Domain /\ SameExec(d, e) /\ Later(d, e)
         /\ e.poison = {} /\ Books(d) /\ WaitingLive(d, h) =>
              /\ Books(e) /\ e.runtime.current \in LiveOf(e)
              /\ r.st = "OK" => Outlived(d, e, s, p)
              /\ r.st # "OK" => LiveOf(e) = LiveOf(d)
              /\ \A i \in 0 .. Depth(h) : Saved(h, i).current \in LiveOf(e)
         /\ e.poison = {} /\ e.faults = 0 /\ Line(d, h) => r.st = "OK"
<1>1. PICK n \in Nat : n = Depth(h)
  BY ShellTyped
<1>2. p \in Psps /\ s \in Snapshot /\ n \in 0 .. n
  BY <1>1, ShellTyped
<1>3. /\ e \in Domain /\ SameExec(d, e) /\ Later(d, e)
      /\ r.st = "OK" =>
           /\ PlanIsCurrent(d, s, p) /\ e.poison = d.poison
           /\ e.vectors = d.psps[p].vectors
           /\ e.runtime.generation = d.runtime.generation + 1
           /\ e.runtime.current = s.current /\ e.runtime.dta = s.dta
           /\ Buried(d, e, p)
           /\ Books(d) /\ p \in LiveOf(d) => Books(e)
      /\ r.st # "OK" =>
           \/ e.poison # {}
           \/ e = d /\ ~PlanIsCurrent(d, s, p)
           \/ CanFail(d) /\ e = Faulty(d)
  BY <1>2, TerminateIs
<1>4. ASSUME e.poison = {}, Books(d), WaitingLive(d, h)
      PROVE  /\ Books(e) /\ e.runtime.current \in LiveOf(e)
             /\ r.st = "OK" => Outlived(d, e, s, p)
             /\ r.st # "OK" => LiveOf(e) = LiveOf(d)
             /\ \A i \in 0 .. n : Saved(h, i).current \in LiveOf(e)
  <2>1. /\ d.runtime.current \in LiveOf(d)
        /\ \A i \in 0 .. n : /\ Saved(h, i).current \in LiveOf(d)
                             /\ \A k \in i .. n : Child(h, k) # Saved(h, i).current
    BY <1>1, <1>4 DEF WaitingLive
  <2>2. \A i \in 0 .. n : n \in i .. n
    OBVIOUS
  <2>3. \A i \in 0 .. n : Saved(h, i).current \in LiveOf(d) \ {p}
    BY <1>1, <2>1, <2>2
  <2>4. CASE r.st = "OK"
    <3>1. p \in LiveOf(d)
      BY <1>3, <2>1, <2>4 DEF PlanIsCurrent
    <3>2. Books(e)
      BY <1>3, <1>4, <2>4, <3>1
    <3>3. LiveOf(e) = LiveOf(d) \ {p}
      BY <1>3, <1>4, <2>4, <3>1, BuriedBooks DEF Books
    <3>4. NoOwner \notin Psps
      BY Numbers
    <3>5. \A q \in LiveOf(e) : e.psps[q] = d.psps[q]
      BY <1>3, <2>4, <3>4 DEF LiveOf, Buried
    <3>6. Outlived(d, e, s, p)
      BY <1>3, <2>4, <3>3, <3>5 DEF Outlived
    <3>7. e.runtime.current \in LiveOf(e)
      BY <1>1, <1>2, <1>3, <2>3, <2>4, <3>3
    <3> QED
      BY <2>3, <2>4, <3>2, <3>3, <3>6, <3>7
  <2>5. CASE r.st # "OK"
    <3>1. e = d \/ (CanFail(d) /\ e = Faulty(d))
      BY <1>3, <1>4, <2>5
    <3>2. SameFiles(d, e) /\ SameMemory(d, e) /\ SameRuntime(d, e)
      BY <3>1, FaultyIs DEF SameFiles, SameMemory, SameRuntime
    <3>3. Books(e)
      BY <1>3, <1>4, <3>2, BooksKept DEF SameExec
    <3>4. LiveOf(e) = LiveOf(d) /\ e.runtime.current = d.runtime.current
      BY <3>2 DEF SameMemory, SameRuntime, LiveOf
    <3> QED
      BY <2>1, <2>5, <3>3, <3>4
  <2> QED
    BY <2>4, <2>5
<1>5. ASSUME e.poison = {}, e.faults = 0, Line(d, h)
      PROVE  r.st = "OK"
  <2>1. /\ d.runtime.current = p /\ d.psps[p].parent = s.current
        /\ s.generation < d.runtime.generation
    BY <1>1, <1>2, <1>5 DEF Line
  <2>2. s.generation \in Nat /\ d.runtime.generation \in Nat
    BY <1>2, Parts DEF Snapshot
  <2>3. PlanIsCurrent(d, s, p)
    BY <2>1, <2>2 DEF PlanIsCurrent
  <2>4. ~(CanFail(d) /\ e = Faulty(d))
    <3>1. d.faults \in Nat
      BY Parts
    <3> QED
      BY <1>5, <3>1, FaultyIs
  <2> QED
    BY <1>3, <1>5, <2>3, <2>4
<1> QED
  BY <1>1, <1>3, <1>4, <1>5

(* The line is one program shorter. *)
LEMMA ShorterLine ==
  ASSUME NEW d \in Domain, NEW h \in ShellRecord, Line(d, h), NEW n \in Nat,
         n + 1 = Depth(h), NEW e, Outlived(d, e, Saved(h, n + 1), Child(h, n + 1)),
         NEW g, Depth(g) = n,
         \A i \in 0 .. n : Child(g, i) = Child(h, i) /\ Saved(g, i) = Saved(h, i)
  PROVE  Line(e, g)
<1>1. /\ LiveOf(d) = {COMMAND} \cup {Child(h, i) : i \in 0 .. n + 1}
      /\ \A i \in 0 .. n + 1 :
           /\ Child(h, i) # COMMAND
           /\ \A k \in 0 .. n + 1 : Child(h, i) = Child(h, k) => i = k
           /\ Saved(h, i).current = IF i = 0 THEN COMMAND ELSE Child(h, i - 1)
           /\ d.psps[Child(h, i)].parent = Saved(h, i).current
           /\ Saved(h, i).generation < d.runtime.generation
      /\ Saved(h, 0).dta = COMMAND /\ d.psps[Child(h, 0)].vectors = COMMAND
  BY DEF Line
<1>2. /\ LiveOf(e) = LiveOf(d) \ {Child(h, n + 1)}
      /\ \A q \in LiveOf(e) : e.psps[q] = d.psps[q]
      /\ e.runtime.generation = d.runtime.generation + 1
      /\ e.runtime.current = Saved(h, n + 1).current
  BY DEF Outlived
<1>3. /\ \A i \in 0 .. n : i \in 0 .. n + 1 /\ i # n + 1
      /\ \A i \in 0 .. n + 1 : i \in 0 .. n \/ i = n + 1
      /\ n + 1 \in 0 .. n + 1 /\ n + 1 # 0 /\ n + 1 - 1 = n /\ n \in 0 .. n /\ 0 \in 0 .. n
  OBVIOUS
<1>4. LiveOf(e) = {COMMAND} \cup {Child(g, i) : i \in 0 .. n}
  BY <1>1, <1>3, <1>2
<1>5. \A i \in 0 .. n : Child(g, i) \in LiveOf(e)
  BY <1>4
<1>6. d.runtime.generation \in Nat /\ \A i \in 0 .. n : Saved(h, i).generation \in Nat
  BY ShellTyped, <1>3, Parts DEF Snapshot
<1>7. ASSUME NEW i \in 0 .. n
      PROVE  /\ Child(g, i) # COMMAND
             /\ \A k \in 0 .. n : Child(g, i) = Child(g, k) => i = k
             /\ Saved(g, i).current = IF i = 0 THEN COMMAND ELSE Child(g, i - 1)
             /\ e.psps[Child(g, i)].parent = Saved(g, i).current
             /\ Saved(g, i).generation < e.runtime.generation
  BY <1>1, <1>3, <1>2, <1>5, <1>6
<1> QED
  BY <1>4, <1>7, <1>1, <1>2, <1>3, <1>5 DEF Line

Resuming(h) ==
  [h EXCEPT !.session = Last(h.frames).session, !.frames = Front(@)]

(* The parent runs again, as a record of the driver. *)
LEMMA ResumingIs ==
  ASSUME NEW h \in ShellRecord, NEW x, ShellHeld(x, h), h.at = "running",
         h.frames # <<>>, NEW b, b = Resuming(h)
  PROVE  /\ b \in ShellRecord /\ b.at = "running" /\ ShellHeld(x, b)
         /\ Depth(h) \in Nat \ {0} /\ Depth(b) = Depth(h) - 1
         /\ \A i \in 0 .. Depth(h) - 1 :
              Child(b, i) = Child(h, i) /\ Saved(b, i) = Saved(h, i)
         /\ \A i \in 1 .. Depth(h) : SessionOf(b, i) = SessionOf(h, i)
<1>1. /\ b.at = "running" /\ b.session = Last(h.frames).session /\ b.child = h.child
      /\ b.saved = h.saved /\ b.stops = h.stops /\ b.frames = Front(h.frames)
  BY DEF Resuming, ShellRecord
<1>2. /\ Depth(h) \in Nat \ {0} /\ Depth(b) = Depth(h) - 1
      /\ b.frames \in Seq(Frame)
      /\ \A i \in 0 .. Depth(h) - 1 :
           Child(b, i) = Child(h, i) /\ Saved(b, i) = Saved(h, i)
      /\ Last(h.frames) \in Frame
      /\ \A i \in 1 .. Depth(h) : SessionOf(b, i) = SessionOf(h, i)
  BY <1>1, ShorterIs
<1>3. b \in ShellRecord /\ b.session \in Sessions
  BY <1>2, <1>1 DEF Frame, Resuming, ShellRecord
<1> QED
  BY <1>1, <1>2, <1>3, SessionAssumption DEF ShellHeld, Sessions, None, Depth

(* AH=4Ch of a program whose parent waits *)
LEMMA ExitedGoes ==
  ASSUME NEW d \in Domain, NEW x, NEW h, Safe(d, x, h), h.at = "running",
         x.at \in {"idle", "stranded"}, h.frames # <<>>,
         NEW f, SessionStep(d, f, h.session), SameHealth(d, f),
         f.sessions[h.session] = "VACANT", NEW s, s = Saved(h, Depth(h)),
         NEW p, p = Child(h, Depth(h)), NEW r \in Terminate(f, s, p), NEW e, e = r.d,
         NEW b, b = Resuming(h), NEW g, g = IF r.st = "OK" THEN b ELSE Stopping(b)
  PROVE  e \in Domain /\ Goes(d, x, h, e, x, g)
<1>1. /\ h \in ShellRecord /\ x \in ExecRecord /\ StageHeld(d, x, h)
      /\ ShellHeld(x, h) /\ SessionsHeld(d, x, h)
  BY DEF Safe, TypeInv
<1>2. /\ x.at = "idle" /\ x = Quiet /\ x.session = None /\ x.child = None
      /\ h.child # None /\ h.session # None /\ h.session \in Sessions
      /\ None \notin Sessions
  BY <1>1 DEF StageHeld, Quiet, ShellHeld, ShellRecord, Sessions, None
<1>3. /\ f \in Domain /\ SameFiles(d, f) /\ f.batches = d.batches
      /\ f.leases = d.leases /\ SameMemory(d, f) /\ SameRuntime(d, f)
      /\ f.poison = d.poison /\ f.faults = d.faults
      /\ \A t \in Sessions \ {h.session} : f.sessions[t] = d.sessions[t]
      /\ Books(d) => Books(f)
  BY DEF SessionStep, SameHealth
<1>4. /\ b \in ShellRecord /\ b.at = "running" /\ ShellHeld(x, b)
      /\ Depth(h) \in Nat \ {0} /\ Depth(b) = Depth(h) - 1
      /\ \A i \in 0 .. Depth(h) - 1 :
           Child(b, i) = Child(h, i) /\ Saved(b, i) = Saved(h, i)
      /\ \A i \in 1 .. Depth(h) : SessionOf(b, i) = SessionOf(h, i)
  BY <1>1, ResumingIs
<1>5. PICK n \in Nat : Depth(h) = n + 1 /\ Depth(b) = n /\ Depth(h) - 1 = n
  <2>1. Depth(h) - 1 \in Nat /\ Depth(h) = (Depth(h) - 1) + 1
    BY <1>4
  <2> QED
    BY <1>4, <2>1
<1>6. /\ e \in Domain /\ SameExec(f, e) /\ Later(f, e)
      /\ e.poison = {} /\ Books(f) /\ WaitingLive(f, h) =>
           /\ Books(e) /\ e.runtime.current \in LiveOf(e)
           /\ r.st = "OK" => Outlived(f, e, s, p)
           /\ r.st # "OK" => LiveOf(e) = LiveOf(f)
           /\ \A i \in 0 .. Depth(h) : Saved(h, i).current \in LiveOf(e)
      /\ e.poison = {} /\ e.faults = 0 /\ Line(f, h) => r.st = "OK"
  BY <1>1, <1>2, <1>3, DeepestEnds
<1>7. Later(d, e) /\ Alike(d, f) /\ e.sessions = f.sessions
      /\ e.leases = d.leases /\ e.batches = d.batches
  <2>1. Alike(d, f)
    BY <1>3, AlikeSame
  <2> QED
    BY <1>3, <1>6, <2>1 DEF Later, SameExec
<1>8. r.st # "OK" =>
        /\ g \in ShellRecord /\ g.at = "stopping" /\ ShellHeld(x, g)
        /\ g.frames = b.frames /\ g.child = b.child /\ g.saved = b.saved
  BY <1>4, StoppingKept
<1>9. /\ g \in ShellRecord /\ g.at \in {"running", "stopping"} /\ ShellHeld(x, g)
      /\ g.at = "running" => g = b /\ r.st = "OK"
      /\ r.st = "OK" => g = b
  BY <1>4, <1>8
<1>10. /\ Depth(g) = n
       /\ \A i \in 0 .. n : Child(g, i) = Child(h, i) /\ Saved(g, i) = Saved(h, i)
  <2>1. CASE r.st = "OK"
    BY <1>4, <1>5, <2>1
  <2>2. CASE r.st # "OK"
    <3>1. /\ Depth(g) = Depth(b)
          /\ \A i : Child(g, i) = Child(b, i) /\ Saved(g, i) = Saved(b, i)
      BY <1>8, <2>2, SameWaiting
    <3> QED
      BY <1>4, <1>5, <3>1
  <2> QED
    BY <2>1, <2>2
<1>11. StageHeld(e, x, g)
  BY <1>1, <1>2, <1>7, <1>9 DEF StageHeld
<1>12. /\ \A i, k \in 1 .. n + 2 : SessionOf(h, i) = SessionOf(h, k) => i = k
       /\ \A i \in 1 .. n + 2 : d.sessions[SessionOf(h, i)] # "VACANT"
       /\ \A i \in 1 .. n + 2 : SessionOf(h, i) \in Sessions
       /\ SessionOf(h, n + 2) = h.session
  <2>1. Depth(h) + 1 = n + 2
    BY <1>5
  <2> QED
    BY <1>1, <1>2, <2>1, ShellTyped DEF SessionsHeld, SessionOf
<1>13. \A i \in 1 .. n + 1 : i \in 1 .. n + 2 /\ i # n + 2 /\ n + 2 \in 1 .. n + 2
  OBVIOUS
<1>14. \A i \in 1 .. n + 1 :
         /\ SessionOf(b, i) = SessionOf(h, i) /\ SessionOf(h, i) # h.session
         /\ SessionOf(h, i) \in Sessions /\ e.sessions[SessionOf(h, i)] # "VACANT"
  <2>1. ASSUME NEW i \in 1 .. n + 1
        PROVE  /\ SessionOf(b, i) = SessionOf(h, i) /\ SessionOf(h, i) # h.session
               /\ SessionOf(h, i) \in Sessions /\ e.sessions[SessionOf(h, i)] # "VACANT"
    <3>1. SessionOf(h, i) # h.session /\ SessionOf(h, i) \in Sessions
      BY <1>12, <1>13
    <3>2. SessionOf(b, i) = SessionOf(h, i)
      BY <1>4, <1>5
    <3>3. e.sessions[SessionOf(h, i)] = d.sessions[SessionOf(h, i)]
      BY <1>3, <1>7, <3>1
    <3> QED
      BY <1>12, <1>13, <3>1, <3>2, <3>3
  <2> QED
    BY <2>1
<1>15. SessionsHeld(e, x, g)
  <2>1. CASE g.at = "running"
    <3>1. g = b /\ Depth(g) + 1 = n + 1
      BY <1>5, <1>9, <2>1
    <3>2. \A i, k \in 1 .. n + 1 : SessionOf(b, i) = SessionOf(b, k) => i = k
      BY <1>12, <1>13, <1>14
    <3>3. \A i \in 1 .. n + 1 : /\ SessionOf(b, i) # x.session
                                /\ e.sessions[SessionOf(b, i)] # "VACANT"
      BY <1>2, <1>14
    <3> QED
      BY <1>2, <3>1, <3>2, <3>3 DEF SessionsHeld
  <2>2. CASE g.at # "running"
    BY <1>2, <2>2 DEF SessionsHeld
  <2> QED
    BY <2>1, <2>2
<1>16. TypeInv(e, x, g)
  BY <1>1, <1>6, <1>9, <1>11, <1>15 DEF TypeInv
<1>17. ASSUME e.poison = {}
       PROVE  Books(f) /\ WaitingLive(f, h) /\ WaitingLive(d, h) /\ ChildHeld(d, x)
  <2>1. d.poison = {}
    BY <1>7, <1>17 DEF Later
  <2>2. Books(d) /\ ChildHeld(d, x) /\ WaitingLive(d, h)
    BY <2>1 DEF Safe, SoundInv
  <2>3. WaitingLive(f, h)
    BY <1>1, <1>3, <1>7, <2>2, ProgramsSame
  <2> QED
    BY <1>3, <2>2, <2>3
<1>18. ASSUME e.poison = {}
       PROVE  SoundInv(e, x, g)
  <2>1. /\ Books(e) /\ e.runtime.current \in LiveOf(e)
        /\ \A i \in 0 .. n + 1 : Saved(h, i).current \in LiveOf(e)
    BY <1>5, <1>6, <1>17, <1>18
  <2>2. ChildHeld(e, x)
    BY <1>2, <1>7, <1>17, <1>18 DEF ChildHeld
  <2>3. ASSUME NEW i \in 0 .. n
        PROVE  /\ Saved(g, i).current \in LiveOf(e)
               /\ \A k \in i .. n : Child(g, k) # Saved(g, i).current
    <3>1. i \in 0 .. n + 1 /\ \A k \in i .. n : k \in i .. n + 1 /\ k \in 0 .. n
      OBVIOUS
    <3>2. \A k \in i .. n + 1 : Child(h, k) # Saved(h, i).current
      BY <1>5, <1>17, <1>18, <3>1 DEF WaitingLive
    <3> QED
      BY <1>10, <2>1, <3>1, <3>2
  <2>4. WaitingLive(e, g)
    BY <1>9, <1>10, <2>1, <2>3 DEF WaitingLive
  <2> QED
    BY <2>1, <2>2, <2>4 DEF SoundInv
<1>19. ASSUME e.poison = {}, e.faults = 0, Calm(d, x, h)
       PROVE  Calm(e, x, g)
  <2>1. Line(d, h) /\ SessionsUsed(d, x, h)
    BY <1>19 DEF Calm, Programs
  <2>2. Line(f, h)
    BY <1>1, <1>3, <1>7, <2>1, LineSame
  <2>3. r.st = "OK" /\ g = b
    BY <1>6, <1>9, <1>19, <2>2
  <2>4. Outlived(f, e, s, p)
    BY <1>6, <1>17, <1>19, <2>3
  <2>5. Line(e, g)
    <3>1. n + 1 = Depth(h) /\ Outlived(f, e, Saved(h, n + 1), Child(h, n + 1))
      BY <1>5, <2>4
    <3>2. f \in Domain /\ h \in ShellRecord
      BY <1>1, <1>3
    <3> QED
      BY <1>10, <2>2, <3>1, <3>2, ShorterLine
  <2>6. Programs(e, g)
    BY <1>9, <2>5 DEF Programs
  <2>7. InUse(h) = InUse(g) \cup {h.session} /\ h.session \notin InUse(g)
    <3>1. InUse(h) = {SessionOf(h, i) : i \in 1 .. n + 2}
      <4>1. Depth(h) + 1 = n + 2
        BY <1>5
      <4> QED
        BY <4>1 DEF InUse
    <3>2. InUse(g) = {SessionOf(b, i) : i \in 1 .. n + 1}
      <4>1. Depth(b) + 1 = n + 1
        BY <1>5
      <4> QED
        BY <1>4, <2>3, <4>1 DEF InUse
    <3>3. InUse(g) = {SessionOf(h, i) : i \in 1 .. n + 1}
      BY <1>14, <3>2
    <3>4. \A i \in 1 .. n + 2 : i \in 1 .. n + 1 \/ i = n + 2
      OBVIOUS
    <3>5. n + 2 \in 1 .. n + 2
      OBVIOUS
    <3>6. InUse(h) = InUse(g) \cup {h.session}
      BY <1>12, <1>13, <3>1, <3>3, <3>4, <3>5
    <3>7. h.session \notin InUse(g)
      BY <1>14, <3>3
    <3> QED
      BY <3>6, <3>7
  <2>8. \A t \in Sessions : d.sessions[t] = IF t \in InUse(h) THEN "RUNNABLE" ELSE "VACANT"
    BY <1>2, <2>1 DEF SessionsUsed
  <2>9. \A t \in Sessions : e.sessions[t] = IF t \in InUse(g) THEN "RUNNABLE" ELSE "VACANT"
    BY <1>3, <1>7, <2>7, <2>8
  <2>10. SessionsUsed(e, x, g)
    BY <1>2, <1>4, <2>3, <2>9 DEF SessionsUsed
  <2> QED
    BY <2>6, <2>10 DEF Calm
<1> QED
  BY <1>6, <1>7, <1>16, <1>18, <1>19 DEF Goes, Safe

(* A session that can run and is not retired is poisoned. *)
LEMMA RunningStops ==
  ASSUME NEW d \in Domain, NEW s \in Sessions, CanRun(d, s),
         NEW r \in StopAndRetire(d, s), r.st # "OK"
  PROVE  r.d.poison # {} /\ r.d.sessions[s] = "POISONED"
<1>2. PICK q \in StopSession(d, s) :
        r = IF q.st = "OK" THEN Result(RetireSession(q.d, s), "OK") ELSE q
  BY DEF StopAndRetire, CanRun
<1> QED
  BY <1>2, StopIs DEF Result

(* GuestExit preserves the invariant. *)
LEMMA ExitGoes ==
  ASSUME IndInv, GuestExit
  PROVE  IndInv'
<1>1. Safe(Now, exec, shell) /\ Now \in Domain /\ shell \in ShellRecord
  BY NowSafe
<1>2. /\ shell.at = "running" /\ exec.at \in {"idle", "stranded"}
      /\ CanRun(Now, shell.session) /\ exec' = exec /\ changes' = changes
      /\ strayed' = strayed
  BY DEF GuestExit, Running
<1>3. CASE shell.frames = <<>>
  BY <1>3, <1>1, HandleStays, KeptGuested, <1>2, GuestEnd, GoesOn
  DEF GuestExit, Become, domain, Now, IndInv
<1>4. CASE shell.frames # <<>>
  <2>1. PICK t \in Sessions : t = shell.session
    BY <1>1, <1>2 DEF Safe, TypeInv, ShellHeld, ShellRecord
  <2>2. PICK q \in StopAndRetire(Now, t) :
          IF q.st # "OK" THEN Become(q.d) /\ shell' = Stopping(shell)
          ELSE \E r \in Terminate(q.d, Last(shell.frames).saved,
                                  Last(shell.frames).child) :
                 Become(r.d) /\ shell' = Resumed(r)
    BY <1>4, <2>1 DEF GuestExit
  <2>3. PICK f : f = q.d
    OBVIOUS
  <2>4. SessionStep(Now, f, t)
        /\ (q.st = "OK" => SameHealth(Now, f) /\ f.sessions[t] = "VACANT")
    BY <1>1, <2>2, <2>3, StopAndRetireIs
  <2>5. CASE q.st # "OK"
    BY <2>2, <2>3, <2>5, <1>1, <1>2, <2>1, RunningStops, Parts, <2>4, GuestEnd, GoesOn
    DEF Snapshot, SessionStep, Guested, SameWho, SameMemory, SameRuntime, IndInv
  <2>6. CASE q.st = "OK"
    <3>1. PICK s, p : s = Saved(shell, Depth(shell)) /\ p = Child(shell, Depth(shell))
      OBVIOUS
    <3>2. PICK b : b = Resuming(shell)
      OBVIOUS
    <3>3. Last(shell.frames).saved = s /\ Last(shell.frames).child = p
      <4>1. PICK z : z = [shell EXCEPT !.frames = Front(shell.frames)]
        OBVIOUS
      <4> QED
        BY <1>1, <1>4, <3>1, <4>1, ShorterIs DEF ShellRecord
    <3>4. PICK r \in Terminate(f, s, p) : Become(r.d) /\ shell' = Resumed(r)
      BY <2>2, <2>3, <2>6, <3>3
    <3>5. PICK e, g : e = r.d /\ g = shell'
      OBVIOUS
    <3>6. g = IF r.st = "OK" THEN b ELSE Stopping(b)
      BY <3>2, <3>4, <3>5 DEF Resumed, Resuming
    <3> QED
      BY <1>2, <3>5, <1>1, <1>4, <3>1, <3>2, <3>4, <3>6, <2>1, <2>4, <2>6, ExitedGoes,
         Became, GoesOn DEF IndInv
  <2> QED
    BY <2>5, <2>6
<1> QED
  BY <1>3, <1>4

(* stop_session: one session less *)
Stopped(h) ==
  [h EXCEPT !.at = IF Len(h.stops) = 1 THEN "ending" ELSE "stopping",
            !.stops = Tail(@)]

(* A session that is stopped and retired is a step of the system. *)
LEMMA StoppedGoes ==
  ASSUME NEW d \in Domain, NEW x, NEW h, Safe(d, x, h), h.at = "stopping",
         NEW r \in StopAndRetire(d, Head(h.stops)), NEW e, e = r.d,
         NEW g, g = Stopped(h)
  PROVE  e \in Domain /\ Goes(d, x, h, e, x, g)
<1>1. /\ h \in ShellRecord /\ x \in ExecRecord /\ StageHeld(d, x, h)
      /\ ShellHeld(x, h) /\ SessionsHeld(d, x, h)
  BY DEF Safe, TypeInv
<1>2. x.at \in {"idle", "stranded"} /\ (x.at = "idle" => x = Quiet)
      /\ h.child # None /\ h.stops # <<>>
  BY <1>1 DEF StageHeld, ShellHeld
<1>3. PICK q \in Seq(Sessions) : q = h.stops
  BY <1>1 DEF ShellRecord
<1>4. PICK z : z = Tail(q)
  OBVIOUS
<1>5. /\ Head(q) \in Sessions /\ z \in Seq(Sessions) /\ Len(z) = Len(q) - 1
      /\ \A i \in 1 .. Len(z) : z[i] = q[i + 1]
  BY <1>2, <1>3, <1>4, HeadTailProperties
<1>6. PICK m \in Nat : m + 1 = Len(q) /\ m = Len(z)
  BY <1>5, LenProperties
<1>7. PICK s \in Sessions : s = Head(q) /\ s = q[1]
  BY <1>2, <1>3, <1>5
<1>8. /\ SessionStep(d, e, s)
      /\ r.st = "OK" => SameHealth(d, e) /\ e.sessions[s] = "VACANT"
      /\ r.st # "OK" => \/ e.poison # {}
                        \/ d.sessions[s] \notin {"DORMANT", "RUNNABLE", "STOPPED"}
  BY <1>3, <1>7, StopAndRetireIs
<1>9. /\ e \in Domain /\ e.batches = d.batches /\ e.leases = d.leases
      /\ SameMemory(d, e) /\ SameRuntime(d, e) /\ Later(d, e)
      /\ \A t \in Sessions \ {s} : e.sessions[t] = d.sessions[t]
      /\ Books(d) => Books(e)
  BY <1>8 DEF SessionStep
<1>10. /\ g \in ShellRecord /\ g.at = IF m = 0 THEN "ending" ELSE "stopping"
       /\ g.stops = z /\ g.frames = h.frames /\ g.child = h.child /\ g.saved = h.saved
  <2>1. Len(h.stops) = 1 <=> m = 0
    <3>1. Len(q) = 1 <=> m = 0
      BY <1>6, SMTT(20)
    <3> QED
      BY <1>3, <3>1
  <2> QED
    BY <1>1, <1>5, <1>3, <1>4, <2>1 DEF ShellRecord, Stopped
<1>11. g.at \in {"stopping", "ending"}
  BY <1>10
<1>16. Alike(d, e)
  BY <1>9, AlikeSame
<1>18. ASSUME e.poison = {}
       PROVE  SoundInv(e, x, g)
  BY <1>9, <1>18, <1>1, <1>16, ProgramsSame, <1>11, <1>10, SameWaiting
  DEF Safe, SoundInv, Later, WaitingLive, ChildHeld, SameMemory, SameRuntime
<1>19. ASSUME e.poison = {}, x.at # "stranded", Calm(d, x, h)
       PROVE  Calm(e, x, g)
  <2>1. /\ Line(d, h) /\ SessionsUsed(d, x, h) /\ x.session = None
    BY <1>2, <1>19 DEF Calm, Programs, Quiet
  <2>5. InUse(h) = {q[i] : i \in 1 .. m + 1}
    BY <1>3, <1>6 DEF InUse
  <2>6. \A i, k \in 1 .. m + 1 : q[i] = q[k] => i = k
    BY <1>3, <1>6, <2>1 DEF SessionsUsed
  <2>7. InUse(g) = {z[i] : i \in 1 .. m}
    BY <1>10, <1>6 DEF InUse
  <2>8. \A i \in 1 .. m : i + 1 \in 1 .. m + 1 /\ i + 1 # 1 /\ z[i] = q[i + 1]
    BY <1>5, <1>6
  <2>9. \A i \in 1 .. m + 1 : i = 1 \/ (i - 1 \in 1 .. m /\ (i - 1) + 1 = i)
    OBVIOUS
  <2>10. 1 \in 1 .. m + 1
    OBVIOUS
  <2>12. InUse(h) = InUse(g) \cup {s}
    <3>1. \A i \in 1 .. m + 1 : q[i] \in InUse(g) \cup {s}
      BY <1>7, <2>9, <2>8, <2>7
    <3> QED
      BY <2>5, <3>1, <1>7, <2>7, <2>8, <2>10
  <2>13. None \notin Sessions
    BY DEF None, Sessions
  <2>14. \A t \in Sessions : d.sessions[t] = IF t \in InUse(h) THEN "RUNNABLE" ELSE "VACANT"
    BY <2>1, <2>13 DEF SessionsUsed
  <2>16. \A t \in Sessions : e.sessions[t] = IF t \in InUse(g) THEN "RUNNABLE" ELSE "VACANT"
    BY <1>8, <1>9, <2>6, <2>8, <2>10, <1>7, <2>7, <2>12, <2>14, <1>19
  <2> QED
    BY <1>11, <1>10, <1>1, <1>9, <1>16, <2>1, LineSame, LineShell, <1>6, <2>13, <2>16,
       <2>8, <2>6 DEF Calm, Programs, SessionsUsed
<1> QED
  BY <1>9, <1>1, <1>10, <1>2, <1>11, SessionAssumption, <1>3, <1>6, <1>18, <1>19
  DEF Goes, Safe, TypeInv, ShellHeld, SessionsHeld, Quiet, StageHeld

(* DriverStop preserves the invariant. *)
LEMMA StopGoes ==
  ASSUME IndInv, DriverStop
  PROVE  IndInv'
<1>3. PICK r \in StopAndRetire(Now, Head(shell.stops)) :
        Become(r.d) /\ shell' = Stopped(shell)
  BY DEF DriverStop, Stopped
<1>4. PICK e, g : e = r.d /\ g = shell'
  OBVIOUS
<1> QED
  BY <1>4, NowSafe, <1>3, StoppedGoes, Became, GoesOn DEF IndInv, DriverStop

(* The driver at its prompt *)
LEMMA PromptIs ==
  /\ AtPrompt \in ShellRecord /\ AtPrompt.at = "prompt"
  /\ Len(AtPrompt.stops) = 0 /\ Len(AtPrompt.frames) = 0
  /\ \A x : ShellHeld(x, AtPrompt)
<1> QED
  BY Numbers, RuntimeAssumption, SessionAssumption
  DEF ShellHeld, AtPrompt, ShellRecord, Snapshot

(* The last program of a recovery has ended, or could not be ended. *)
LEMMA EndedPromptGoes ==
  ASSUME NEW d \in Domain, NEW x, NEW h, Safe(d, x, h), h.at = "ending",
         NEW s, s = Saved(h, Depth(h)), NEW p, p = Child(h, Depth(h)),
         NEW r \in Terminate(d, s, p), r.st = "OK" => Depth(h) = 0,
         NEW e, e = r.d, NEW g, g = AtPrompt
  PROVE  e \in Domain /\ Goes(d, x, h, e, x, g)
<1>1. /\ h \in ShellRecord /\ x \in ExecRecord /\ StageHeld(d, x, h)
      /\ ShellHeld(x, h) /\ SessionsHeld(d, x, h)
  BY DEF Safe, TypeInv
<1>2. x.at \in {"idle", "stranded"} /\ (x.at = "idle" => x = Quiet) /\ h.child # None
  BY <1>1 DEF StageHeld, ShellHeld
<1>3. /\ e \in Domain /\ SameExec(d, e) /\ Later(d, e)
      /\ e.poison = {} /\ Books(d) /\ WaitingLive(d, h) =>
           /\ Books(e) /\ e.runtime.current \in LiveOf(e)
           /\ r.st = "OK" => Outlived(d, e, s, p)
      /\ e.poison = {} /\ e.faults = 0 /\ Line(d, h) => r.st = "OK"
  BY <1>1, <1>2, DeepestEnds
<1>4. g \in ShellRecord /\ g.at = "prompt" /\ ShellHeld(x, g)
  BY PromptIs
<1>5. e.leases = d.leases /\ e.batches = d.batches /\ e.sessions = d.sessions
  BY <1>3 DEF SameExec
<1>9. ASSUME e.poison = {}
      PROVE  Books(d) /\ ChildHeld(d, x) /\ WaitingLive(d, h)
  BY <1>3, <1>9 DEF Safe, SoundInv, Later
<1>10. ASSUME e.poison = {}
       PROVE  SoundInv(e, x, g)
  BY <1>3, <1>9, <1>10, <1>4, <1>2, <1>5 DEF WaitingLive, ChildHeld, Quiet, SoundInv
<1>11. ASSUME e.poison = {}, e.faults = 0, Calm(d, x, h)
       PROVE  Calm(e, x, g)
  BY <1>11, <1>3, <1>9, <1>4, <1>5
  DEF Calm, Programs, Line, Outlived, Alone, InUse, SessionsUsed
<1> QED
  BY <1>3, <1>1, <1>4, <1>2, <1>5, <1>10, <1>11
  DEF Goes, Safe, TypeInv, SessionsHeld, Quiet, StageHeld

Shorter(h) == [h EXCEPT !.frames = Front(@)]

(* A program of a recovery has ended; its parent is next. *)
LEMMA EndedGoes ==
  ASSUME NEW d \in Domain, NEW x, NEW h, Safe(d, x, h), h.at = "ending",
         h.frames # <<>>,
         NEW s, s = Saved(h, Depth(h)), NEW p, p = Child(h, Depth(h)),
         NEW r \in Terminate(d, s, p), r.st = "OK",
         NEW e, e = r.d, NEW g, g = Shorter(h)
  PROVE  e \in Domain /\ Goes(d, x, h, e, x, g)
<1>1. /\ h \in ShellRecord /\ x \in ExecRecord /\ StageHeld(d, x, h)
      /\ ShellHeld(x, h) /\ SessionsHeld(d, x, h)
  BY DEF Safe, TypeInv
<1>2. x.at \in {"idle", "stranded"} /\ (x.at = "idle" => x = Quiet) /\ h.child # None
  BY <1>1 DEF StageHeld, ShellHeld
<1>3. /\ e \in Domain /\ SameExec(d, e) /\ Later(d, e)
      /\ e.poison = {} /\ Books(d) /\ WaitingLive(d, h) =>
           /\ Books(e) /\ e.runtime.current \in LiveOf(e)
           /\ Outlived(d, e, s, p)
           /\ \A i \in 0 .. Depth(h) : Saved(h, i).current \in LiveOf(e)
  BY <1>1, <1>2, DeepestEnds
<1>4. /\ g.at = "ending" /\ g.frames = Front(h.frames) /\ g.child = h.child
      /\ g.saved = h.saved /\ g.stops = h.stops
  BY <1>1 DEF Shorter, ShellRecord
<1>5. /\ Depth(h) \in Nat \ {0} /\ Depth(g) = Depth(h) - 1
      /\ g.frames \in Seq(Frame)
      /\ \A i \in 0 .. Depth(h) - 1 :
           Child(g, i) = Child(h, i) /\ Saved(g, i) = Saved(h, i)
  BY <1>1, <1>4, ShorterIs
<1>6. PICK n \in Nat : n + 1 = Depth(h) /\ Depth(g) = n /\ Depth(h) - 1 = n
  BY <1>5
<1>7. \A i \in 0 .. n : Child(g, i) = Child(h, i) /\ Saved(g, i) = Saved(h, i)
  BY <1>5, <1>6
<1>8. g \in ShellRecord
  BY <1>4, <1>1, <1>5 DEF Shorter, ShellRecord
<1>10. e.leases = d.leases /\ e.batches = d.batches /\ e.sessions = d.sessions
  BY <1>3 DEF SameExec
<1>13. TypeInv(e, x, g)
  BY <1>1, <1>3, <1>8, <1>6, SessionAssumption, <1>2, <1>4, <1>10
  DEF TypeInv, ShellHeld, Depth, StageHeld, SessionsHeld, Quiet
<1>14. ASSUME e.poison = {}
       PROVE  Books(d) /\ ChildHeld(d, x) /\ WaitingLive(d, h)
  BY <1>3, <1>14 DEF Safe, SoundInv, Later
<1>15. ASSUME e.poison = {}
       PROVE  SoundInv(e, x, g)
  BY <1>3, <1>6, <1>14, <1>15, <1>7, <1>4, <1>2, <1>10
  DEF WaitingLive, ChildHeld, Quiet, SoundInv
<1>16. ASSUME e.poison = {}, Calm(d, x, h)
       PROVE  Calm(e, x, g)
  BY <1>16, <1>3, <1>6, <1>14, <1>1, <1>7, ShorterLine, <1>4, <1>10
  DEF Calm, Programs, InUse, SessionsUsed
<1> QED
  BY <1>3, <1>13, <1>15, <1>16 DEF Goes, Safe

(* DriverEnd preserves the invariant. *)
LEMMA EndGoes ==
  ASSUME IndInv, DriverEnd
  PROVE  IndInv'
<1>1. Safe(Now, exec, shell) /\ Now \in Domain /\ shell \in ShellRecord
  BY NowSafe
<1>2. /\ shell.at = "ending" /\ exec' = exec /\ changes' = changes
      /\ strayed' = strayed
  BY DEF DriverEnd
<1>3. PICK s, p : s = Saved(shell, Depth(shell)) /\ p = Child(shell, Depth(shell))
  OBVIOUS
<1>4. CASE shell.frames = <<>>
  BY <1>3, <1>4, <1>1, <1>2, EndedPromptGoes, Became, GoesOn
  DEF Depth, Saved, Child, DriverEnd, IndInv
<1>5. CASE shell.frames # <<>>
  <2>1. Last(shell.frames).saved = s /\ Last(shell.frames).child = p
    <3>1. PICK z : z = Shorter(shell)
      OBVIOUS
    <3> QED
      BY <1>1, <1>3, <1>5, <3>1, ShorterIs DEF ShellRecord, Shorter
  <2>2. PICK r \in Terminate(Now, s, p) :
          /\ Become(r.d)
          /\ shell' = IF r.st = "OK" THEN Shorter(shell) ELSE AtPrompt
    BY <1>5, <2>1 DEF DriverEnd, Shorter
  <2>3. PICK e, g : e = r.d /\ g = shell'
    OBVIOUS
  <2> QED
    BY <1>2, <2>3, <1>1, <1>3, <1>5, <2>2, EndedGoes, EndedPromptGoes, Became, GoesOn
    DEF IndInv
<1> QED
  BY <1>4, <1>5

-----------------------------------------------------------------------------
(* The beginning.                                                          *)

(* The parts of the first domain have their types. *)
LEMMA InitTyped ==
  ASSUME Init
  PROVE  /\ Now \in Domain /\ exec \in ExecRecord /\ shell \in ShellRecord
         /\ LiveOf(Now) = {COMMAND}
         /\ \A j \in 0 .. JftMinimum - 1 :
              psps[COMMAND].inline[j] = IF j = 0 THEN 0 ELSE UNUSED
         /\ psps[COMMAND].length = JftMinimum /\ psps[COMMAND].table = Inline
<1>1. /\ SfnCount \in Nat \ {0} /\ SftGenerationMax \in Nat \ {0}
      /\ PositionMax \in Nat /\ FaultMax \in Nat /\ 0 \in Sfns
  BY SftAssumption DEF Sfns
<1>2. /\ COMMAND \in Psps /\ Psps \subseteq Blocks /\ NoOwner \notin Psps
      /\ JftMinimum \in Nat \ {0} /\ JftMaximum \in Nat /\ JftMaximum >= JftMinimum
  BY Numbers
<1>3. sft \in SftTable
  <2>1. Blank(0) \in SftSlot /\ Blank(1) \in SftSlot
    BY <1>1 DEF Blank, SftSlot
  <2> QED
    BY <2>1 DEF Init, SftInit, SftTable, SftSlot
<1>6. arena \in Arena /\ LiveOf(Now) = {COMMAND}
  BY <1>2 DEF Init, Arena, LiveOf, Now
<1>8. /\ psps \in PspTable
      /\ \A j \in 0 .. JftMinimum - 1 :
           psps[COMMAND].inline[j] = IF j = 0 THEN 0 ELSE UNUSED
      /\ psps[COMMAND].length = JftMinimum /\ psps[COMMAND].table = Inline
  <2>1. FreshPsp \in PspRecord
    BY <1>2 DEF FreshPsp, PspRecord, Psp, Entry, COMMAND
  <2>2. PICK y : y = [FreshPsp EXCEPT !.inline[0] = 0]
    OBVIOUS
  <2> QED
    BY <1>2, <2>1, <1>1, <2>2 DEF PspTable, FreshPsp, PspRecord, Psp, Entry, Init
<1>10. Now \in Domain
  BY <1>1, <1>3, <1>2, <1>6, <1>8, RuntimeAssumption
  DEF Init, Now, Domain, Poisons, FileLeaseInit, SessionInit, LeaseTable, SessionTable,
      VacantLease, FileLeaseSlot, SessionState, BatchIn, BatchSlot, Entry, BatchRecord,
      BatchInit, BatchTable, Snapshot, JftTables, Unused
<1> QED
  BY <1>6, <1>8, <1>10, PromptIs DEF Init, Quiet, ExecRecord

(* The books are in order at the beginning: CON is open, once. *)
LEMMA InitBooks ==
  ASSUME Init
  PROVE  Books(Now)
<1>1. /\ Now \in Domain /\ LiveOf(Now) = {COMMAND}
      /\ \A j \in 0 .. JftMinimum - 1 :
           psps[COMMAND].inline[j] = IF j = 0 THEN 0 ELSE UNUSED
      /\ psps[COMMAND].length = JftMinimum /\ psps[COMMAND].table = Inline
  BY InitTyped
<1>2. /\ COMMAND \in Psps /\ UNUSED \notin Sfns /\ Inline \notin Tables
      /\ Psps \cap Tables = {} /\ JftMinimum \in Nat \ {0} /\ JftMaximum \in Nat
      /\ JftMaximum >= JftMinimum /\ SfnCount \in Nat
  BY Numbers
<1>4. \A n \in Sfns : Held(Now, n) = 0
  BY HeldFinite, FS_EmptySet DEF Init, Now, BatchInit, BatchIn, HeldFor
<1>6. Names(Now, 0) = {<<COMMAND, 0>>} /\ \A n \in Sfns \ {0} : Names(Now, n) = {}
  BY <1>1, NamesAre, <1>2, SftAssumption DEF JftIndices, Now, EntryAt, Sees, Sfns
<1>7. \A n \in Sfns : Counts(Now)[n] = IF n = 0 THEN 1 ELSE 0
  <2>2. \A n \in Sfns : Cardinality(Names(Now, n)) = IF n = 0 THEN 1 ELSE 0
    BY <1>6, FS_Singleton, FS_EmptySet
  <2> QED
    BY <1>4, <2>2, <1>1, CountsTyped
<1>10. Owned(Now.sft, Now.leases, Now.open)
  BY DEF Owned, Described, Reading, Now, Init, SftInit, Blank, FileLeaseInit,
      VacantLease, Finishable
<1>11. TablesHeld(Now)
  <2>1. \A b \in Blocks : Now.arena[b] = IF b = COMMAND THEN COMMAND ELSE NoOwner
    BY DEF Init, Now
  <2> QED
    BY <1>1, <1>2, <2>1, Numbers DEF TablesHeld, Now
<1> QED
  BY <1>7, <1>10, <1>11 DEF Books, Ledger, Exact, Now, Init, SftInit, Blank

(* The system begins in a state of the invariant. *)
LEMMA InitInv ==
  ASSUME Init
  PROVE  IndInv
<1>1. /\ Now \in Domain /\ exec \in ExecRecord /\ shell \in ShellRecord
      /\ LiveOf(Now) = {COMMAND}
  BY InitTyped
<1>2. /\ exec = Quiet /\ exec.at = "idle" /\ exec.session = None /\ exec.child = None
      /\ shell = AtPrompt /\ shell.at = "prompt"
  BY PromptIs DEF Init, Quiet
<1>3. StageHeld(Now, exec, shell)
  BY FileLeaseAssumption, <1>2
  DEF Init, Now, FileLeaseInit, BatchInit, BatchIn, FileLeases, StageHeld
<1>4. ShellHeld(exec, shell)
  BY <1>2, PromptIs
<1>5. SessionsHeld(Now, exec, shell)
  BY <1>2 DEF SessionsHeld
<1>6. ChildHeld(Now, exec)
  BY BatchAssumption, <1>2 DEF Batches, Init, Now, BatchInit, BatchIn, ChildHeld
<1>7. Alone(Now)
  BY <1>1 DEF Alone, Init, Now
<1>9. Programs(Now, shell)
  BY <1>2, <1>7 DEF Programs
<1>10. SessionsUsed(Now, exec, shell)
  BY <1>2 DEF InUse, None, Sessions, SessionsUsed, Init, Now, SessionInit
<1>11. Inv(Now, exec, shell, strayed)
  BY <1>1, <1>3, <1>4, <1>5, <1>6, <1>2, <1>7, <1>9, <1>10, InitBooks
  DEF Inv, TypeInv, SoundInv, WaitingLive, Alone
<1>12. changes \in 0 .. ChangeMax /\ strayed \in BOOLEAN
  <2>1. changes = 0 /\ 0 \in 0 .. ChangeMax
    BY ChangeAssumption DEF Init
  <2> QED
    BY <2>1, Zenon DEF Init
<1> QED
  BY <1>11, <1>12 DEF IndInv

-----------------------------------------------------------------------------
(* The invariant holds, and says what is claimed.                          *)

(* A step that changes nothing *)
LEMMA Stutters ==
  ASSUME IndInv, UNCHANGED vars
  PROVE  IndInv'
<1> QED
  BY DEF IndInv, vars, domain, Now

(* Every step preserves the invariant. *)
LEMMA NextInv ==
  ASSUME IndInv, [Next]_vars
  PROVE  IndInv'
<1>1. CASE Start
  BY <1>1, StartGoes
<1>2. CASE ExecLoad
  BY <1>2, LoadGoes
<1>3. CASE ExecClose
  BY <1>3, FinishGoes
<1>4. CASE ExecInherit
  BY <1>4, InheritGoes
<1>5. CASE ExecBackend
  BY <1>5, BackendGoes
<1>6. CASE ExecSeal
  BY <1>6, SealGoes
<1>7. CASE ExecAbort
  BY <1>7, AbortGoes
<1>8. CASE GuestOpen \/ GuestCreate
  BY <1>8, OpenGoes
<1>9. CASE GuestClose
  BY <1>9, CloseGoes
<1>10. CASE GuestRead \/ GuestWrite \/ GuestSeek
  BY <1>10, TransferGoes
<1>11. CASE GuestResize
  BY <1>11, ResizeGoes
<1>12. CASE GuestVectors \/ GuestDta
  BY <1>12, ChangeGoes
<1>13. CASE GuestSetPsp
  BY <1>13, SetPspGoes
<1>14. CASE GuestExec
  BY <1>14, GuestExecGoes
<1>15. CASE GuestFaults
  BY <1>15, FaultsGoes
<1>16. CASE GuestExit
  BY <1>16, ExitGoes
<1>17. CASE DriverStop
  BY <1>17, StopGoes
<1>18. CASE DriverEnd
  BY <1>18, EndGoes
<1>19. CASE UNCHANGED vars
  BY <1>19, Stutters
<1> QED
  BY <1>1, <1>2, <1>3, <1>4, <1>5, <1>6, <1>7, <1>8, <1>9, <1>10, <1>11, <1>12,
     <1>13, <1>14, <1>15, <1>16, <1>17, <1>18, <1>19 DEF Next

(* The invariant holds in every behaviour of DosProcess. *)
THEOREM Invariance == Spec => []IndInv
<1>1. Init => IndInv
  BY InitInv
<1>2. IndInv /\ [Next]_vars => IndInv'
  BY NextInv
<1> QED
  BY <1>1, <1>2, PTL DEF Spec

(* The values of a sequence are members of the set it is a sequence of. *)
LEMMA RangeIn ==
  ASSUME NEW S, NEW q \in Seq(S)
  PROVE  Range(q) \subseteq S
<1> QED
  BY DEF Range

(* The invariant has the types of DosProcess. *)
LEMMA TypesHold ==
  ASSUME IndInv
  PROVE  TypeOK
<1>1. /\ Now \in Domain /\ exec \in ExecRecord /\ shell \in ShellRecord
      /\ ShellHeld(exec, shell)
  BY NowSafe DEF IndInv, Inv, TypeInv
<1>2. /\ sft \in SftTable /\ open \in SUBSET Handles /\ batches \in BatchTable
      /\ leases \in LeaseTable /\ sessions \in SessionTable /\ arena \in Arena
      /\ tables \in JftTables /\ psps \in PspTable /\ runtime \in Snapshot
      /\ vectors \in Psps /\ poison \in Poisons /\ faults \in 0 .. FaultMax
  BY <1>1, Parts DEF Now
<1>4. psps \in [Psps -> Psp]
  BY <1>2 DEF PspTable, PspRecord
<1> QED
  BY <1>2, <1>4, <1>1, RangeIn, Zenon
  DEF TypeOK, SftTable, LeaseTable, SessionTable, Arena, JftTables, Poisons, BatchTable,
      BatchRecord, BatchSlot, ExecRecord, ShellRecord, ShellHeld, IndInv

(* DosProcess is correctly typed: no call of a program, no failed EXEC and  *)
(* no recovery leaves a table, a counter or a record of the driver outside  *)
(* its range; no more than SessionCount programs are ever nested.           *)
THEOREM TypeCorrect == Spec => []TypeOK
<1>1. IndInv => TypeOK
  BY TypesHold
<1> QED
  BY <1>1, Invariance, PTL

(* The descriptions of Ledger count what ReferencesExact counts. *)
LEMMA ReferencesHold ==
  ASSUME Now \in Domain, Books(Now)
  PROVE  ReferencesExact
<1>2. ASSUME NEW n \in Sfns
      PROVE  {x \in JftEntries : EntryAt(Now, x[1], x[2]) = n} = Names(Now, n)
  BY Indices DEF LiveOf, JftEntries, Names, Live, Now
<1>3. ASSUME NEW n \in Sfns
      PROVE  LET named == Cardinality({x \in JftEntries : EntryAt(Now, x[1], x[2]) = n})
                            + Held(Now, n)
             IN  /\ named # 0 => sft[n].state = "PRESENT"
                 /\ sft[n].state = "PRESENT" =>
                      sft[n].references = named /\ sft[n].device_opens = named
  BY CountsTyped, <1>2 DEF Books, Ledger, Exact, Now
<1> QED
  BY <1>3 DEF ReferencesExact

(* A set with at most one member, and one with exactly one *)
LEMMA AtMostOne ==
  ASSUME NEW S, \A a, b \in S : a = b
  PROVE  Cardinality(S) = IF S = {} THEN 0 ELSE 1
<1>1. CASE S = {}
  BY <1>1, FS_EmptySet
<1>2. CASE S # {}
  BY <1>2, FS_Singleton
<1> QED
  BY <1>1, <1>2

(* One owner to a file is what BackendOwned counts. *)
LEMMA OwnersHold ==
  ASSUME Books(Now)
  PROVE  BackendOwned
<1> DEFINE readers == {l \in FileLeases : leases[l].state \in {"OPEN", "PROBED"}}
           mine(h) == {n \in Described(sft) : sft[n].handle = h}
           read(h) == {l \in readers : leases[l].reader = h}
<1>1. readers = Reading(leases)
  BY DEF Reading, Finishable
<1>2. Owned(sft, leases, open)
  BY DEF Books, Ledger, Now
<1>3. ASSUME NEW h \in Handles
      PROVE  Cardinality(mine(h)) + Cardinality(read(h)) = IF h \in open THEN 1 ELSE 0
  <2>3. mine(h) = {} \/ read(h) = {}
    BY <1>1, <1>2 DEF Owned
  <2>4. h \in open <=> mine(h) # {} \/ read(h) # {}
    BY <1>1, <1>2 DEF Owned
  <2>5. Cardinality(mine(h)) = IF mine(h) = {} THEN 0 ELSE 1
    BY <1>2, AtMostOne DEF Owned
  <2>6. Cardinality(read(h)) = IF read(h) = {} THEN 0 ELSE 1
    BY <1>1, <1>2, AtMostOne DEF Owned
  <2> HIDE DEF mine, read
  <2> QED
    BY <2>3, <2>4, <2>5, <2>6
<1> QED
  BY <1>3 DEF BackendOwned, Described

(* The invariant balances the books. *)
LEMMA BooksHold ==
  ASSUME IndInv
  PROVE  BooksBalance
<1>1. SUFFICES ASSUME poison = {}
               PROVE  ReferencesExact /\ BackendOwned /\ TablesOwned
  BY DEF BooksBalance
<1> QED
  BY <1>1, NowSafe, ReferencesHold, OwnersHold
  DEF Live, LiveOf, Now, Books, TablesHeld, TablesOwned, Safe, SoundInv

(* The books of the domain balance: unless a part of it has been poisoned,  *)
(* every description counts exactly the JFT entries and the batch that name *)
(* it, every open file has one owner, and every block belongs to a process  *)
(* that exists, after any sequence of opens, closes, resizes, EXECs that    *)
(* succeed or fail at any stage, and terminations.                          *)
THEOREM BooksCorrect == Spec => []BooksBalance
<1>1. IndInv => BooksBalance
  BY BooksHold
<1> QED
  BY <1>1, Invariance, PTL

(* The invariant has COMMAND back at the prompt. *)
LEMMA RestoredHolds ==
  ASSUME IndInv
  PROVE  Restored
<1>1. SUFFICES ASSUME AtRest, ~strayed
               PROVE  OnlyCommand
  BY DEF Restored
<1> QED
  BY <1>1
  DEF Alone, OnlyCommand, Now, InUse, Quiet, None, Sessions, SessionsUsed, Live, LiveOf,
      Programs, IndInv, Inv, TypeInv, StageHeld, AtRest

(* COMMAND is back after every program as it was: while nothing has failed  *)
(* and no program has set another PSP, the prompt finds COMMAND the only    *)
(* process, with its own DTA and handlers, and every session vacant,        *)
(* however deep programs were nested and however they ended.                *)
THEOREM RestoredCorrect == Spec => []Restored
<1>1. IndInv => Restored
  BY RestoredHolds
<1> QED
  BY <1>1, Invariance, PTL

=============================================================================
