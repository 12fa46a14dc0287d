---------------------------- MODULE ExecPromise ----------------------------
(***************************************************************************)
(* What EXEC promises the rest of the system, whatever the order in which  *)
(* a request is prepared and however often it fails on the way:            *)
(*   - nothing is held outside the observer gate;                          *)
(*   - bytes staged in guest memory are restored before the block they lie *)
(*     in is given back;                                                   *)
(*   - the request either becomes the current process in one step, with    *)
(*     everything that belongs to it, or ends with nothing held;           *)
(*   - a request whose outcome is not known is quarantined for good.       *)
(***************************************************************************)
EXTENDS Naturals

CONSTANT Psps    \* the possible values of CurrentPDB

VARIABLES
  phase,   \* "idle" | "private" | "committed" | "quarantined"
  held,    \* what the request holds and nobody else can see
  pdb      \* CurrentPDB

promiseVars == <<phase, held, pdb>>

Resources == {"gate", "file", "env", "load", "sft", "bytes", "backend"}

Init == phase = "idle" /\ held = {} /\ pdb \in Psps

Admit ==
  /\ phase = "idle"
  /\ phase' = "private"
  /\ UNCHANGED <<held, pdb>>

Take(r) ==
  /\ phase = "private" /\ r \notin held
  /\ r # "gate" => "gate" \in held
  /\ r = "bytes" => "load" \in held
  /\ held' = held \cup {r}
  /\ UNCHANGED <<phase, pdb>>

Drop(r) ==
  /\ phase = "private" /\ r \in held
  /\ r = "gate" => held = {"gate"}
  /\ r = "load" => "bytes" \notin held
  /\ held' = held \ {r}
  /\ UNCHANGED <<phase, pdb>>

Cancel ==
  /\ phase = "private" /\ held \subseteq {"gate"}
  /\ phase' = "idle" /\ held' = {}
  /\ UNCHANGED pdb

Commit ==
  /\ phase = "private"
  /\ {"gate", "load", "sft", "bytes"} \subseteq held
  /\ "file" \notin held
  /\ phase' = "committed" /\ held' = {"gate"}
  /\ pdb' \in Psps \ {pdb}

Reveal ==
  /\ phase = "committed" /\ held = {"gate"}
  /\ held' = {}
  /\ UNCHANGED <<phase, pdb>>

Settle ==
  /\ phase = "committed" /\ held = {}
  /\ phase' = "idle"
  /\ UNCHANGED <<held, pdb>>

Quarantine ==
  /\ phase \in {"private", "committed"}
  /\ phase' = "quarantined" /\ held' = {}
  /\ UNCHANGED pdb

(* Other DOS calls may set CurrentPDB at any time. *)
Others ==
  /\ pdb' \in Psps
  /\ UNCHANGED <<phase, held>>

Next ==
  \/ Admit \/ Cancel \/ Commit \/ Reveal \/ Settle \/ Quarantine \/ Others
  \/ \E r \in Resources : Take(r) \/ Drop(r)

Spec == Init /\ [][Next]_promiseVars
=============================================================================
