------------------------------ MODULE SerioMC ------------------------------
(* An instance of Serio for TLC: two drivers and two ports. *)
EXTENDS Serio

CONSTANTS p1, p2, d1, d2

(* Every driver matches every port. *)
AllMatch == Drivers \X Ports

(* The ports are interchangeable. *)
AnyPort == Permutations(Ports)

(* Either bytes flow through one port, which is registered once, or no byte *)
(* is offered and the ports form a tree; both with automatic drivers.  At   *)
(* most one byte is refused, by a closed port, for want of a driver or by   *)
(* the driver, and the fourth and fifth come after a loss.                  *)
OneStream ==
  /\ \A p \in Ports : tally[p].offered >= 4 => ports[p].stream_loss_epoch > 0
  /\ \A p \in Ports : tally[p].closed + tally[p].unbound + tally[p].rejected <= 1
  /\ \E p \in Ports : \A q \in Ports \ {p} : ports[q].generation = 0
  /\ \A p \in Ports : ports[p].generation <= 1 /\ ~ ports[p].manual_bind

SilentTree ==
  \A p \in Ports : /\ tally[p].offered = 0 /\ ports[p].binding_generation <= 1
                   /\ ports[p].stream_loss_epoch = 0

SerioBound ==
  /\ OneStream \/ SilentTree
  /\ \A d \in Drivers : ~ drivers[d].manual_bind
=============================================================================
