--------------------------- MODULE FirstAuditGate ---------------------------
(***************************************************************************)
(* What POST /api/first-audit promises about concurrency, with none of the *)
(* mechanism: a request is let in at most once, never while another        *)
(* request for the same store is in flight and never beyond the cap; a     *)
(* request that is in flight leaves again; a restart empties the house.    *)
(* FirstAudits implements it.                                              *)
(***************************************************************************)
EXTENDS Naturals, FiniteSets

CONSTANTS
  Requests,       \* the POSTs the admins make
  MaxConcurrent   \* Settings.first_audit_max_concurrent

VARIABLES
  store,          \* store[r]: the store r asks for, fixed by the request
  inFlight,       \* the requests whose audit occupies a slot
  served          \* every request ever let in

gateVars == <<store, inFlight, served>>

GateInit ==
  /\ inFlight = {}
  /\ served = {}

Admit(r) ==
  /\ r \notin served
  /\ \A q \in inFlight : store[q] # store[r]
  /\ Cardinality(inFlight) < MaxConcurrent
  /\ inFlight' = inFlight \cup {r}
  /\ served' = served \cup {r}
  /\ UNCHANGED store

Leave(r) ==
  /\ r \in inFlight
  /\ inFlight' = inFlight \ {r}
  /\ UNCHANGED <<store, served>>

Wipe ==
  /\ inFlight' = {}
  /\ UNCHANGED <<store, served>>

GateNext == Wipe \/ \E r \in Requests : Admit(r) \/ Leave(r)

GateSafety == GateInit /\ [][GateNext]_gateVars

GateSpec == GateSafety /\ \A r \in Requests : WF_gateVars(Leave(r))
=============================================================================
