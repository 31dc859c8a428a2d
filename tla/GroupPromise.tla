---------------------------- MODULE GroupPromise ----------------------------
(***************************************************************************)
(* What the operator promises about the groups it provisions under the     *)
(* deletion policy Delete, without caches, queues, workers or retries: a   *)
(* group exists on the storage system only under a guarded record of it,   *)
(* is reported ready only when it is there and its handle is on record,    *)
(* and is reclaimed only when its owner is gone and the record is closing. *)
(*                                                                         *)
(* A record is a VolumeGroupContent; guarded means that the operator's     *)
(* finalizer is on it, closing that its deletion has been asked for too.   *)
(***************************************************************************)
CONSTANT Records

VARIABLES
    owner,    \* the VolumeGroup each record is for
    phase,    \* of each record
    stored,   \* records whose group exists on the storage system
    known     \* records that hold the handle of their group

vars == <<stored, known, phase, owner>>

TypeOK ==
    /\ owner \in [Records -> {"none", "pending", "ready", "gone"}]
    /\ phase \in [Records -> {"absent", "open", "guarded", "closing"}]
    /\ stored \subseteq Records
    /\ known \subseteq Records

Init ==
    /\ owner = [r \in Records |-> "none"]
    /\ phase = [r \in Records |-> "absent"]
    /\ stored = {}
    /\ known = {}

Alive(r) == owner[r] \in {"pending", "ready"}
Guarded(r) == phase[r] \in {"guarded", "closing"}

SetOwner(r, to) == owner' = [owner EXCEPT ![r] = to] /\ UNCHANGED <<phase, stored, known>>
SetPhase(r, to) == phase' = [phase EXCEPT ![r] = to] /\ UNCHANGED <<owner, stored>>

Request(r) == owner[r] = "none" /\ SetOwner(r, "pending")
Report(r) == owner[r] = "pending" /\ Guarded(r) /\ r \in stored \cap known /\ SetOwner(r, "ready")
Release(r) == Alive(r) /\ SetOwner(r, "gone")

\* Records are opened only for an owner that is there.
Open(r) == phase[r] = "absent" /\ Alive(r) /\ SetPhase(r, "open") /\ UNCHANGED known
Guard(r) == phase[r] = "open" /\ SetPhase(r, "guarded") /\ UNCHANGED known

\* Anyone may ask for the deletion of a record at any time.
Close(r) ==
    /\ phase[r] \in {"open", "guarded"}
    /\ SetPhase(r, IF phase[r] = "open" THEN "absent" ELSE "closing")
    /\ UNCHANGED known

Provision(r) ==
    /\ Guarded(r) /\ r \notin stored
    /\ stored' = stored \cup {r}
    /\ UNCHANGED <<owner, phase, known>>

Record(r) ==
    /\ Guarded(r) /\ r \in stored \ known
    /\ known' = known \cup {r}
    /\ UNCHANGED <<owner, phase, stored>>

Reclaim(r) ==
    /\ phase[r] = "closing" /\ owner[r] = "gone" /\ r \in stored \cap known
    /\ stored' = stored \ {r}
    /\ UNCHANGED <<owner, phase, known>>

Leave(r) ==
    /\ phase[r] = "closing" /\ r \notin stored
    /\ SetPhase(r, "absent")
    /\ known' = known \ {r}

\* A step may also leave alone everything that is promised.
Next ==
    \/ UNCHANGED vars
    \/ \E r \in Records :
          \/ Request(r) \/ Report(r) \/ Release(r)
          \/ Open(r) \/ Guard(r) \/ Close(r) \/ Leave(r)
          \/ Provision(r) \/ Record(r) \/ Reclaim(r)

Spec == Init /\ [][Next]_vars
=============================================================================
