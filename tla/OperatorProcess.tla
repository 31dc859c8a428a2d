--------------------------- MODULE OperatorProcess ---------------------------
(***************************************************************************)
(* The operator's process from main to the running manager: configuration, *)
(* connection to the driver, probe, and the wait for the CRDs.  Any error  *)
(* ends the process, a lost connection does so at any time, and the        *)
(* kubelet starts it again.  A driver that is slower than the timeout of   *)
(* the probe leaves the process hanging.                                   *)
(*                                                                         *)
(* Simplifications: a timeout may come whenever the driver does not        *)
(* answer; CRDs are installed and never removed.                           *)
(***************************************************************************)
EXTENDS Naturals, Sequences

CONSTANTS
    DriverName,    \* the --driver-name flag
    Kinds,         \* the CRDs waited for, in this order
    MaxChanges     \* bound on outages, errors that end the process, and changes

ASSUME ProcessAssumption ==
    MaxChanges \in Nat /\ Kinds \in Seq(STRING) \ {<<>>}

VARIABLES
    proc,       \* step of main
    waiting,    \* index of the CRD waited for
    driver,     \* "down", "starting" (connects, not ready) or "ready"
    crds,       \* CRDs that are installed
    changes     \* outages, errors and changes so far

mainVars == <<proc, waiting, driver, crds>>
processVars == <<mainVars, changes>>

KindSet == {Kinds[k] : k \in DOMAIN Kinds}

ProcessTypeOK ==
    /\ proc \in {"exited", "connect", "probe", "hung", "waitForCrds", "running"}
    /\ waiting \in 0 .. Len(Kinds)
    /\ proc = "waitForCrds" <=> waiting # 0
    /\ driver \in {"down", "starting", "ready"}
    /\ crds \subseteq KindSet
    /\ changes \in 0 .. MaxChanges

ProcessInit ==
    /\ proc = "exited" /\ waiting = 0
    /\ driver \in {"down", "ready"}
    /\ crds \in {{}, KindSet}
    /\ changes = 0

Exit == proc' = "exited" /\ waiting' = 0
Change == changes < MaxChanges /\ changes' = changes + 1

\* Validate: without a driver name the process ends at once, every time.
Start ==
    /\ proc = "exited" /\ DriverName # ""
    /\ proc' = "connect" /\ UNCHANGED <<waiting, driver, crds, changes>>

\* connection.Connect with the RPC timeout.
Connect ==
    /\ proc = "connect"
    /\ \/ driver # "down" /\ proc' = "probe" /\ UNCHANGED waiting
       \/ driver = "down" /\ Exit
    /\ UNCHANGED <<driver, crds, changes>>

\* ProbeForever takes a timeout for a driver that is not ready and asks again.
\* All the probes have one context, which expires with --rpc-timeout: from then
\* on every one of them times out at once, also those of a driver that is ready.
Probe ==
    /\ proc = "probe"
    /\ \/ driver = "ready" /\ proc' = "waitForCrds" /\ waiting' = 1
       \/ driver = "starting" /\ proc' = "hung" /\ UNCHANGED waiting
    /\ UNCHANGED <<driver, crds, changes>>

\* Seeded fault: an error of the list counts as success.
WaitForCrd_AnyAnswer ==
    /\ proc = "waitForCrds"
    /\ IF waiting < Len(Kinds) THEN waiting' = waiting + 1 /\ UNCHANGED proc
                               ELSE waiting' = 0 /\ proc' = "running"
    /\ UNCHANGED <<driver, crds, changes>>

\* Seeded fault: the name of the last kind is misspelt, so it is never found.
WaitForCrd_Misspelt ==
    /\ proc = "waitForCrds" /\ waiting < Len(Kinds) /\ Kinds[waiting] \in crds
    /\ waiting' = waiting + 1
    /\ UNCHANGED <<proc, driver, crds, changes>>

\* waitForVGResource: an unknown kind is asked for again, other errors are final.
WaitForCrd ==
    /\ proc = "waitForCrds" /\ Kinds[waiting] \in crds
    /\ IF waiting < Len(Kinds) THEN waiting' = waiting + 1 /\ UNCHANGED proc
                               ELSE waiting' = 0 /\ proc' = "running"
    /\ UNCHANGED <<driver, crds, changes>>

\* exitWithError: no manager, an error of the probe that is not a timeout,
\* another error of the list, or the manager fails.
ExitWithError ==
    /\ proc \in {"connect", "probe", "waitForCrds", "running"}
    /\ Change /\ Exit
    /\ UNCHANGED <<driver, crds>>

\* ExitOnConnectionLoss
ConnectionLost ==
    /\ proc \in {"probe", "hung", "waitForCrds", "running"} /\ driver = "down"
    /\ Exit /\ UNCHANGED <<driver, crds, changes>>

ProcessStep == Start \/ Connect \/ Probe \/ WaitForCrd \/ ConnectionLost

\* The driver's container and the cluster administrator.
DriverStops ==
    /\ driver # "down" /\ Change
    /\ driver' = "down"
    /\ UNCHANGED <<proc, waiting, crds>>

DriverStarts ==
    /\ driver # "ready"
    /\ driver' = IF driver = "down" THEN "starting" ELSE "ready"
    /\ UNCHANGED <<proc, waiting, crds, changes>>

InstallCrd(kind) ==
    /\ kind \notin crds /\ crds' = crds \cup {kind}
    /\ UNCHANGED <<proc, waiting, driver, changes>>

Surroundings == DriverStops \/ DriverStarts \/ \E kind \in KindSet : InstallCrd(kind)

-----------------------------------------------------------------------------
\* The manager, and with it every reconcile, runs only when all CRDs are there:
\* the waits come one after the other, in a process that may end at any of them.
RunsOnlyWithCrds == proc = "running" => crds = KindSet

\* When the driver and the CRDs are there for good the operator runs for good,
\* although every error and every outage ends the process, unless it hangs in
\* the probe of a driver that was too slow: nothing but a lost connection ends
\* that.
Available == <>[](driver = "ready" /\ crds = KindSet)
Recovers == Available /\ []<>(proc # "hung") => <>[](proc = "running")
=============================================================================
