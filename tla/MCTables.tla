------------------------------ MODULE MCTables -------------------------------
(* The kernel's tables of objects and of processes, the CPUs that run those     *)
(* processes, and the audit log, beside each other.  Each table has a lock of   *)
(* its own and none reads another: a run exercises one of them and leaves the   *)
(* others as they were.  Two application processors run processes.              *)
EXTENDS KernelObjects, AgentCpu, AuditLog

VARIABLE table

MCNames == {"a"}
MCPorts == {"eth0"}
MCNewPorts == {"eth1"}
MCHomes == <<1, 2>>

\* Only the first process changes its registers.
OnlyFirst == <<1, 0, 0>>

cpus == <<cpuVars, console>>

MCInit ==
    /\ ObjectsInit /\ Init /\ AuditInit
    /\ \/ table = "objects"
       \/ table \in {"processes", "cpus", "audit"} /\ ifaces[2].kind = "stub-tap"

\* Bounds: a third process comes, to a reused slot, only under the default limits;
\* where registers are followed two are spawned and the limits stay.
DefaultLimits == slice' = DefaultSlice /\ budget' = DefaultBudget
TableBound == nextPid' <= 3 \/ DefaultLimits
CpuBound == nextPid' <= 3 /\ DefaultLimits

MCNext ==
    \/ table = "objects" /\ ObjectsNext /\ UNCHANGED <<table, tableVars, cpus, auditVars>>
    \/ table = "processes" /\ TableNext /\ TableBound /\ UNCHANGED <<table, objectVars, cpus, auditVars>>
    \/ table = "cpus" /\ Next /\ CpuBound /\ UNCHANGED <<table, objectVars, auditVars>>
    \/ table = "audit" /\ AuditNext /\ UNCHANGED <<table, objectVars, tableVars, cpus>>

MCSpec == MCInit /\ [][MCNext]_<<table, objectVars, vars, auditVars>>
=============================================================================
