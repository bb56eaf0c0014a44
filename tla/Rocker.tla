------------------------------- MODULE Rocker -------------------------------
(* rocker/main.cpp: the parent clones a child into new namespaces, writes   *)
(* its limits while it already runs, and waits.  The child leaves the host  *)
(* step by step and becomes the command, whose processes fork and exit.     *)
EXTENDS Integers, FiniteSets
CONSTANTS
  Processes,   \* of the new PID namespace
  runtime,     \* the first of them
  MaxPids      \* what is written to pids.max

RockerAssumption == runtime \in Processes /\ MaxPids \in Nat

VARIABLES
  parent, child,   \* where main() and runtime() stand
  stack,           \* the child's stack is allocated
  processes,       \* those of the container that are alive
  cgroup, limits,  \* the members of /sys/fs/cgroup/knocker, and what limits it has
  shared,          \* the container's mounts propagate to the host
  mounts,          \* mounts[n]: directories that mount namespace n has a new /proc on
  hostname,        \* of the child's UTS namespace
  root, cwd        \* directories of the child, as seen from the host

parentVars == <<parent, stack, limits>>
childVars  == <<child, shared, mounts, hostname, root, cwd>>
vars == <<parentVars, childVars, processes, cgroup>>

Namespaces == {"host", "container"}
rootfs == "/home/abby/ubuntu_fs"

\* Distributions mount / shared.  The cgroup outlives earlier containers.
Init ==
  /\ parent = "malloc" /\ child = "none" /\ stack = FALSE
  /\ processes = {} /\ cgroup = {}
  /\ limits \in {{}, {"pids.max", "memory.max"}}
  /\ shared \in BOOLEAN
  /\ mounts = [n \in Namespaces |-> {}]
  /\ hostname = "host"
  /\ root = "/" /\ cwd = "cwd"
-----------------------------------------------------------------------------
Parent(at, next) == parent = at /\ parent' = next

malloc ==
  /\ \/ Parent("malloc", "clone") /\ stack' = TRUE
     \/ Parent("malloc", "exited") /\ UNCHANGED stack  \* or there is no command
  /\ UNCHANGED <<childVars, processes, cgroup, limits>>

clone ==
  /\ \/ /\ Parent("clone", "rule_set")
        /\ child' = "mount private" /\ processes' = {runtime}
     \/ Parent("clone", "free") /\ UNCHANGED <<child, processes>>
  /\ UNCHANGED <<stack, limits, cgroup, shared, mounts, hostname, root, cwd>>

\* The directory cannot be made, or a file cannot be opened or written:
\* reported at most.
NoDirectory == Parent("rule_set", "waitpid") /\ UNCHANGED <<stack, limits, childVars, processes, cgroup>>
NoFile ==
  /\ \/ Parent("rule_set", "pids") \/ Parent("pids", "memory") \/ Parent("memory", "waitpid")
  /\ UNCHANGED <<stack, limits, childVars, processes, cgroup>>

\* Only the process itself moves into the cgroup, not those it has forked.
WriteProcs ==
  /\ Parent("rule_set", "pids")
  /\ runtime \in processes
  /\ cgroup' = cgroup \cup {runtime}
  /\ UNCHANGED <<stack, limits, childVars, processes>>

WriteLimit(at, next, limit) ==
  /\ Parent(at, next)
  /\ limits' = limits \cup {limit}
  /\ UNCHANGED <<stack, childVars, processes, cgroup>>

waitpid ==
  /\ Parent("waitpid", "free")
  /\ child = "zombie" /\ child' = "reaped"
  /\ UNCHANGED <<stack, limits, processes, cgroup, shared, mounts, hostname, root, cwd>>

free ==
  /\ Parent("free", "exited")
  /\ stack' = FALSE
  /\ UNCHANGED <<limits, childVars, processes, cgroup>>

ParentStep ==
  \/ malloc \/ clone \/ NoDirectory \/ NoFile \/ WriteProcs
  \/ WriteLimit("pids", "memory", "pids.max") \/ WriteLimit("memory", "waitpid", "memory.max")
  \/ waitpid \/ free
-----------------------------------------------------------------------------
Child(at, next) == child = at /\ child' = next /\ UNCHANGED <<parentVars, processes, cgroup>>

mountPrivate_Forgotten ==
  Child("mount private", "sethostname") /\ UNCHANGED <<shared, mounts, hostname, root, cwd>>

mountPrivate ==
  Child("mount private", "sethostname") /\ shared' = FALSE /\ UNCHANGED <<mounts, hostname, root, cwd>>

sethostname ==
  /\ Child("sethostname", "chroot")
  /\ hostname' = "Knocker-Host"
  /\ UNCHANGED <<shared, mounts, root, cwd>>

chroot == Child("chroot", "chdir") /\ root' = rootfs /\ UNCHANGED <<shared, mounts, hostname, cwd>>
chdir  == Child("chdir", "mount proc") /\ cwd' = root /\ UNCHANGED <<shared, mounts, hostname, root>>

\* Of the mount namespaces, those that a mount in the container reaches.
Reached == IF shared THEN Namespaces ELSE {"container"}

mountProc ==
  /\ Child("mount proc", "execvp")
  /\ mounts' = [n \in Namespaces |-> mounts[n] \cup IF n \in Reached THEN {cwd} ELSE {}]
  /\ UNCHANGED <<shared, hostname, root, cwd>>

execvp == Child("execvp", "command") /\ UNCHANGED <<shared, mounts, hostname, root, cwd>>

umount ==
  /\ Child("execvp", "umounted")
  /\ mounts' = [n \in Namespaces |-> mounts[n] \ IF n \in Reached THEN {cwd} ELSE {}]
  /\ UNCHANGED <<shared, hostname, root, cwd>>

\* The child returns from runtime() because a call has failed, or the command
\* is over: the kernel kills its namespace's processes and drops its mounts.
ChildExits ==
  /\ child \in {"mount private", "sethostname", "chroot", "chdir", "mount proc", "umounted", "command"}
  /\ child' = "zombie" /\ processes' = {} /\ cgroup' = {}
  /\ mounts' = [mounts EXCEPT !["container"] = {}]
  /\ UNCHANGED <<parentVars, shared, hostname, root, cwd>>

\* The command or a process it has started starts another, which inherits
\* the cgroup; at the limit fork fails.
fork(p, q) ==
  /\ child = "command" /\ p \in processes /\ q \notin processes
  /\ p \in cgroup /\ "pids.max" \in limits => Cardinality(cgroup) < MaxPids
  /\ processes' = processes \cup {q}
  /\ cgroup' = IF p \in cgroup THEN cgroup \cup {q} ELSE cgroup
  /\ UNCHANGED <<parentVars, childVars>>

exit(p) ==
  /\ p \in processes \ {runtime}
  /\ processes' = processes \ {p} /\ cgroup' = cgroup \ {p}
  /\ UNCHANGED <<parentVars, childVars>>

\* main() has returned.
Finished == parent = "exited" /\ UNCHANGED vars

Next ==
  \/ ParentStep
  \/ mountPrivate \/ sethostname \/ chroot \/ chdir \/ mountProc \/ execvp \/ umount \/ ChildExits
  \/ \E p, q \in Processes : fork(p, q)
  \/ \E p \in Processes : exit(p)
  \/ Finished

Spec == Init /\ [][Next]_vars
-----------------------------------------------------------------------------
\* "Any mounts made inside the container stay inside the container"
\* (REASONING.md:20); after a failed call the command does not run, in the
\* host's directories or elsewhere; nothing survives main().
HostUntouched ==
  /\ mounts["host"] = {}
  /\ child = "command" => /\ root = rootfs /\ cwd = rootfs /\ hostname = "Knocker-Host"
                          /\ mounts["container"] = {rootfs}
  /\ parent = "exited" => processes = {} /\ mounts["container"] = {}

\* The child's stack is freed however main() ends.
StackIsFreed == parent = "exited" => ~stack

\* What main() must reach once the container has ended.
Awaited == child \in {"zombie", "reaped"} => parent = "exited"

\* "Apply resource limits" (main.cpp:138): once the child is in the cgroup,
\* all processes of the container are.
LimitsApplied == runtime \in cgroup => processes \subseteq cgroup
=============================================================================
