------------------------------ MODULE Workloads ------------------------------
(***************************************************************************)
(* src/pods/container.py and src/pods/pod.py: the life cycle of a pod and  *)
(* of its containers.  The containers of a pod are a function from 1..k to *)
(* their statuses; restart counters, exit codes and timestamps are left    *)
(* out, since nothing reads them but the snapshots.                        *)
(***************************************************************************)
EXTENDS Resources

ContainerStatus == {"Created", "Running", "Terminated", "Failed", "Restarting"}

\* SCHEDULED is left out: schedule_one calls start right after schedule_on.
PodStatus == {"Pending", "Running", "Succeeded", "Failed", "Evicted"}

\* restart_policy is a free string; the code knows two of them.
RestartPolicy == {"Always", "Never", "Other"}

\* The arguments of create_pod: how many containers, what each asks for, the restart policy.
PodSpec == [containers : Nat, each : Amount, policy : RestartPolicy]

\* Pod.resource_request adds up the containers.
RequestOf(spec) == [r \in Resource |-> spec.containers * spec.each[r]]

NewContainers(spec) == [c \in 1 .. spec.containers |-> "Created"]

\* Container.start: only a created or a restarting container starts.
Start(status) == IF status \in {"Created", "Restarting"} THEN "Running" ELSE status

\* Pod.start.
StartAll(cs) == [c \in DOMAIN cs |-> Start(cs[c])]

\* The loop of Pod.stop and Pod.evict: only running containers are stopped.
StopAll(cs) == [c \in DOMAIN cs |-> IF cs[c] = "Running" THEN "Terminated" ELSE cs[c]]

\* Fault: restart() does not start the container.
RestartWithoutStart(cs) == [c \in DOMAIN cs |-> IF cs[c] = "Failed" THEN "Restarting" ELSE cs[c]]

\* Container.restart: Restarting, then start().
RestartFailed(cs) == [c \in DOMAIN cs |-> IF cs[c] = "Failed" THEN Start("Restarting") ELSE cs[c]]

\* Container.simulate_tick of every container, those of crashed fail.
FailContainers(cs, crashed) == [c \in DOMAIN cs |-> IF c \in crashed THEN "Failed" ELSE cs[c]]

\* Containers that can fail in a tick.
RunningContainers(cs) == {c \in DOMAIN cs : cs[c] = "Running"}

\* Pod.simulate_tick of a running pod whose containers crashed fail: its containers afterwards...
ContainersAfterTick(policy, cs, crashed) ==
    LET failed == FailContainers(cs, crashed)
    IN  IF crashed # {} /\ policy = "Always" THEN RestartFailed(failed) ELSE failed

\* ... and its status.
StatusAfterTick(policy, crashed) ==
    IF crashed # {} /\ policy = "Never" THEN "Failed" ELSE "Running"

=============================================================================
