--------------------------- MODULE MCSessionTasks ---------------------------
(* Small instances of SessionTasks: the agents.toml they use, and the        *)
(* deployments that are explored.                                            *)
EXTENDS SessionTasks

CONSTANTS p1, p2, d1, d2, tui, c1

\* One worktree agent and one shared agent, one task each; they form two teams.
MCAgents == {"fixer", "reviewer"}
MCMaxParallel == [a \in MCAgents |-> 1]
MCWorktree == {"fixer"}
MCTeams == {[members |-> <<"fixer", "reviewer">>, sequential |-> FALSE],
            [members |-> <<"reviewer", "fixer">>, sequential |-> TRUE]}

Deployment(parents, delegators, ops, statuses, faults, crowded, tasks) ==
    [parents |-> parents, delegators |-> delegators, callers |-> {c1},
     ops |-> ops, statuses |-> statuses, faults |-> faults, crowded |-> crowded,
     tasks |-> tasks]
\* Whether the state directory holds more files than one scan reads
Roomy == FALSE
Crowded == TRUE

\* Delegates and schedules of two processes over two parents beside one client
TwoDelegators ==
    Deployment({p1, p2}, {d1, d2}, {"delegate", "schedule", "update", "release"},
               {"completed"}, {"save", "lease", "crash"}, Roomy, 3)
\* Delegates and retries while a client completes, hands off and joins
Joining ==
    Deployment({p1}, {d1}, {"delegate", "schedule", "update", "handoff", "join"},
               {"completed"}, {}, Crowded, 3)
\* A TUI and a client on one task, every operation and every fault
WithTui ==
    Deployment({p1}, {tui}, OpKinds, {"completed"}, FaultKinds, Crowded, 2)
ConcurrentSetups == {TwoDelegators, Joining, WithTui}

\* One client, one request at a time: saves that fail, and every fault
SavesFail ==
    Deployment({p1, p2}, {c1}, {"delegate", "update", "release", "refresh"},
               {"running", "failed"}, {"save"}, Roomy, 3)
EveryFault ==
    Deployment({p1}, {c1}, {"delegate", "schedule", "advance", "update", "release"},
               {"completed"}, FaultKinds, Crowded, 3)
SerialSetups == {SavesFail, EveryFault}

\* A release while a delegate is between its load and its save
ReleaseRace == {Deployment({p1}, {d1}, {"delegate", "release"}, {}, {}, Roomy, 2)}
=============================================================================
