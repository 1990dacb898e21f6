\* A release while a delegate is between its load and its save.
SPECIFICATION Spec
\* Callers may all be idle with the bound on tasks used up.
CHECK_DEADLOCK FALSE
CONSTANTS
    p1 = p1
    p2 = p2
    d1 = d1
    d2 = d2
    tui = tui
    c1 = c1
    None = None
    Parents = {p1, p2}
    Delegators = {d1}
    Callers = {c1}
    Tui = None
    TuiTask = p1
    Agents <- MCAgents
    MaxParallel <- MCMaxParallel
    WorktreeAgents <- MCWorktree
    Teams <- MCTeams
    Setups <- ReleaseRace
    MaxTasks = 2
INVARIANT LiveHaveLease
