SPECIFICATION Spec
CONSTANTS
    Pids = {c1, c2, c3}
    Styles = {"static", "dynamic", "ondemand"}
    pm_max_children = 3
    pm_start_servers = 1
    pm_min_spare_servers = 1
    pm_max_spare_servers = 2
    pm_max_spawn_rate = 2
    Limits = {0, 2}
    request_terminate_timeout = TRUE
    track_finished = TRUE
    emergency_restart = TRUE
    max_requests = TRUE
    Connections = 2
    ForkFailures = 1
    Faults = 1
    Commands = 0
SYMMETRY Symmetry
INVARIANTS TypeOK NobodyForgotten PoolBounded SlotsMatch
CHECK_DEADLOCK FALSE
