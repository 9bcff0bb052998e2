SPECIFICATION ServeSpec
CONSTANTS
    Pids = {c1, c2}
    Styles = {"dynamic"}
    pm_max_children = 2
    pm_start_servers = 1
    pm_min_spare_servers = 1
    pm_max_spare_servers = 1
    pm_max_spawn_rate = 2
    Limits = {0}
    request_terminate_timeout = FALSE
    track_finished = FALSE
    emergency_restart = FALSE
    max_requests = TRUE
    Connections = 2
    ForkFailures = 0
    Faults = 1
    Commands = 0
PROPERTY ConnectionsServed
CHECK_DEADLOCK FALSE
