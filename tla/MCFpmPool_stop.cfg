SPECIFICATION LiveSpec
CONSTANTS
    Pids = {c1, c2}
    Styles = {"static"}
    pm_max_children = 2
    pm_start_servers = 0
    pm_min_spare_servers = 0
    pm_max_spare_servers = 0
    pm_max_spawn_rate = 1
    Limits = {0}
    request_terminate_timeout = FALSE
    track_finished = FALSE
    emergency_restart = TRUE
    max_requests = FALSE
    Connections = 1
    ForkFailures = 0
    Faults = 1
    Commands = 1
PROPERTIES DeadAreBuried StopCompletes
CHECK_DEADLOCK FALSE
