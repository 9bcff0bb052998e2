SPECIFICATION ServeSpec
CONSTANTS
    Pids = {c1, c2}
    Styles = {"ondemand"}
    pm_max_children = 2
    pm_start_servers = 0
    pm_min_spare_servers = 0
    pm_max_spare_servers = 0
    pm_max_spawn_rate = 1
    Limits = {0}
    request_terminate_timeout = FALSE
    track_finished = FALSE
    emergency_restart = FALSE
    max_requests = FALSE
    Connections = 2
    ForkFailures = 0
    Faults = 0
    Commands = 0
PROPERTY IdleChildHandlesConnection
CHECK_DEADLOCK FALSE
