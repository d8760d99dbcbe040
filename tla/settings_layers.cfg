CONSTANTS
    Jobs = {j1}
    Processes = {p1}
    Machines <- MCMachines
    CommandLines <- MCCommandLines
    Environments = {"dev", "qa"}
    Arguments <- MCBothEnvironments
    EnvFiles <- MCEnvFiles
    Dotenvs <- MCDotenvs
    UserLines <- MCUserLines
    Shells <- MCShells
    MaxCommands = 0
    MaxEdits = 0
SPECIFICATION DoctorSpec
PROPERTY LayersHold
CHECK_DEADLOCK FALSE
