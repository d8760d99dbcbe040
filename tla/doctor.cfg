CONSTANTS
    Jobs = {j1, j2}
    Processes = {p1}
    Machines <- MCMachines
    CommandLines <- MCCommandLines
    Environments = {"dev", "qa"}
    Arguments <- MCArguments
    EnvFiles <- MCEnvFiles
    Dotenvs <- MCDotenvs
    UserLines <- MCUserLines
    Shells <- MCShells
    MaxCommands = 2
    MaxEdits = 1
SYMMETRY Symmetry
SPECIFICATION DoctorSpec
INVARIANTS RecommendedLaunches UserLinesSurvive ShellWins
PROPERTY FixReachesTests
CHECK_DEADLOCK FALSE
