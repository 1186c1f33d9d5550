\* Two services, one of which is expected to run for two ticks at least.
SPECIFICATION FairSpec
CONSTANTS
  Routines = {"fast", "slow"}
  ExpectedMinDuration <- Expected
  InitialInterval = 1
  MaxInterval = 2
  MaxElapsedTime = 2
  MaxReports <- Reports
INVARIANTS TypeOK PanicsAreReported StartedComesFirst ShutdownIsLogged GivenUpOnlyInCrashLoop
PROPERTY SignalEndsDaemon
