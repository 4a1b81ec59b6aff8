CONSTANTS
  Width = 3
  Pol <- MCPol
  MaxShares = 4
  Id = 7
  jobs = "usual"
  nl = nl
  ns = ns
  Jobs <- MCJobs
  Draws <- MCDraws
  Mac <- MCMac
  NoLine <- nl
  NoSecret <- ns
SPECIFICATION BackupSpec
INVARIANTS EveryQuorumRecovers NoAssertFails RecoversTheSecret RefusedForCause
PROPERTIES WrittenOnce
