SPECIFICATION MCSpec
CONSTANTS
  ArmTTL = 1
  ChallengeTTL = 1
  HistoryTTL = 1
  TokenTTL = 1
  GracePeriod = 0
  Overlap = 2
  StoreMayFail = FALSE
  Racing = {2, 3}
  MaxChallenges = 3
  MaxTokens = 3
  MaxNow = 3
  Addresses = {a1, a2}
  Endpoints = {"start", "complete"}
  StartRefill = 2
  OtherRefill = 1
  BurstPerIP = 2
  GlobalBurst = 1
  SweepEvery = 2
  MaxBuckets = 1
  LimMaxNow = 4
  Sources = {a1, a2}
  ChallengeKeys = {c1}
  Requests = {r1, r2}
  MaxAttempts = 2
  Lockout = 1
  AttMaxNow = 3
  Nonces = {n1, n2}
  ProofRequests = {r1, r2}
  Skew = 1
  ReplayWindow = 2
  MaxNonces = 1
  ProofMaxNow = 4
INVARIANT ApprovalPerDevice
INVARIANT RevokedStaysOut
INVARIANT RotationIsSafe
INVARIANT SweepIsNeutral
INVARIANT GuessesBounded
INVARIANT NoReplayInWindow
CHECK_DEADLOCK FALSE
