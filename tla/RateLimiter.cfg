SPECIFICATION LimiterSpec
CONSTANTS
  forgot = forgot
  login = login
  resend = resend
  r1 = r1
  r2 = r2
  NoKey = NoKey
  GuardedKeys <- ForgotKey
  AttemptKeys <- LoginKey
  CooldownKeys <- ResendKey
  Caller <- TwoCallers
  MaxAttempts <- Limits
  Window <- TickWindow
  Second = 2
  Horizon = 6
SYMMETRY Symmetry
INVARIANTS
  AttemptOvershoot
  TwoWindowsBound
  PromiseKept
