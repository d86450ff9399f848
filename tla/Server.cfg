CONSTANTS
  Workers = {w1, w2, w3}
  Capacity = 2
  ProcessIds = {p}
  Secrets = {x, y}
  Nothing = Nothing
  MaxBacklog = 1
SPECIFICATION FairSpec
INVARIANT TypeOK
INVARIANT RegistrationIsExact
INVARIANT TokenIsLive
PROPERTY CancelIsAimed
PROPERTY CancelIsTaken
PROPERTY StopIsObeyed
