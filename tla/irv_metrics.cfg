SPECIFICATION FairSpec
CONSTANTS
  cpu = cpu
  net = net
  gone = gone
  d1 = d1
  d2 = d2
  Devices = {d1, d2}
  Metrics = {cpu, net, gone}
  Valid = {cpu, net}
  Answers <- MCAnswers
  Top = 2
  MaxWire = 1
  MaxRequests = 3
  Stored <- MCStored
  Names = {"q"}
  MaxSaves = 2
  MaxManagers = 2
INVARIANTS Safety PresetsAgree
CHECK_DEADLOCK FALSE
PROPERTIES ShowsTheMetric
