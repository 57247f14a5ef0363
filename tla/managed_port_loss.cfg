SPECIFICATION FairSpec
CONSTANTS
  Ports = {"elastic", "redis", "mongo", "mqtt", "kafka", "amqp", "socket"}
  MaxChecks = 3
  MaxRepeats = 2
INVARIANT PortTypeOK
PROPERTY EveryLossIsTold
