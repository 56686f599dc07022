SPECIFICATION IntrSpec
CONSTANTS
  Irqs = {34, 41}
  Drivers = {timer, net}
  other = other
  none = none
INVARIANTS IntrTypeOK AckOwed
  
