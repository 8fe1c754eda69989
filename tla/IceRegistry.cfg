\* Two names on three hosts: sets of every size, and pairs deregistered twice.
CONSTANTS
  Name = {n1, n2}
  Ip = {ip1, ip2, ip3}
  NoAnswer = NoAnswer
SPECIFICATION Spec
INVARIANTS TypeOK Inverse
PROPERTIES ImplementsPairs
