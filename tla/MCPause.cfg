CONSTANTS
  Cpu = Cpu
  App = App
  Devices = {apu, nic}
  Raisers = {nic}
  Idlers = {apu, nic}
  LateLookers = {apu}
SPECIFICATION Spec
INVARIANTS StillWhileWriting AnswersTheAsker NobodySleepsThrough
PROPERTY SaveCompletes
