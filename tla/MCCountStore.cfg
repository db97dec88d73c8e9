SPECIFICATION FairSpec
CONSTANTS
  w1 = w1
  w2 = w2
  w3 = w3
  p1 = p1
  p2 = p2
  Workers <- MCWorkers
  Processes <- MCProcesses
  ProcessOf <- MCProcessOf
  Pid <- SamePid
  MaxSequence = 2
  MaxFaults = 2
  Nothing = Nothing
  Broken = Broken
  Whole = Whole
  NoAnswer = NoAnswer
  Miss = Miss
  NotOpen = NotOpen
INVARIANTS TypeOK AtomicPublication OneWriter Converges
PROPERTIES KeepsPromise StoresReturn
