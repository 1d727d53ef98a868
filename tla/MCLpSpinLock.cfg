SPECIFICATION Spec
CONSTANT Threads <- MCThreads
INVARIANTS IInv
PROPERTIES ImplementsMutex SomebodyGetsIn
