\* A task that exits while its creation is still to store READY.
SPECIFICATION Spec
CONSTANT MaxTasks = 2
INVARIANT NeverReturns
