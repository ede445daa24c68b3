\* The smallest instance in which a creation can be interrupted.
SPECIFICATION Spec
CONSTANT MaxTasks = 2
INVARIANT NoFault
