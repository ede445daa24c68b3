\* A user task dispatched before its kernel stack is known.
SPECIFICATION Spec
CONSTANT MaxTasks = 2
INVARIANT Esp0Updated
