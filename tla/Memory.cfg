SPECIFICATION Spec
CONSTANTS
    NProc = 2
    PageSize = 2
    UserPages = 5
    Nodes = {"low", "high", "top"}
    Path <- MCPath
    MaxPages = 24
    Values = {"zero", "text", "arg", "one"}
    Zero = "zero"
    Junk = "junk"
    Text = "text"
    Arg = "arg"
    Workloads <- MCWorkloads
INVARIANT MemoryConsistent
PROPERTY ImplementsAddressSpaces
CHECK_DEADLOCK FALSE
