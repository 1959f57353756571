SPECIFICATION CSpec
CONSTANTS
    Inputs <- MCInputs
INVARIANT CTypeOK
INVARIANT PortsAsAnnotated
