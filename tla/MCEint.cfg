\* Deadlock is not checked: a script that is refused or crashes ends.
SPECIFICATION Spec
CONSTANTS
    Scripts <- MCScripts
    Symbols <- MCSymbols
    Stores <- MCStores
    MaxRegs = 6
    MaxInstr = 4
    MaxArgs = 3
CHECK_DEADLOCK FALSE
INVARIANTS EvaluatesAsWritten OutcomeIsDeserved
