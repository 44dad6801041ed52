SPECIFICATION FairSchemaSpec
CONSTANTS
    op = op
    cli1 = cli1
    cli2 = cli2
    Operator = op
    Procs = {op, cli1, cli2}
    Latest = 3
    Statements = 2
    MaxFaults = 2
INVARIANT
    SchemaIsApplied
PROPERTY
    OperatorGetsReady
