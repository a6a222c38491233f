SPECIFICATION Spec
INVARIANTS
    TypeOK
    Faithful
    DescriptorDefined
    ScriptSuffices
CHECK_DEADLOCK FALSE
