SPECIFICATION FairSpec
CONSTANTS
    Executions = {e1, e2}
    Languages = {"python", "javascript", "typescript", "cpp", "c"}
    Rebuilt = {"cpp"}
    Containers = {k1, k2}
    PoolMax = 1
    RunMax = 1
    CompileMax = 1
    MaxFaults = 1
    None = None
INVARIANTS
    Exclusive
    
    
    CompilersExplained
    

    
    
