SPECIFICATION Spec
CONSTANTS
    Alphabet = {"/", "*", "nl", "bs", "'", "dq", "x", "(", ")", "<", ">", ","}
    MaxLen = 5
INVARIANTS
    StripsLikeLexer
    SplitsAtTop
    MatchIsFirstBalanced
