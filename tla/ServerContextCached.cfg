SPECIFICATION Spec
CONSTANTS
    NCtx = 6
    Answers = {"a"}
    SysLen = 2
    Tokens = {"a", "b"}
    Prompts <- MCPrompts
    Keeps <- MCKeeps
    CachePrompts = {TRUE, FALSE}
    MaxSystem = 1
INVARIANT
    CachedPromptAsFresh
CHECK_DEADLOCK FALSE
