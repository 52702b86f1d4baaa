SPECIFICATION Spec
CONSTANTS
    Types = {"gopass", "keychain"}
    MaxProcs = 2
    Platform = "darwin"
    Current <- MCCurrent
    Infos <- MCInfos
    NoInfo = NoInfo
    NoType = NoType
    Pins <- MCPins
    Texts <- MCTexts
    Prompts <- MCPrompts
    MaxAsked = 2
    Configs <- MCConfigs
    Requests <- MCRequests
    NoRef = NoRef
    Error = Error
INVARIANTS
    
    DialogueFaithful
    AliasesResolve
PROPERTIES
    EveryTypeReported
    EveryCallReturns
CHECK_DEADLOCK FALSE
