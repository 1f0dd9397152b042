SPECIFICATION MCSpec
CONSTANTS
    NumLayers = 5
    Ranks = 3
    Stages = 2
    NumClients = 2
    PromptLen <- Prompts
    MaxOut = 2
    Slots = 2
    Budget = 2
    MaxDrops = 1
    MaxNgram = 4
    EngLayers = 2
    BaseVocab = 5
    TokenForms <- Forms
    PadToken = 1
    ImageToken = 6
    WrongToken = 5
    Texts <- EngTexts
    PromptSize <- EngPrompts
    BlockSize = 2
    NumBlocks = 6
    Window = 5
    EngConfs <- Deployments
INVARIANTS LayersFed RingRight EngramRight
