SPECIFICATION Spec
CONSTANTS
    Player = "player"
    Rat = "rat"
    Villager = "villager"
    Nobody = "nobody"
    MaxHealth <- MCMaxHealth
    Damage <- MCDamage
    Cooldown <- MCCooldown
    FlagIds <- MCFlagIds
    Target <- MCTarget
    Bindings <- MCBindings
    Replies <- MCReplies
    StartNode = "greeting"
    Closed = "closed"
    NoSave = NoSave
INVARIANT
    RepliesWork
PROPERTY
    QuestIsSound
