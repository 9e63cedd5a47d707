SPECIFICATION AttachmentsSpec
CONSTANTS
  aCampaign = aCampaign
  another = another
  aFiring = aFiring
  aCommunity = aCommunity
  aChat = aChat
  aClip = aClip
  aPhoto = aPhoto
  VkGroups = {aCommunity}
  MaxGroups = {aChat}
  Campaigns = {aCampaign, another}
  Firings = {aFiring}
  Deliveries <- Targets
  Order <- TwoFiles
  Videos = {aClip}
  MaxTries = 2
  MaxMishaps = 1
CONSTRAINT TwoPosts
INVARIANTS ReferencesSound ClearedNeedNoToken
PROPERTY RetriesReuse
CHECK_DEADLOCK FALSE
