SPECIFICATION ModFairSpec
CONSTANTS
  NetIds = {p1}
  Controllers = {c1}
  Handlers = {h1}
  Chat = game
  Enforcer = init
  MaxSessions = 1
  MaxLate = 1
  None = None
  Name <- MCName
  p1 = p1
  p2 = p2
  guid = guid
  ann = ann
  Ann = Ann
  n1 = n1
  n2 = n2
  Texts <- MCTexts
  NoText = NoText
  Lower <- MCLower
  SteamIds <- MCSteamIds
  Numbers <- MCNumbers
  NoController = NoController
  Sample <- MCSample
INVARIANTS
  KickRemembered
  BanKicksListed
  LookupsAgree
PROPERTIES
  EnforcementWorks
