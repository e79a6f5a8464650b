CONSTANTS
  t1 = t1
  t2 = t2
  Tool = {t1, t2}
  Action = {"allow", "human_approval", "deny"}
  File = {1, 2}
  AgentOf <- TwoFiles
  Inline <- NoInline
  Texts <- OwnAndShared
  Rewrites <- FewRewrites
  Broken = Broken
  Reloader = {r1, r2}
  Prompt = TRUE
  MaxByHand = 2
  MaxEdits = 1
SPECIFICATION FairSpec
CHECK_DEADLOCK FALSE
INVARIANTS
  StaticTellsCalls
  HiddenIsUncallable
  EditDecides
  OthersUndisturbed
PROPERTIES
  FilesWin
