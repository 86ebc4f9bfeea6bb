\* Two processes, four prompts of which one does not fit, three kills.
SPECIFICATION FairSpec
CONSTANTS
  Proc = {g1, g2}
  NoOne = NoOne
  Prompts <- PromptIds
  Fit = {1, 2, 4}
  Chunk = 2
  MaxCrashes = 3
INVARIANTS LinesReadable NoDuplicate
PROPERTIES NothingLost AllGenerated
