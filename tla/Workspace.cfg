\* Two agents read, edit and write the files of one directory; Read is asked for blocks.
SPECIFICATION Spec
CONSTANTS
  MaxLine = 2
  TabWidth = 1
  Slash = 2
  Agents = {a1, a2}
  MaxCalls = 3
  FilePaths <- PathsMC
  FirstTexts <- FirstTextsMC
  WriteTexts <- WriteTextsMC
  NewTexts <- NewTextsMC
  OtherTexts <- OtherTextsMC
  Asks <- AsksMC
  AskedLines <- AskedLinesMC
INVARIANTS
  EditsHitWhatWasRead
  PagesAreTheTree
  BlockIsWhatWasAsked
SYMMETRY Symmetry
CHECK_DEADLOCK FALSE
