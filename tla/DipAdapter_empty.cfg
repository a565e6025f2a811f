SPECIFICATION Spec
CONSTANTS
  Cursors = {"c1", "c2", "c3"}
  Listed <- MCListed
  Linked = {"d1", "d3", "d4"}
  MaxPages = 3
  Speakers = {"ann", "bob"}
  Headers = {"top1", "top2"}
  Texts <- MCTexts
  MaxLines = 6
INVARIANT NoEmptyDraft
CHECK_DEADLOCK FALSE
