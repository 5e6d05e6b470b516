CONSTANTS
  Label <- MCLabel
  LabelLen <- MCLabelLen
  Types = {"A", "CNAME", "MX", "TXT", "other"}
  MaxLabels = 1
  MaxTexts = 2
  MaxRR = 2
  MAX_ANS = 2
SPECIFICATION ParseSpec
INVARIANTS ParseTypeOK InBounds Recovers SaysPrefix
