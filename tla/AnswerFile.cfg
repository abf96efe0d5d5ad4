CONSTANTS
  None = None
  empty = empty
  spaces = spaces
  plain = plain
  padded = padded
  marked = marked
  marks = marks
  guest = guest
  hidden = hidden
  hyphen = hyphen
  Texts <- AllTexts
  Blank = empty
  Trimmed <- TheTrimmed
  Stripped <- TheStripped
  Reserved = {guest}
  Dashed = {hyphen}
  Forms <- AllForms
  Lines <- TheLines
SPECIFICATION AnswerSpec
INVARIANT
  AsAsked
CHECK_DEADLOCK FALSE
