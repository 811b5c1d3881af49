SPECIFICATION Spec
CHECK_DEADLOCK FALSE
CONSTANTS
  Unset = Unset
  Fields <- PolicyFields
  Values <- PolicyValues
  Channels = {"a", "b"}
  Rules <- MCRules
  MaxRules = 2
  Tokens <- MCTokens
  FieldChoices <- MCFieldChoices
  EventMessages <- MCEventMessages
  Facts <- MCFacts
  NoMessage = NoMessage
  Structured = Structured
  MaxTokens = 6
  MaxFields = 2
INVARIANTS
  RoutesAreFirstMentions
  AcceptedIsWellFormed
  RenderIsSubstitution
  FieldsAreLines
  NoEmptyPart
