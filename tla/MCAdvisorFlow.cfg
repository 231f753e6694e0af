SPECIFICATION AdvisorSpec
CONSTANTS
  ClarifyMaxTurns = 1
  CsCases = {c1, c2}
  None = None
SYMMETRY Interchangeable
INVARIANTS
  ReferenceKept
  PromiseKept
  SupportIsLeft
  AdvisorQuestionEnds
  ConversationBounded
PROPERTIES
  SupportImplementsReplyFlow
