CONSTANTS
  NoCard = NoCard
  Cards = {c1, c2}
SPECIFICATION Spec
INVARIANTS
  TypeOK
  DataBehindCustomKey
  AuthenticatesSelected
PROPERTIES
  ServesCard
