SPECIFICATION Spec
INVARIANTS
  TypeOK
  InStep
  ExchangesListedTag
PROPERTIES
  CallsReturn
  ImplementsExchange
