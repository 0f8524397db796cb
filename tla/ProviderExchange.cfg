CONSTANTS
  Tables <- MCTables
  FormSent <- MCFormSent
  Says <- MCSays
  Unheard <- MCUnheard
  Catalogue <- MCCatalogue
  Messages <- MCMessages
  Excepted <- MCExcepted
SPECIFICATION ExchangeSpec
CHECK_DEADLOCK FALSE
INVARIANTS DefaultsYield SaidReaches StreamedAsWhole EndsWell FailureIsNamed SentWhereServed
