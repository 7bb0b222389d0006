SPECIFICATION GSpec
CONSTANTS
  Numeral <- MCNumeral
  MaxErrors = 3
  HexDigits = {"0", "1", "2", "3", "5"}
  Percent <- MCPercent
  MaxIe = 3
  TransportArgs <- MCTransportArgs
  Lines <- MCLines
INVARIANT ParsedAsGrammar
INVARIANT SentAsTyped
PROPERTY ParseReturns
