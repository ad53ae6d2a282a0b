\* Texts of any characters, and of any tokens.
SPECIFICATION MCSpec
CONSTANTS
  Letters = {"i", "f"}
  Digits = {"1"}
  Spaces = {" "}
  Keywords <- Keyword
  Chars = {"i", "f", "1", "-", "=", "<", "&", " ", "#", "!", "("}
  AnyChars = {"i", "f", "1", "-", "=", "<", "&", " ", "#"}
  MaxChars = 4
  MaxTokens = 3
INVARIANTS
  TokensAreTheText
  SpacesAreFree
PROPERTIES
  EndIsFound
