\* The three matchers on all short patterns and on selected long ones.
SPECIFICATION Spec
CONSTANTS
  Chars = {"a", "b"}
  MAXPAREN = 2
  MAXSTATES = 2
  Programs = {"nfa", "dfa0", "dfa1"}
  DStates <- MCDStates
  Patterns <- MCPatterns
  Argv <- MCArgv
  PatternLen = 4
  WordLen = 3
CHECK_DEADLOCK FALSE
INVARIANTS
  TypeOK
  VerdictsAreMembership
  CompileMatchesGrammar
  ListsFit
  StatesInOnePlace
PROPERTIES
  ImplementsCache
