\* The length bounds are scaled down from 5 and 20 to 3 and 5 so that names
\* on both sides of both bounds are enumerated.  Value objects of up to
\* three fields cover every order of shown and hidden fields.
CONSTANTS
  Chars <- MCChars
  LetterOrDigit <- MCLetterOrDigit
  MIN_LEN = 3
  MAX_LEN = 5
  MaxNameLen = 6
  MaxFields = 3
SPECIFICATION MCSpec
INVARIANTS AcceptsExactlyDocumented ErrorNamesBrokenRule ReprRevealsExactlyShown
