--------------------------- MODULE UsernameRules ---------------------------
(***************************************************************************)
(* The Username value object (domain/value_objects/username.py): the       *)
(* length check and the four regular expressions of                        *)
(* _validate_username_pattern, applied in the code's order, each raising   *)
(* DomainTypeError with its own message.                                   *)
(*                                                                         *)
(* A username is a sequence of characters.  Each pattern is modelled by    *)
(* what Python's re module does with it: re.match anchors at the start     *)
(* only, re.fullmatch at both ends, `.` matches any character but a line   *)
(* feed, and `$` matches at the end or just before a final line feed.  The *)
(* code is checked against the rules its comments state, over every       *)
(* string of a small alphabet up to a bound.                               *)
(***************************************************************************)
EXTENDS Naturals, Sequences, SequencesExt

CONSTANTS
  Chars,          \* the alphabet of the candidate names
  LetterOrDigit,  \* the characters of [a-zA-Z0-9] among Chars
  MIN_LEN, MAX_LEN,
  MaxNameLen      \* the longest candidate name

SpecialChars == {".", "-", "_"}

LF == "\n"

ASSUME /\ LetterOrDigit \subseteq Chars
       /\ MIN_LEN \in Nat \ {0} /\ MAX_LEN \in Nat /\ MIN_LEN <= MAX_LEN

VARIABLES
  name,    \* the value the Username is constructed from
  result   \* "none" before __post_init__ ran, then "ok" or the failed check

vars == <<name, result>>

Checks == {"length", "start", "chars", "consecutive", "end"}

-----------------------------------------------------------------------------
(* The patterns, as Python's re applies them.                              *)

\* re.match(PATTERN_START, v), `^[a-zA-Z0-9]`
StartMatches(s) == Len(s) >= 1 /\ s[1] \in LetterOrDigit

\* re.fullmatch(PATTERN_ALLOWED_CHARS, v), `[a-zA-Z0-9._-]*`
AllowedChars(s) == \A i \in 1 .. Len(s) : s[i] \in LetterOrDigit \cup SpecialChars

\* A variant of the automaton below whose special-character group repeats.
NextStateLenient(q, c) ==
  IF q = "dead" THEN "dead"
  ELSE IF c \in LetterOrDigit THEN "run"
  ELSE IF c \in SpecialChars /\ q # "begin" THEN "special"
  ELSE "dead"

\* PATTERN_NO_CONSECUTIVE_SPECIALS, `^[a-zA-Z0-9]+([._-]?[a-zA-Z0-9]+)*[._-]?$`,
\* as the automaton recognising it: "begin" before the first character,
\* "run" after a letter or digit, "special" after one special character.
NextState(q, c) ==
  IF q = "dead" THEN "dead"
  ELSE IF c \in LetterOrDigit THEN "run"
  ELSE IF c \in SpecialChars /\ q = "run" THEN "special"
  ELSE "dead"

\* Under fullmatch `$` must fall at the very end, so the whole string is read.
NoConsecutive(s) == FoldLeft(NextState, "begin", s) \in {"run", "special"}

\* re.match(PATTERN_END, v), `.*[a-zA-Z0-9]$`: a letter or digit preceded
\* by no line feed, and followed by nothing or by one final line feed.
EndMatches(s) ==
  \E k \in 1 .. Len(s) :
    /\ s[k] \in LetterOrDigit
    /\ \A i \in 1 .. k - 1 : s[i] # LF
    /\ k = Len(s) \/ (k = Len(s) - 1 /\ s[Len(s)] = LF)

-----------------------------------------------------------------------------
(* A variant that lets _validate_username_pattern run the consecutive-     *)
(* specials check before the start check.                                  *)
UsernameCheckReordered(s) ==
  IF Len(s) < MIN_LEN \/ Len(s) > MAX_LEN THEN "length"
  ELSE IF ~NoConsecutive(s) THEN "consecutive"
  ELSE IF ~StartMatches(s) THEN "start"
  ELSE IF ~AllowedChars(s) THEN "chars"
  ELSE IF ~EndMatches(s) THEN "end"
  ELSE "ok"

\* __post_init__: _validate_username_length, then the four pattern checks
\* of _validate_username_pattern; the first that fails raises.
UsernameCheck(s) ==
  IF Len(s) < MIN_LEN \/ Len(s) > MAX_LEN THEN "length"
  ELSE IF ~StartMatches(s) THEN "start"
  ELSE IF ~AllowedChars(s) THEN "chars"
  ELSE IF ~NoConsecutive(s) THEN "consecutive"
  ELSE IF ~EndMatches(s) THEN "end"
  ELSE "ok"

Init ==
  /\ name \in BoundedSeq(Chars, MaxNameLen)
  /\ result = "none"

\* Username(value) is constructed.
Construct ==
  /\ result = "none"
  /\ result' = UsernameCheck(name)
  /\ UNCHANGED name

Done == result # "none" /\ UNCHANGED vars

Next == Construct \/ Done

Spec == Init /\ [][Next]_vars

-----------------------------------------------------------------------------
(* The rules as the comments above the patterns state them.                *)

\* The rule a failed check names is broken by s.
Breaks(s, check) ==
  CASE check = "length" -> Len(s) \notin MIN_LEN .. MAX_LEN
    [] check = "start" -> ~(Len(s) >= 1 /\ s[1] \in LetterOrDigit)
    [] check = "chars" -> \E i \in 1 .. Len(s) : s[i] \notin LetterOrDigit \cup SpecialChars
    [] check = "consecutive" ->
         \E i \in 1 .. Len(s) - 1 : s[i] \in SpecialChars /\ s[i + 1] \in SpecialChars
    [] check = "end" -> ~(Len(s) >= 1 /\ s[Len(s)] \in LetterOrDigit)

Documented(s) == \A check \in Checks : ~Breaks(s, check)

\* The four patterns together accept exactly the names the comments of
\* Username describe: 5 to 20 characters, letters, digits and . - _ only,
\* beginning and ending with a letter or digit, no two specials in a row
\* (a final line feed, which `$` lets through, included).
AcceptsExactlyDocumented ==
  result # "none" => (result = "ok" <=> Documented(name))

\* A rejected name is told the truth: the DomainTypeError raised is the
\* message of a rule the name really breaks.  Each pattern is weaker than
\* its rule on its own (the consecutive-specials pattern also rejects a
\* leading special), so this depends on the order the checks run in.
ErrorNamesBrokenRule ==
  result \in Checks => Breaks(name, result)
====
