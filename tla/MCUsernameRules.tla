-------------------------- MODULE MCUsernameRules --------------------------
EXTENDS UsernameRules, ValueObject

\* One letter stands for [a-zA-Z0-9]; two of the three specials, a
\* character outside the allowed set and the line feed `$` treats apart.
MCChars == {"a", ".", "_", "!", "\n"}
MCLetterOrDigit == {"a"}

\* The username checks and the repr of a value object, side by side: the
\* two share no state, and each step is a step of one of them.
MCInit == Init /\ VOInit

MCSpec ==
  MCInit /\ [][(Next /\ UNCHANGED voVars) \/ (VONext /\ UNCHANGED vars)]_<<vars, voVars>>
====
