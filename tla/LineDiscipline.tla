---------------------------- MODULE LineDiscipline ----------------------------
(***************************************************************************)
(* What the prompt promises the person at the keyboard: keys edit one      *)
(* line, Enter runs it and remembers it, the up and down arrows bring      *)
(* remembered lines back.                                                  *)
(***************************************************************************)
EXTENDS Sequences, Naturals

CONSTANTS Keys,     \* the characters that can be typed
          Width,    \* the longest line
          Memory    \* how many lines are remembered

VARIABLES line,     \* the line being edited
          past,     \* the remembered lines, oldest first
          at,       \* which of them is shown; 0: a line of the user's own
          ran       \* the line Enter has just run, << >> after any other key

Init == line = << >> /\ past = << >> /\ at = 0 /\ ran = << >>

Edit(l) == line' = l /\ at' = 0 /\ ran' = << >> /\ UNCHANGED past

Type(c) == Len(line) < Width /\ Edit(Append(line, c))

Erase == line # << >> /\ Edit(SubSeq(line, 1, Len(line) - 1))

Enter ==
    /\ line' = << >>
    /\ at' = 0
    /\ ran' = line
    /\ past' = IF line = << >> THEN past
               ELSE IF Len(past) < Memory THEN Append(past, line)
               ELSE Append(Tail(past), line)

Show(i) == line' = past[i] /\ at' = i /\ ran' = << >> /\ UNCHANGED past

Up == past # << >> /\ Show(IF at = 0 THEN Len(past)
                           ELSE IF at > 1 THEN at - 1 ELSE at)

Down == at # 0 /\ IF at < Len(past) THEN Show(at + 1) ELSE Edit(<< >>)

\* A key that edits nothing.
OtherKey == ran' = << >> /\ UNCHANGED <<line, past, at>>

Next == (\E c \in Keys : Type(c)) \/ Erase \/ Enter \/ Up \/ Down \/ OtherKey

Spec == Init /\ [][Next]_<<line, past, at, ran>>
=============================================================================
