------------------------------ MODULE Terminal ------------------------------
(***************************************************************************)
(* What a program may rely on when it prints: the screen is one line of    *)
(* cells, wound up in rows, and starts over at its end; each character is  *)
(* printed once, in order, where the cursor is.  A cursor that was put off *)
(* the screen is adrift, and nothing is promised until it is back.         *)
(***************************************************************************)
EXTENDS Integers, SequencesExt

CONSTANTS NUM_COLUMNS, NUM_ROWS, NewLine, Texts, Keys, Colors

VARIABLES
    caret,      \* a cell, or Adrift
    color,
    printed     \* by the last call: <<cell, character, colour>>

Size == NUM_COLUMNS * NUM_ROWS
Cells == 0..(Size - 1)
Adrift == -1

Init == caret \in Cells /\ color \in Colors /\ printed = << >>

After(p, c) ==
    IF c = NewLine THEN ((p \div NUM_COLUMNS + 1) * NUM_COLUMNS) % Size
                   ELSE (p + 1) % Size

\* The cell of each character of text, and where the caret is left.
At(p, text) ==
    LET at[i \in 1..(Len(text) + 1)] ==
            IF i = 1 THEN p ELSE After(at[i - 1], text[i - 1])
    IN  at

PrintText(text) ==
    /\ caret # Adrift
    /\ LET at == At(caret, text)
       IN  /\ caret' = at[Len(text) + 1]
           /\ printed' = FlattenSeq([i \in DOMAIN text |->
                IF text[i] = NewLine THEN << >> ELSE <<(<<at[i], text[i], color>>)>>])
    /\ UNCHANGED color

Place(p) == caret # Adrift /\ caret' = p /\ printed' = << >> /\ UNCHANGED color
Clear == caret' = 0 /\ printed' = << >> /\ UNCHANGED color
Paint(c) == color' = c /\ printed' = << >> /\ UNCHANGED caret

\* A key that is pressed shows in the first cell; a newline shows nothing.
Echo(c) ==
    /\ printed' = IF c = NewLine THEN << >> ELSE <<(<<0, c, color>>)>>
    /\ UNCHANGED <<caret, color>>

Drift == caret = Adrift /\ UNCHANGED color

Next ==
    \/ \E text \in Texts : PrintText(text)
    \/ \E p \in Cells \cup {Adrift} : Place(p)
    \/ Clear \/ Drift
    \/ \E c \in Colors : Paint(c)
    \/ \E c \in Keys : Echo(c)

Spec == Init /\ [][Next]_<<caret, color, printed>>
=============================================================================
