------------------------------ MODULE Console ------------------------------
(***************************************************************************)
(* The console (io.c, devices.c, and write, gotoXY, changeColor and clrscr *)
(* of sys.c): a cursor of two bytes, a colour, and what each call puts     *)
(* into video memory.  The keyboard interrupt echoes keys between calls.   *)
(***************************************************************************)
EXTENDS UserMem, SequencesExt

CONSTANTS
    NUM_COLUMNS, NUM_ROWS,
    BYTE,           \* values of a Byte, 256
    START_ROW,      \* where the messages of the boot leave the cursor
    TAM_BUFFER,
    NewLine,        \* '\n'
    Mem,            \* the user's bytes, by address
    Ranges,         \* <<buffer, nbytes>> that user code passes to write
    Pictures,       \* NULL and the buffers that it passes to clrscr
    Coordinates,    \* what it passes to gotoXY
    Paints          \* <<bg, fg>> that it passes to changeColor

ASSUME ScreenAssumption ==
    /\ {NUM_COLUMNS, NUM_ROWS, BYTE, TAM_BUFFER} \subseteq Nat \ {0}
    /\ NUM_COLUMNS < BYTE /\ NUM_ROWS <= BYTE /\ START_ROW \in 0..(NUM_ROWS - 1)

ASSUME UserAssumption ==
    /\ \A r \in Ranges : /\ r[1] \in Addresses
                          /\ r[2] \in 0..(Space \div 2 - 1)   \* a positive int
    /\ Pictures \subseteq Addresses /\ Coordinates \subseteq Int
    /\ NUM_ROWS * NUM_COLUMNS * 2 < Space \div 2

VARIABLES
    x, y, color,
    printed,        \* words the last call wrote: <<offset, character, colour>>
    read,           \* addresses of user memory that the last call read
    careful         \* gotoXY was only called with places on the screen

\* What a colour can be, <<bg, fg>>: the topmost bit of the background stays clear.
Colors == (0..7) \X (0..15)

vars == <<x, y, color, printed, read, careful>>

\* printc on the cursor and the words written so far.
Cursor(cx, cy) == [x |-> cx, y |-> cy, out |-> << >>]

Init ==
    /\ x = 0 /\ y = START_ROW /\ color = <<0, 15>>
    /\ printed = << >> /\ read = {} /\ careful = TRUE
-----------------------------------------------------------------------------
AsByte(v) == v % BYTE

\* Faulty: one column too many.
LineFull_Late(cx) == cx > NUM_COLUMNS
\* ++x >= NUM_COLUMNS, with x incremented.
LineFull(cx) == cx >= NUM_COLUMNS

NextRow(cy) == (cy + 1) % NUM_ROWS

printc(s, c) ==
    LET right == AsByte(s.x + 1)
        out == Append(s.out, <<s.y * NUM_COLUMNS + s.x, c, color>>)
    IN  IF c = NewLine THEN [s EXCEPT !.x = 0, !.y = NextRow(s.y)]
        ELSE IF LineFull(right) THEN [x |-> 0, y |-> NextRow(s.y), out |-> out]
        ELSE [x |-> right, y |-> s.y, out |-> out]

sys_write_console(s, text) == FoldLeft(printc, s, text)

\* Faulty: the buffer pointer does not advance.
Chunk_Same(buffer, nbytes, bytes_left, n) == copy_from_user(Mem, buffer, n)

\* The next n bytes of the user's buffer, with bytes_left still to print.
Chunk(buffer, nbytes, bytes_left, n) ==
    copy_from_user(Mem, buffer + nbytes - bytes_left, n)

\* What the loop of sys_write hands to the console.
Written(buffer, nbytes) ==
    LET rest[left \in 0..nbytes] ==
            IF left > TAM_BUFFER
            THEN Chunk(buffer, nbytes, left, TAM_BUFFER) \o rest[left - TAM_BUFFER]
            ELSE Chunk(buffer, nbytes, left, left)
    IN  rest[nbytes]

\* Any other file descriptor, and a range that access_ok refuses, fail without
\* effect.
sys_write(buffer, nbytes) ==
    /\ access_ok("VERIFY_READ", buffer, nbytes)
    /\ LET s == sys_write_console(Cursor(x, y), Written(buffer, nbytes))
       IN  x' = s.x /\ y' = s.y /\ printed' = s.out
    /\ read' = Bytes(buffer, nbytes)
    /\ UNCHANGED <<color, careful>>

OnScreen == x < NUM_COLUMNS /\ y < NUM_ROWS

\* It is the old position that is checked, not the new one.
sys_gotoXY(new_x, new_y) ==
    /\ OnScreen
    /\ x' = AsByte(new_x) /\ y' = AsByte(new_y)
    /\ printed' = << >> /\ read' = {}
    /\ careful' = (careful /\ new_x \in 0..(NUM_COLUMNS - 1)
                           /\ new_y \in 0..(NUM_ROWS - 1))
    /\ UNCHANGED color

\* Any other pair is refused, without effect.
sys_changeColor(c) ==
    /\ c \in Colors
    /\ color' = c
    /\ printed' = << >> /\ read' = {}
    /\ UNCHANGED <<x, y, careful>>

NULL == 0
PictureSize == NUM_ROWS * NUM_COLUMNS * 2

\* Blank, or with a picture the user may read; the words of the screen are not
\* followed here.
sys_clrscr(b) ==
    /\ b = NULL \/ access_ok("VERIFY_READ", b, PictureSize)
    /\ x' = 0 /\ y' = 0
    /\ printed' = << >>
    /\ read' = IF b = NULL THEN {} ELSE Bytes(b, PictureSize)
    /\ UNCHANGED <<color, careful>>

\* printc_xy puts back the cursor it found.
Restored(old, new) == old

\* keyboard_routine: printc_xy(0, 0, char_map[c & 0x7f]).  No key of the table
\* is a newline, but a code past its 98 entries shows whatever byte lies behind.
echo(c) ==
    /\ LET s == printc(Cursor(0, 0), c)
       IN  /\ x' = Restored(x, s.x) /\ y' = Restored(y, s.y)
           /\ printed' = s.out
    /\ read' = {}
    /\ UNCHANGED <<color, careful>>

Next ==
    \/ \E r \in Ranges : sys_write(r[1], r[2])
    \/ \E new_x, new_y \in Coordinates : sys_gotoXY(new_x, new_y)
    \/ \E c \in Paints : sys_changeColor(c)
    \/ \E b \in Pictures : sys_clrscr(b)
    \/ \E a \in Addresses : echo(Mem[a])

Spec == Init /\ [][Next]_vars
-----------------------------------------------------------------------------
\* The cursor is two bytes; the colour is one that changeColor accepts.
TypeOK ==
    /\ x \in 0..(BYTE - 1) /\ y \in 0..(BYTE - 1)
    /\ color \in Colors /\ careful \in BOOLEAN
    /\ \A i \in DOMAIN printed : printed[i][3] \in Colors

\* As long as gotoXY is called with places on the screen only, the cursor
\* stays there and nothing is written beside video memory.
CarefulStays ==
    careful => /\ OnScreen
               /\ \A i \in DOMAIN printed :
                    printed[i][1] \in 0..(NUM_COLUMNS * NUM_ROWS - 1)

\* The cursor is always one that the code can hold, and that a careful program
\* would expect.
CursorSound == TypeOK /\ CarefulStays

\* Whatever buffer a program passes, one that wraps round the address space
\* included, the kernel reads from its code and data and the page after them.
KernelKept == \A a \in read : page(a) \in USER_FIRST_PAGE..LastUser

\* The calls print on a linear screen, in whatever chunks and words the text
\* is copied, and keys that are pressed in between show without moving
\* anything.
Linear ==
    INSTANCE Terminal WITH
        caret <- IF OnScreen THEN y * NUM_COLUMNS + x ELSE -1,
        Texts <- {[i \in 1..r[2] |-> Mem[(r[1] + i - 1) % Space]] : r \in Ranges},
        Keys <- {Mem[a] : a \in Addresses}
TerminalSpec == Linear!Spec
=============================================================================
