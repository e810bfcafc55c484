------------------------------ MODULE UserMem ------------------------------
(***************************************************************************)
(* What the kernel does with pointers that user code passes to system      *)
(* calls (utils.c): the check of a range, in unsigned arithmetic, and the  *)
(* copies, by words and then by bytes.                                     *)
(***************************************************************************)
EXTENDS Integers, Sequences

CONSTANTS
    PAGE_SIZE, TOTAL_PAGES,     \* of the whole address space, which is
                                \* 0 .. PAGE_SIZE * TOTAL_PAGES - 1
    USER_FIRST_PAGE, NUM_PAG_CODE, NUM_PAG_DATA

ASSUME LayoutAssumption ==
    /\ {PAGE_SIZE, TOTAL_PAGES, USER_FIRST_PAGE, NUM_PAG_CODE, NUM_PAG_DATA}
         \subseteq Nat \ {0}
    /\ USER_FIRST_PAGE + NUM_PAG_CODE + NUM_PAG_DATA < TOTAL_PAGES

Space == PAGE_SIZE * TOTAL_PAGES        \* 2^32 in the code
Addresses == 0..(Space - 1)
page(addr) == addr \div PAGE_SIZE
FirstData == USER_FIRST_PAGE + NUM_PAG_CODE
LastUser == FirstData + NUM_PAG_DATA    \* the page after the data, accepted too

\* Faulty: a range that wraps round is not refused.
NoOverflow_Unchecked(addr_ini, addr_fin) == TRUE

NoOverflow(addr_ini, addr_fin) == addr_ini <= addr_fin

\* access_ok: a range to write is accepted from the data on, without an upper
\* limit; any other falls through to the check for reading, code included.
access_ok(type, addr, size) ==
    LET addr_ini == page(addr)
        addr_fin == page((addr + size) % Space)
    IN  /\ NoOverflow(addr_ini, addr_fin)
        /\ \/ type = "VERIFY_WRITE" /\ addr_ini >= FirstData
           \/ addr_ini >= USER_FIRST_PAGE /\ addr_fin <= LastUser

\* The words that the first loop of copy_data, copy_from_user and copy_to_user
\* moves: a last full word is left to the second loop.
Words[size \in Nat] == IF size > 4 THEN 1 + Words[size - 4] ELSE 0

\* Where, counted from the start of the range, the i-th byte is copied from.
Source(words, i) == IF i <= 4 * words THEN i - 1 ELSE 4 * words + (i - 4 * words) - 1

\* The bytes that arrive, with user memory mem.
copy_from_user(mem, start, size) ==
    [i \in 1..size |-> mem[(start + Source(Words[size], i)) % Space]]

Bytes(start, size) == {(start + i) % Space : i \in 0..(size - 1)}
=============================================================================
