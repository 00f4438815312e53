------------------------------ MODULE CStrings ------------------------------
(***************************************************************************)
(* Strings in the memory of the programs: memory is a sequence of cells,   *)
(* and a string goes on to the first NUL.                                  *)
(***************************************************************************)
EXTENDS Naturals, Sequences

CONSTANT NUL             \* the character '\0'

\* The string that starts at position i (remove_strings_from_buffer); the cells
\* after memory count as NUL.
StringAt(memory, i) ==
    LET ends == {k \in i .. Len(memory) : memory[k] = NUL}
        end == IF ends = {} THEN Len(memory) + 1
               ELSE CHOOSE k \in ends : \A j \in ends : k <= j
    IN  SubSeq(memory, i, end - 1)

\* remove_first_string_from_buffer: that string, or its first max_space characters.
FirstString(memory, i, max_space) ==
    LET string == StringAt(memory, i)
    IN  IF Len(string) > max_space THEN SubSeq(string, 1, max_space) ELSE string

\* A buffer after data was read into it: data over what was there before.
Overwritten(buffer, data) ==
    [i \in DOMAIN buffer |-> IF i \in DOMAIN data THEN data[i] ELSE buffer[i]]

\* store_string_in_buffer: a field of the given size, cut off or filled up.
Stored(string, size) ==
    [i \in 1 .. size |-> IF i \in DOMAIN string THEN string[i] ELSE NUL]
=============================================================================
