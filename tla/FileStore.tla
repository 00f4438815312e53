----------------------------- MODULE FileStore -----------------------------
(***************************************************************************)
(* What fs/operations.h promises its callers: named files, each a sequence *)
(* of bytes of bounded length, and open handles, each at an offset of one  *)
(* file.  An operation on one file leaves the others alone.  A file with   *)
(* open handles is neither removed nor truncated.                          *)
(***************************************************************************)
EXTENDS Integers, Sequences

CONSTANTS Names, Handles, Bytes,
          MaxLength,       \* of a file
          Closed           \* a handle that is not open

VARIABLES files,           \* the contents of each file, by its name
          handles          \* the name and the offset of each open handle

vars == <<files, handles>>

At(name, offset) == [name |-> name, offset |-> offset]
IsOpen(name) == \E h \in Handles : handles[h] # Closed /\ handles[h].name = name
Strings == UNION {[1 .. n -> Bytes] : n \in 1 .. MaxLength}

Init ==
    /\ files = <<>>
    /\ handles = [h \in Handles |-> Closed]

\* A handle at the offset, or none: the table of open files may be full.
OpenAt(name, offset) ==
    \/ \E h \in Handles :
        /\ handles[h] = Closed
        /\ handles' = [handles EXCEPT ![h] = At(name, offset)]
    \/ UNCHANGED handles

Create(name) ==
    /\ name \notin DOMAIN files
    /\ files' = [n \in DOMAIN files \cup {name} |-> IF n = name THEN <<>> ELSE files[n]]
    /\ OpenAt(name, 0)

Open(name) ==
    /\ name \in DOMAIN files
    /\ \E offset \in {0, Len(files[name])} : OpenAt(name, offset)
    /\ UNCHANGED files

Truncate(name) ==
    /\ name \in DOMAIN files
    /\ ~ IsOpen(name)
    /\ files' = [files EXCEPT ![name] = <<>>]
    /\ OpenAt(name, 0)

Close(h) ==
    /\ handles[h] # Closed
    /\ handles' = [handles EXCEPT ![h] = Closed]
    /\ UNCHANGED files

Write(h, data) ==
    /\ handles[h] # Closed
    /\ LET name == handles[h].name
           offset == handles[h].offset
           kept == SubSeq(files[name], offset + Len(data) + 1, Len(files[name]))
       IN  /\ offset + Len(data) <= MaxLength
           /\ files' = [files EXCEPT ![name] = SubSeq(@, 1, offset) \o data \o kept]
           /\ handles' = [handles EXCEPT ![h] = At(name, offset + Len(data))]

Read(h, n) ==
    /\ handles[h] # Closed
    /\ handles[h].offset + n <= Len(files[handles[h].name])
    /\ handles' = [handles EXCEPT ![h].offset = @ + n]
    /\ UNCHANGED files

Remove(name) ==
    /\ name \in DOMAIN files
    /\ ~ IsOpen(name)
    /\ files' = [n \in DOMAIN files \ {name} |-> files[n]]
    /\ UNCHANGED handles

Next ==
    \/ \E name \in Names : Create(name) \/ Open(name) \/ Truncate(name) \/ Remove(name)
    \/ \E h \in Handles :
        \/ Close(h)
        \/ \E data \in Strings : Write(h, data)
        \/ \E n \in 1 .. MaxLength : Read(h, n)

Spec == Init /\ [][Next]_vars
==============================================================================
