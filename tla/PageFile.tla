-------------------------------- MODULE PageFile --------------------------------
(***************************************************************************)
(* A database file as a sequence of pages, and what a loss of power may    *)
(* leave of it: a change of its size is durable in order, a page that was  *)
(* not synced is the old one, the new one or neither.                      *)
(***************************************************************************)
EXTENDS Integers, Sequences, FiniteSetsExt

CONSTANTS
    Torn,       \* a page that a loss of power has spared only in part
    Blank       \* a page that was never written

\* The file with page p written.
Put(file, p, page) ==
    [q \in 1..Max({p, Len(file)}) |->
        IF q = p THEN page ELSE IF q <= Len(file) THEN file[q] ELSE Blank]
Truncate(file, size) == SubSeq(file, 1, Min({size, Len(file)}))

\* Page p as it is read from the file.
PageAt(file, p) == IF p <= Len(file) THEN file[p] ELSE Torn

\* What may be left of a file when disk is what of it is durable.
Survivors(file, disk, size) ==
    LET old(p) == {disk[q] : q \in {p} \cap DOMAIN disk}
        new(p) == {file[q] : q \in {p} \cap DOMAIN file}
        left(p) == IF new(p) \subseteq old(p) THEN old(p) ELSE old(p) \cup new(p) \cup {Torn}
    IN {f \in [1..size -> UNION {left(p) : p \in 1..size}] :
            \A p \in 1..size : f[p] \in left(p)}
=============================================================================
