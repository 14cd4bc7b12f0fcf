------------------------------ MODULE HitagSDump ------------------------------
(* A dump, the .hts file it is saved to and loaded from                       *)
(* (hitag_s_dump_file.c), and the clone plan made of it                       *)
(* (hitag_s_dump_model.h).  A file is the lines of it the loader looks for.   *)
EXTENDS Tag8268, Sequences

\* uid, the last page, and the pages known: dump_pages where dump_valid.
Dump(u, top, pages) == [uid |-> u, max |-> top, pages |-> pages]

\* The pages of S up to top in ascending order, as a loop from 0 meets them.
Ascending(S, top) ==
    LET upTo[n \in 0..(top + 1)] ==
            IF n = 0 THEN <<>>
            ELSE IF n - 1 \in S THEN Append(upTo[n - 1], n - 1) ELSE upTo[n - 1]
    IN  upTo[top + 1]

\* The pages a save writes, one "Page p" line each, in the order of its loop.
\* Mutant: the loop stops before the last page.
PagesSavedShort(d) == {p \in DOMAIN d.pages : p < d.max}
PagesSaved(d)      == {p \in DOMAIN d.pages : p <= d.max}

Lines(d) ==
    LET ps == Ascending(PagesSaved(d), d.max)
    IN  [i \in DOMAIN ps |-> [page |-> ps[i], word |-> d.pages[ps[i]]]]

\* hitag_s_dump_save: what it returns and the file it leaves.  A write that
\* fails ends it with the page lines written so far; one that fails before the
\* page lines leaves a file no load accepts.
NoFile == [complete |-> FALSE]
File(d, k) == [complete |-> TRUE, uid |-> d.uid, max |-> d.max,
               lines |-> SubSeq(Lines(d), 1, k)]

Saves(d) ==
    { [ok |-> FALSE, file |-> NoFile] }
    \cup { [ok |-> k = Len(Lines(d)), file |-> File(d, k)] : k \in 0..Len(Lines(d)) }

\* The reader of the file format looks for a key from where it stands to the
\* end of the file: after a key that is missing it finds none.
Finds(f, p) == \A q \in 0..p : \E i \in DOMAIN f.lines : f.lines[i].page = q

WordOf(f, p) == f.lines[CHOOSE i \in DOMAIN f.lines : f.lines[i].page = p].word

\* hitag_s_dump_load.  The UID line stands for page 0 if that has no line.
Loads(f) == f.complete
Load(f) ==
    LET found == {p \in 0..f.max : Finds(f, p)}
    IN  Dump(f.uid, f.max,
             [p \in {0} \cup found |-> IF p \in found THEN WordOf(f, p) ELSE f.uid])

\* hitag_s_dump_model_make_clone_plan, with the UID the load scene gives it.
\* Mutant: the data pages taken to start at page 5.
DataFromFive(d) == {p \in DOMAIN d.pages : p > 4}
DataOf(d)       == {p \in DOMAIN d.pages : p > 3}

PlanOf(d) ==
    LET ps == Ascending(DataOf(d), d.max)
    IN  [ uid    |-> d.pages[0],
          config |-> IF 1 \in DOMAIN d.pages THEN d.pages[1] ELSE ZeroWord,
          data   |-> [i \in DOMAIN ps |-> [page |-> ps[i], value |-> d.pages[ps[i]]]] ]
==============================================================================
