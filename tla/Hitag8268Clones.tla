---------------------------- MODULE Hitag8268Clones ----------------------------
(* What a dump, saved, loaded and cloned (hitag_s_dump_file.c,                *)
(* hitag_s_dump_model.h), leaves on the tag it is cloned to.                  *)
EXTENDS Hitag8268Props, HitagSDump

CONSTANT WholeDumps    \* dumps that were read to their last page

WholeDump(d) ==
    /\ d.uid \in Word /\ d.max \in Pages \ {0}
    /\ d.pages \in [0..d.max -> Word] /\ d.pages[0] = d.uid

ASSUME DumpsAssumption == \A d \in WholeDumps : WholeDump(d)

\* The clone of a dump that has been saved and loaded.
CloneOf(d) ==
    LET job == PlanOf(Load((CHOOSE s \in Saves(d) : s.ok).file))
    IN  [ op |-> "clone", pwd |-> DefaultPassword, uid |-> job.uid,
          config |-> job.config, data |-> job.data ]

\* What is in the dump is on the tag.
Restored(d) ==
    /\ mem[0] = d.uid
    /\ 1 \in DOMAIN d.pages /\ SameOnPage(1, mem[1], d.pages[1])
    /\ \A p \in DOMAIN d.pages : p > 3 /\ PageWritable(before[1], p) => mem[p] = d.pages[p]

\* load_dump: a dump that was read to its last page, saved to a file, loaded
\* and cloned onto another tag with success has put its UID, its configuration
\* and every data page the other tag's locks allow on that tag.
CloneRestoresDump ==
    pc = "idle" /\ result = "Ok" =>
        \A d \in WholeDumps : call = CloneOf(d) => Restored(d)
==============================================================================
