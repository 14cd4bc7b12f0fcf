------------------------------ MODULE TagUpdate ------------------------------
(* What a caller of the 8268 sequences is promised about the tag: a job names *)
(* the pages it may change and their new values; while it runs, any of them   *)
(* may be programmed, in any order, and nothing else changes; a job that is   *)
(* to be verified succeeds only when every page of it holds its value.  How   *)
(* the pages get there (UID request, SELECT, authentication, two-frame        *)
(* writes, read-back) is left to Hitag8268.                                   *)
EXTENDS HitagSConfig

CONSTANTS Store,      \* the memories a tag may have at first
          JobsFor(_)  \* the jobs a tag with this memory may be given: records
                      \* [verified, pages], where pages maps page to value

VARIABLES store, job, outcome

vars == <<store, job, outcome>>

NoJob == [verified |-> FALSE, pages |-> [p \in {} |-> ZeroWord]]

Init == store \in Store /\ job = NoJob /\ outcome = "none"

Start(j) == /\ outcome # "running"
            /\ job' = j /\ outcome' = "running"
            /\ UNCHANGED store

\* A job may break off with the page it programs.
Program(p) == /\ outcome = "running" /\ p \in DOMAIN job.pages
              /\ store' = [store EXCEPT ![p] = job.pages[p]]
              /\ outcome' \in {"running", "failed"}
              /\ UNCHANGED job

Done == \A p \in DOMAIN job.pages : SameOnPage(p, store[p], job.pages[p])

Succeed == /\ outcome = "running"
           /\ job.verified => Done
           /\ outcome' = "ok" /\ UNCHANGED <<store, job>>

Fail == /\ outcome = "running"
        /\ outcome' = "failed" /\ UNCHANGED <<store, job>>

Next == \/ \E j \in JobsFor(store) : Start(j)
        \/ \E p \in Page : Program(p)
        \/ Succeed
        \/ Fail

Spec == Init /\ [][Next]_vars
==============================================================================
