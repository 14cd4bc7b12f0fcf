----------------------------- MODULE MCHitag8268 -----------------------------
(* Small tags and calls for TLC.  All tags have MEMT = 1, eight pages, unless *)
(* a call gives them another configuration; TopPage = 7 bounds that one too.  *)
EXTENDS Hitag8268Clones

Uid1   == <<82, 129, 2, 49>>
Uid2   == <<212, 160, 64, 140>>
Data1  == <<1, 0, 0, 0>>
Data2  == <<2, 0, 0, 0>>
Open8  == <<1, 0, 0, 187>>     \* eight pages, no lock
Auth8  == <<1, 128, 0, 187>>
Half8  == <<1, 0, 64, 187>>    \* LCK6: pages 6 and 7 locked
Low8   == <<1, 0, 128, 187>>   \* LCK7: pages 4 and 5 locked
Fixed8 == <<1, 2, 0, 187>>     \* LCON: the configuration locked
Dark8  == <<1, 129, 0, 187>>   \* auth and LKP: pages 2 and 3 not shown

Tag(u, cfg, pwd) ==
    [p \in Pages |-> CASE p = 0 -> u [] p = 1 -> cfg [] p = 2 -> pwd
                       [] p = 3 -> ZeroWord [] OTHER -> Data1]

C(op, pwd, u, cfg, data) ==
    [op |-> op, pwd |-> pwd, uid |-> u, config |-> cfg, data |-> data]
At(p, v) == [page |-> p, value |-> v]

App(op, data) == C(op, DefaultPassword, ZeroWord, ZeroWord, data)
WriteUid(u)   == App("write", <<At(0, u)>>)
Em4100        == App("em4100", <<At(4, Data2), At(5, ZeroWord)>>)
ReadEm4100    == App("read", <<At(1, ZeroWord), At(4, ZeroWord), At(5, ZeroWord)>>)
Clone(cfg)    == C("clone", DefaultPassword, Uid2, cfg, <<At(4, Data2), At(7, Data2)>>)
TryAll(op)    == C(op, ZeroWord, ZeroWord, ZeroWord, <<>>)

\* What a dump of tag m holds when every page it can read is read.
DumpOf(m) ==
    Dump(m[0], LastPage(m[1]),
         [p \in {q \in 0..LastPage(m[1]) :
                   Readable(m, [state |-> "authed", armed |-> NoPage], q)} |-> Shows(m, p)])

\* Dumps of tags whose pages differ from those of the tags they are cloned to.
Source(cfg) == [p \in Pages |-> CASE p = 0 -> Uid2 [] p = 1 -> cfg [] OTHER -> <<9, 0, 0, p>>]
MCWholeDumps == {DumpOf(Source(cfg)) : cfg \in {Open8, Half8}}

\* A dump whose page 1 was not read, and one of a tag that hides pages 2 and 3.
GapDumps == { Dump(Uid2, 7, [p \in Pages \ {1} |-> Source(Open8)[p]]),
              DumpOf(Source(Dark8)) }

\* README.md:15 "Restore full tag data from `.hts` dump file (UID + config +
\* data pages)": so for every dump the program saves without an error.
CloneRestoresAnyDump ==
    pc = "idle" /\ result = "Ok" =>
        \A d \in GapDumps : call = CloneOf(d) => Restored(d)

\* The application's calls, as its worker makes them.
AppCalls == { App("readUid", <<>>), WriteUid(Uid2), Em4100, ReadEm4100,
              App("readAll", <<>>), Clone(Half8), App("wipe", <<>>) }

AllTags == { Tag(Uid1, cfg, DefaultPassword) : cfg \in {Open8, Half8, Low8, Fixed8, Dark8} }
           \cup { Tag(Uid1, Auth8, DefaultPasswords[i]) : i \in {2, 4, 5} }
           \cup { Tag(Uid1, Open8, Data1), Tag(ZeroWord, Open8, DefaultPassword) }

ReliableCalls == AppCalls \cup { TryAll("readAll"), TryAll("wipe"), Clone(Fixed8),
                                 WriteUid(ZeroWord),
                                 App("write", <<At(6, Data2), At(0, Uid2)>>) }
                 \cup {CloneOf(d) : d \in MCWholeDumps}

NoisyTags  == { Tag(Uid1, Open8, DefaultPassword), Tag(Uid1, Dark8, DefaultPassword) }
NoisyCalls == { App("write", <<At(6, Data2), At(0, Uid2)>>), Em4100, ReadEm4100,
                App("readAll", <<>>), App("readUid", <<>>) }

LossyTags  == { Tag(Uid1, Half8, DefaultPassword) }
LossyCalls == { TryAll("wipe"), Clone(Open8) }

CloneCalls == { Clone(Half8) }
GapCalls   == {CloneOf(d) : d \in GapDumps}
DumpCalls  == { App("readAll", <<>>) }

\* What the documentation says of a wipe and of an EM4100 write.
CommentCalls == { App("wipe", <<>>), Em4100 }
CommentTags  == { Tag(Uid1, <<1, 128, 64, 187>>, DefaultPassword) }

NoMisreads == {}
Misreads   == { <<49, 2, 129, 82>>, Uid2, ZeroWord }
==============================================================================
