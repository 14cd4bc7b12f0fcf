-------------------------- MODULE MCHitagSDiagnostics --------------------------
(* Small tags, cards and budgets for TLC.                                     *)
EXTENDS HitagSDiagnostics

Uid1    == <<82, 129, 2, 49>>
Open8   == <<1, 0, 0, 187>>
Auth8   == <<1, 128, 0, 187>>
Locked8 == <<1, 1, 0, 187>>      \* LKP without auth
Dark8   == <<1, 129, 0, 187>>    \* LKP and auth

Tag(u, cfg, pwd_) ==
    [p \in Pages |-> CASE p = 0 -> u [] p = 1 -> cfg [] p = 2 -> pwd_
                       [] OTHER -> <<7, 0, 0, p>>]

Chip(m, knows, plain) == [mem |-> m, family |-> "8268", knows |-> knows, plain |-> plain]
AllModes == {Modes[i] : i \in 1..4}

SomeChips ==
    { NoChip, [NoChip EXCEPT !.family = "htu"],
      Chip(Tag(Uid1, Open8, DefaultPassword), AllModes, TRUE),
      Chip(Tag(Uid1, Locked8, DefaultPasswords[3]), AllModes, FALSE),
      Chip(Tag(Uid1, Auth8, DefaultPasswords[5]), {"STD"}, FALSE),
      Chip(Tag(Uid1, Dark8, <<7, 0, 0, 2>>), {"ADV2", "STD"}, FALSE) }

Strays == { <<49, 2, 129, 82>>, <<212, 160, 64, 140>> }   \* Uid1 with its bytes reversed; another
Noise1 == { <<0, 129, 0, 255>> }
Ticks  == {0, 14}

Ids1   == {0, 2, 5}
Guards == {"open", "00000000", "app", "never"}
==============================================================================
