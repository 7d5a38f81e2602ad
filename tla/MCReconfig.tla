------------------------------ MODULE MCReconfig ------------------------------
(* Files of an inverter and up to two packs, with the lines that people write. *)
EXTENDS Reconfig

MCUpcase == [pack_01 |-> "PACK_01", pack_02 |-> "PACK_02", inverter |-> "INVERTER",
             pack |-> "PACK", option |-> "OPTION",
             type |-> "TYPE", transport |-> "TRANSPORT", uuid |-> "UUID"]

MCModuleType == [si |-> "inverter", jbd |-> "cellmon", preh |-> "cellmon",
                 ip |-> "transport", can |-> "transport"]

MCPackNames == <<"pack_01", "pack_02">>

MCOptions == {[file |-> TRUE, inverter |-> FALSE, pack |-> FALSE],
              [file |-> TRUE, inverter |-> TRUE, pack |-> TRUE],
              [file |-> FALSE, inverter |-> FALSE, pack |-> TRUE]}

Section(s, t, u) == <<Header(s), Setting("type", t), Setting("transport", u)>>

One == Section("pack_01", "jbd", "ip")
Both == Section("inverter", "si", "can") \o <<BlankLine>> \o One \o <<BlankLine>>
        \o Section("PACK_02", "preh", "can")

\* What may be found anywhere in a file.
Extra == {BlankLine, Remark("#"), Remark(";"), Setting("UUID", "u0"), Setting("uuid", ""),
          Setting("type", "nosuch"), Setting("type", Junk), Header("PACK_01")}

MCFiles == {<<>>, One, Both}
           \cup {SubSeq(One, 1, 2), Both \o <<BlankLine, Header("PACK_01"), Setting("uuid", "u9")>>}
           \cup {InsertAt(One, i, l) : i \in 1..4, l \in Extra}
=============================================================================
