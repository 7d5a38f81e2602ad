---------------------------- MODULE ReconfigProofs ----------------------------
(***************************************************************************)
(* What holds of the packs, the file, the devices and their UUIDs through  *)
(* any number of starts, re-reads, crashes and edits, for any files,       *)
(* command lines and modules.                                              *)
(***************************************************************************)
EXTENDS Reconfig, CfgFileProofs

\* The packs are a sequence (of what, is of no matter here).
Listed == \E S : packs \in Seq(S)

\* When pack_init is done there is a slot for every pack.
SlotInv ==
    /\ Listed /\ pool \in Nat
    /\ pc \in {"write", "writing", "options", "packoption"} \/ (pc = "run" /\ ~failed)
         => Len(packs) <= pool

LEMMA AppendLists ==
    ASSUME NEW s, NEW e, \E S : s \in Seq(S)
    PROVE  \E S : Append(s, e) \in Seq(S)
<1>1. PICK S : s \in Seq(S)  OBVIOUS
<1>2. s \in Seq(S \cup {e})  BY <1>1
<1>3. Append(s, e) \in Seq(S \cup {e})  BY <1>2
<1> QED BY <1>3

LEMMA EmptyLists == \E S : <<>> \in Seq(S)
<1>1. <<>> \in Seq({})  OBVIOUS
<1> QED BY <1>1

LEMMA LenLists == ASSUME NEW s, \E S : s \in Seq(S) PROVE Len(s) \in Nat
OBVIOUS

LEMMA AddKeepsListed ==
    ASSUME Listed, NEW d, packs' = packs \/ packs' = Append(packs, d)
    PROVE  Listed'
<1>1. CASE packs' = packs
  BY <1>1 DEF Listed
<1>2. CASE packs' = Append(packs, d)
  BY <1>2, AppendLists DEF Listed
<1> QED
  BY <1>1, <1>2

LEMMA NameIsKept == ASSUME NEW old PROVE Identified(ReadSection(old)).name = old.name
BY DEF Identified, ReadSection

LEMMA SlotInit == Init => SlotInv
BY EmptyLists DEF Init, SlotInv, Listed

LEMMA SlotStep == ASSUME SlotInv, [Next]_vars PROVE SlotInv'
<1> USE DEF SlotInv, At, Goto
<1>1. CASE Start \/ Crash \/ Reread
  <2>1. packs' = <<>> /\ pool' \in Nat /\ pc' \in {"read", "down"}
    BY <1>1 DEF Start, Crash, Reread, Forget
  <2> QED
    BY <2>1, EmptyLists DEF Listed
<1>2. CASE ReadFile \/ ReadFails \/ ReadNothing \/ NoInverterSection \/ NoMorePacks
  <2>1. packs' = packs /\ pool' = pool /\ pc' \in {"inverter", "down", "pack", "pool", "run"}
        /\ (pc' = "run" => failed')
    BY <1>2 DEF ReadFile, ReadFails, ReadNothing, NoInverterSection, NoMorePacks, Fails, conf
  <2> QED
    BY <2>1 DEF Listed
<1>3. CASE InverterInit
  <2>1. packs' = packs /\ pool' = pool /\ pc' \in {"pack", "down", "run"}
        /\ (pc' = "run" => failed')
    BY <1>3 DEF InverterInit, InverterAdd, Fails
  <2> QED
    BY <2>1 DEF Listed
<1>4. CASE PackInit
  <2> DEFINE d == Identified(ReadSection(Device(PackNames[nth])))
  <2>1. packs' = packs \/ packs' = Append(packs, d)
    BY <1>4 DEF PackInit, PackAdd
  <2>2. pool' = pool /\ pc' \in {"pack", "down", "run"} /\ (pc' = "run" => failed')
    BY <1>4 DEF PackInit, PackAdd, Fails
  <2>3. Listed'
    BY <2>1, AddKeepsListed
  <2> QED
    BY <2>2, <2>3
<1>5. CASE NoPacks
  <2>1. packs = <<>> /\ packs' = packs /\ pool' = pool
    BY <1>5 DEF NoPacks, conf
  <2>2. Len(packs') = 0
    BY <2>1
  <2> QED
    BY <2>1, <2>2 DEF Listed
<1>6. CASE MakePool
  <2>1. packs' = packs /\ pool' = Len(packs)
    BY <1>6 DEF MakePool
  <2>2. Len(packs) \in Nat
    BY LenLists DEF Listed
  <2> QED
    BY <2>1, <2>2 DEF Listed
<1>7. CASE NotDirty \/ WriteFails \/ Truncate \/ WriteOut \/ NoInverterOption
  <2>1. packs' = packs /\ pool' = pool /\ pc \in {"write", "writing", "options"}
    BY <1>7 DEF NotDirty, WriteFails, Truncate, WriteOut, NoInverterOption, conf
  <2> QED
    BY <2>1 DEF Listed
<1>8. CASE InverterOption
  BY <1>8 DEF InverterOption, Listed
<1>9. CASE PackOption
  <2> DEFINE base == [Device("pack") EXCEPT !.type = "jbd", !.transport = "ip"]
             d == Identified(ReadSection(base))
  <2>1. packs' = packs \/ packs' = Append(packs, d)
    BY <1>9 DEF PackOption, PackAdd
  <2>2. pool' = pool /\ pc' = "pack"
    BY <1>9 DEF PackOption
  <2>3. Listed'
    BY <2>1, AddKeepsListed
  <2> QED
    BY <2>2, <2>3
<1>10. CASE NoPackOption \/ Edit \/ UNCHANGED vars
  <2>1. packs' = packs /\ pool' = pool /\ failed' = failed
        /\ (pc' = pc \/ pc = "packoption")
    BY <1>10 DEF NoPackOption, Edit, vars, conf, control, history
  <2> QED
    BY <2>1 DEF Listed
<1> QED
  BY <1>1, <1>2, <1>3, <1>4, <1>5, <1>6, <1>7, <1>8, <1>9, <1>10 DEF Next, Program

\* worker_exec always finds a slot for a pack without waiting for another one's update
\* to end, after any re-read that did not give up.
THEOREM SlotsSuffice == Spec => []SlotForEveryPack
<1>1. SlotInv => SlotForEveryPack
  BY DEF SlotInv, SlotForEveryPack
<1> QED
  BY <1>1, SlotInit, SlotStep, PTL DEF Spec

-----------------------------------------------------------------------------
(* No pack is listed twice.                                                *)

Distinct == \A i, j \in DOMAIN packs : packs[i].name = packs[j].name => i = j

\* While pack_init goes through the sections, it has listed packs of earlier ones only.
OnceInv ==
    ~opts.pack =>
        /\ Listed /\ Distinct
        /\ caller \in {"start", "reread"}
        /\ pc \in {"read", "inverter"} => packs = <<>>
        /\ pc = "pack" => /\ nth \in Nat \ {0}
                          /\ \A i \in DOMAIN packs :
                                \E j \in 1..(nth - 1) : packs[i].name = PackNames[j]

LEMMA NoneListed == packs = <<>> => Listed /\ DOMAIN packs = {}
BY EmptyLists DEF Listed

LEMMA NoneListedNext == packs' = <<>> => Listed' /\ DOMAIN packs' = {}
BY EmptyLists DEF Listed

LEMMA OnceInit == Init => OnceInv
BY NoneListed DEF Init, OnceInv, Distinct

\* The next section's pack has a name that no pack before it has.
LEMMA OneMore ==
    ASSUME NEW d, packs' = Append(packs, d), Listed, Distinct,
           nth \in 1..Len(PackNames), d.name = PackNames[nth], nth' = nth + 1,
           \A i \in DOMAIN packs : \E j \in 1..(nth - 1) : packs[i].name = PackNames[j]
    PROVE  /\ Distinct'
           /\ \A i \in DOMAIN packs' : \E j \in 1..(nth' - 1) : packs'[i].name = PackNames[j]
<1>1. PICK S : packs \in Seq(S)
  BY DEF Listed
<1>2. packs \in Seq(S \cup {d})
  BY <1>1
<1>3. /\ Len(packs) \in Nat /\ DOMAIN packs = 1..Len(packs)
      /\ DOMAIN packs' = 1..(Len(packs) + 1)
      /\ \A i \in 1..Len(packs) : packs'[i] = packs[i]
      /\ packs'[Len(packs) + 1] = d
  BY <1>2
<1>4. DOMAIN PackNames = 1..Len(PackNames) /\ Len(PackNames) \in Nat
  BY ReconfigAssumption DEF ReconfigAssumption
<1>5. \A i, j \in 1..Len(PackNames) : PackNames[i] = PackNames[j] => i = j
  BY <1>4, ReconfigAssumption DEF ReconfigAssumption, IsInjective
<1>6. \A i \in DOMAIN packs : packs[i].name # d.name
  <2> SUFFICES ASSUME NEW i \in DOMAIN packs, packs[i].name = d.name PROVE FALSE
    OBVIOUS
  <2>1. PICK j \in 1..(nth - 1) : packs[i].name = PackNames[j]
    OBVIOUS
  <2>2. j \in 1..Len(PackNames) /\ j # nth
    BY <1>4
  <2> QED
    BY <2>1, <2>2, <1>5
<1>7. Distinct'
  <2> SUFFICES ASSUME NEW i \in DOMAIN packs', NEW j \in DOMAIN packs',
                      packs'[i].name = packs'[j].name
               PROVE  i = j
    BY DEF Distinct
  <2>1. CASE i \in DOMAIN packs /\ j \in DOMAIN packs
    BY <2>1, <1>3 DEF Distinct
  <2>2. CASE ~(i \in DOMAIN packs /\ j \in DOMAIN packs)
    BY <2>2, <1>3, <1>6
  <2> QED
    BY <2>1, <2>2
<1>8. ASSUME NEW i \in DOMAIN packs' PROVE \E j \in 1..(nth' - 1) : packs'[i].name = PackNames[j]
  <2>1. CASE i \in DOMAIN packs
    <3>1. PICK j \in 1..(nth - 1) : packs[i].name = PackNames[j]
      BY <2>1
    <3>2. j \in 1..(nth' - 1) /\ packs'[i].name = PackNames[j]
      BY <3>1, <2>1, <1>3
    <3> QED
      BY <3>2
  <2>2. CASE i \notin DOMAIN packs
    <3>1. packs'[i].name = PackNames[nth] /\ nth \in 1..(nth' - 1)
      BY <2>2, <1>3
    <3> QED
      BY <3>1
  <2> QED
    BY <2>1, <2>2
<1> QED
  BY <1>7, <1>8

LEMMA OncePack == ASSUME OnceInv, PackInit, ~opts.pack PROVE OnceInv'
<1> USE DEF OnceInv
<1> DEFINE d == Identified(ReadSection(Device(PackNames[nth])))
<1>1. pc = "pack" /\ nth \in 1..Len(PackNames)
  BY ReconfigAssumption DEF ReconfigAssumption, PackInit, At
<1>2. d.name = PackNames[nth]
  BY NameIsKept DEF Device
<1>3. packs' = packs \/ packs' = Append(packs, d)
  BY DEF PackInit, PackAdd
<1>4. Listed'
  BY <1>3, AddKeepsListed
<1>5. caller' = caller
  BY DEF PackInit, PackAdd, Fails
<1>6. CASE pc' = "pack"
  <2>1. nth' = nth + 1
    BY <1>6, <1>1 DEF PackInit, PackAdd, Fails
  <2>2. CASE packs' = packs
    <3>1. Distinct' /\ nth' \in Nat \ {0}
      BY <2>1, <2>2, <1>1 DEF Distinct
    <3>2. \A i \in DOMAIN packs' : \E j \in 1..(nth' - 1) : packs'[i].name = PackNames[j]
      BY <2>1, <2>2, <1>1
    <3> QED
      BY <3>1, <3>2, <1>4, <1>5, <1>6
  <2>3. CASE packs' = Append(packs, d)
    <3> HIDE DEF d
    <3>1. /\ Distinct'
          /\ \A i \in DOMAIN packs' : \E j \in 1..(nth' - 1) : packs'[i].name = PackNames[j]
      BY <2>1, <2>3, <1>1, <1>2, OneMore
    <3>2. nth' \in Nat \ {0}
      BY <2>1, <1>1
    <3> QED
      BY <3>1, <3>2, <1>4, <1>5, <1>6
  <2> QED
    BY <2>2, <2>3, <1>3
<1>7. CASE pc' # "pack"
  <2>1. packs' = packs /\ pc' \in {"down", "run"}
    BY <1>7, <1>1 DEF PackInit, PackAdd, Fails
  <2> QED
    BY <2>1, <1>4, <1>5 DEF Distinct
<1> QED
  BY <1>6, <1>7

LEMMA OnceStep == ASSUME OnceInv, [Next]_vars PROVE OnceInv'
<1> USE DEF OnceInv, At, Goto
<1>1. CASE Start \/ Crash
  <2>1. packs' = <<>> /\ caller' = "start" /\ pc' # "pack"
    BY <1>1 DEF Start, Crash, Forget
  <2> QED
    BY <2>1, NoneListedNext DEF Distinct
<1>2. CASE Reread
  <2>1. packs' = <<>> /\ caller' = "reread" /\ pc' # "pack"
    BY <1>2 DEF Reread
  <2> QED
    BY <2>1, NoneListedNext DEF Distinct
<1>3. CASE ReadFile \/ ReadFails \/ ReadNothing
  <2>1. packs' = packs /\ caller' = caller /\ opts' = opts /\ pc = "read" /\ pc' # "pack"
    BY <1>3 DEF ReadFile, ReadFails, ReadNothing, Fails, conf
  <2> QED
    BY <2>1 DEF Distinct, Listed
<1>4. CASE NoInverterSection \/ InverterInit
  <2>1. /\ packs' = packs /\ caller' = caller /\ opts' = opts /\ pc = "inverter"
        /\ pc' \in {"pack", "down", "run"} /\ (pc' = "pack" => nth' = 1)
    BY <1>4 DEF NoInverterSection, InverterInit, InverterAdd, Fails, conf
  <2>2. CASE ~opts.pack
    BY <2>1, <2>2, NoneListedNext DEF Distinct
  <2>3. CASE opts.pack
    BY <2>1, <2>3
  <2> QED
    BY <2>2, <2>3
<1>5. CASE PackInit
  <2>1. opts' = opts
    BY <1>5 DEF PackInit, PackAdd, Fails
  <2> QED
    BY <1>5, <2>1, OncePack
<1>6. CASE NoMorePacks \/ NoPacks \/ MakePool
  <2>1. packs' = packs /\ caller' = caller /\ opts' = opts /\ pc' \in {"pool", "run", "write"}
    BY <1>6 DEF NoMorePacks, NoPacks, MakePool, PacksDone, conf
  <2> QED
    BY <2>1 DEF Distinct, Listed
<1>7. CASE NotDirty \/ WriteFails \/ Truncate \/ WriteOut
  <2>1. /\ packs' = packs /\ caller' = caller /\ opts' = opts
        /\ pc' \in {"writing", "run", "options"}
    BY <1>7 DEF NotDirty, WriteFails, Truncate, WriteOut, Return, conf
  <2> QED
    BY <2>1 DEF Distinct, Listed
<1>8. CASE InverterOption \/ NoInverterOption \/ NoPackOption
  <2>1. /\ packs' = packs /\ caller' = caller /\ opts' = opts
        /\ pc' \in {"packoption", "run"}
    BY <1>8 DEF InverterOption, NoInverterOption, NoPackOption, conf
  <2> QED
    BY <2>1 DEF Distinct, Listed
<1>9. CASE PackOption
  BY <1>9 DEF PackOption
<1>10. CASE Edit \/ UNCHANGED vars
  <2>1. packs' = packs /\ caller' = caller /\ opts' = opts /\ pc' = pc /\ nth' = nth
    BY <1>10 DEF Edit, vars, conf, control
  <2> QED
    BY <2>1 DEF Distinct, Listed
<1> QED
  BY <1>1, <1>2, <1>3, <1>4, <1>5, <1>6, <1>7, <1>8, <1>9, <1>10 DEF Next, Program

\* However often the configuration is read again, and wherever that gives up, no section
\* of the file is two packs of the list that pack_update_all goes through.
THEOREM PacksOnce == Spec => []PacksListedOnce
<1>1. OnceInv => PacksListedOnce
  BY DEF OnceInv, PacksListedOnce, Distinct
<1> QED
  BY <1>1, OnceInit, OnceStep, PTL DEF Spec

-----------------------------------------------------------------------------
(* What is in memory, and what is on disk.                                 *)

\* The configuration has UUIDs that are known, or none.
KnownUuids(c) == \A s \in Uppers : cfg_get_item(c, s, "UUID") \in Uuids \cup {NoText, Null}

Sensible(c) == c # NoCfg => Tidy(c) /\ KnownUuids(c)

MemoryInv ==
    /\ file \in Seq(KnownLines) /\ source \in Seq(KnownLines)
    /\ Sensible(cfg)
    /\ pc = "writing" => cfg # NoCfg
    /\ pc = "read" => cfg = NoCfg
    /\ pc = "inverter" /\ cfg # NoCfg => cfg = cfg_read(source)

LEMMA Names ==
    /\ Upper("type") = "TYPE" /\ Upper("uuid") = "UUID"
    /\ {"TYPE", "UUID", "INVERTER", "PACK"} \subseteq Uppers
    /\ {"type", "uuid", "inverter", "pack"} \subseteq Texts
    /\ \A j \in DOMAIN PackNames : PackNames[j] \in Texts
    /\ Upper("inverter") = "INVERTER" /\ Upper("pack") = "PACK"
  <1>1. /\ Upper("type") = "TYPE" /\ Upper("uuid") = "UUID"
        /\ Upper("inverter") = "INVERTER" /\ Upper("pack") = "PACK"
    BY ReconfigAssumption DEF ReconfigAssumption
  <1>2. \A n : Upper(n) # n => n \in DOMAIN Upcase /\ n \in Texts /\ Upper(n) \in Uppers
    BY CfgAssumption DEF CfgAssumption, Upper, Uppers
  <1>3. PackNames \in Seq(Texts)
    BY ReconfigAssumption DEF ReconfigAssumption
  <1>. QED
    BY <1>1, <1>2, <1>3

LEMMA UuidsAreTexts == Uuids \subseteq Texts /\ NoText \notin Uuids /\ Null \notin Uuids
  BY ReconfigAssumption DEF ReconfigAssumption, Texts

LEMMA KnownAreLines == KnownLines \subseteq Lines /\ Seq(KnownLines) \subseteq Seq(Lines)
  <1>1. KnownLines \subseteq Lines
    BY DEF KnownLines
  <1>. QED
    BY <1>1

LEMMA ReadKnown ==
    ASSUME NEW lines \in Seq(KnownLines)
    PROVE  /\ Tidy(cfg_read(lines)) /\ KnownUuids(cfg_read(lines)) /\ cfg_read(lines) # NoCfg
           /\ \A s, k \in Uppers : cfg_get_item(cfg_read(lines), s, k) = Says(lines, s, k)
  <1>1. lines \in Seq(Lines)
    BY KnownAreLines
  <1>2. /\ Tidy(cfg_read(lines))
        /\ \A s, k \in Uppers : cfg_get_item(cfg_read(lines), s, k) = Says(lines, s, k)
    BY <1>1, ReadsTheFile
  <1>3. ASSUME NEW s \in Uppers PROVE Says(lines, s, "UUID") \in Uuids \cup {NoText, Null}
    <2>. DEFINE W == Where(lines, s, "UUID")
    <2>1. CASE W = {}
      BY <2>1, SaysFrom
    <2>2. CASE W # {}
      <3>1. PICK m \in W : Says(lines, s, "UUID") = lines[m].value
        BY <2>2, SaysFrom
      <3>2. m \in DOMAIN lines /\ lines[m].is = "item" /\ Upper(lines[m].name) = "UUID"
        BY <3>1 DEF Where
      <3>3. lines[m] \in KnownLines
        BY <3>2
      <3>. QED
        BY <3>1, <3>2, <3>3 DEF KnownLines
    <2>. QED
      BY <2>1, <2>2
  <1>. QED
    BY <1>2, <1>3, Names, TidyIsSome DEF KnownUuids

LEMMA WriteKnown ==
    ASSUME NEW c, Tidy(c), KnownUuids(c)
    PROVE  cfg_write(c) \in Seq(KnownLines)
  <1>1. BlankLine \in KnownLines
    BY DEF KnownLines, Lines, BlankLine
  <1>2. c \in Seq(Sections)
    BY DEF Tidy
  <1>3. ASSUME NEW x \in DOMAIN c
        PROVE  /\ Header(c[x].name) \in KnownLines
               /\ \A i \in DOMAIN c[x].items : ItemLines(c[x].items[i]) \in Seq(KnownLines)
    <2>1. c[x].name \in Uppers /\ c[x].items \in Seq(UpperItems)
      <3>1. c[x] \in Sections
        BY <1>2, <1>3
      <3>. QED
        BY <3>1 DEF Sections
    <2>2. Header(c[x].name) \in KnownLines
      BY <2>1, UpperIs DEF KnownLines, Lines, Header
    <2>3. ASSUME NEW i \in DOMAIN c[x].items
          PROVE  ItemLines(c[x].items[i]) \in Seq(KnownLines)
      <3>. DEFINE e == c[x].items[i]
                  l == Setting(e.name, e.value)
                  r == Remark(Semicolon(e.desc))
      <3>1. e \in UpperItems
        BY <2>1, <2>3
      <3>2. e.name \in Uppers /\ e.name \in Texts /\ e.value \in Texts
            /\ Semicolon(e.desc) \in Texts /\ Upper(e.name) = e.name
        BY <3>1, NormalTypes, UpperIs DEF UpperItems
      <3>3. e.name = "UUID" => e.value \in Uuids \cup {NoText}
        <4>. SUFFICES ASSUME e.name = "UUID" PROVE e.value \in Uuids \cup {NoText}
          OBVIOUS
        <4>1. Has(c, c[x].name, "UUID", e.value)
          BY <1>3, <2>3 DEF Has
        <4>2. cfg_get_item(c, c[x].name, "UUID") = e.value /\ e.value # Null
          BY <2>1, <4>1, Names, GetsItem
        <4>. QED
          BY <2>1, <4>2 DEF KnownUuids
      <3>. HIDE DEF e
      <3>4. l \in KnownLines
        <4>1. l \in Lines /\ l.name = e.name /\ l.value = e.value
          BY <3>2 DEF Lines, Setting
        <4>. HIDE DEF l
        <4>. QED
          BY <3>2, <3>3, <4>1 DEF KnownLines
      <3>5. r \in KnownLines
        <4>1. r \in Lines /\ r.is = "remark"
          BY <3>2 DEF Lines, Remark
        <4>. HIDE DEF r
        <4>. QED
          BY <4>1 DEF KnownLines
      <3>6. <<l>> \in Seq(KnownLines) /\ <<r>> \in Seq(KnownLines) /\ <<>> \in Seq(KnownLines)
        <4>. HIDE DEF l, r
        <4>. QED
          BY <3>4, <3>5
      <3>7. ItemLines(e) = (IF e.desc = NoText THEN <<>> ELSE <<r>>) \o <<l>>
        BY Zenon DEF ItemLines
      <3>. HIDE DEF l, r
      <3>8. ItemLines(e) \in Seq(KnownLines)
        BY <3>6, <3>7
      <3>. QED
        BY <3>8 DEF e
    <2>. QED
      BY <2>2, <2>3
  <1>4. \A x \in DOMAIN c :
           /\ Header(c[x].name) \in KnownLines
           /\ \A i \in DOMAIN c[x].items : ItemLines(c[x].items[i]) \in Seq(KnownLines)
    BY <1>3
  <1>. QED
    BY <1>1, <1>4, WrittenIn

LEMMA SomeWritten ==
    ASSUME NEW S, NEW lines \in Seq(S), NEW n \in 0..Len(lines)
    PROVE  /\ SubSeq(lines, 1, n) \in Seq(S)
           /\ n = Len(lines) => SubSeq(lines, 1, n) = lines
OBVIOUS

\* What Identify does to the configuration, for a device whose UUID is then u.
Identifies(name, u) ==
    /\ cfg = NoCfg => cfg' = NoCfg
    /\ cfg # NoCfg =>
          /\ Tidy(cfg') /\ KnownUuids(cfg') /\ cfg' # NoCfg
          /\ cfg_get_item(cfg, Upper(name), "UUID") \in {u, NoText, Null}
          /\ \A s, k \in Uppers :
                cfg_get_item(cfg', s, k) =
                    IF s = Upper(name) /\ k = "UUID" THEN u ELSE cfg_get_item(cfg, s, k)
    /\ u \in Uuids
    /\ ~dirty' => ~dirty /\ cfg' = cfg

LEMMA ByUpper ==
    ASSUME NEW c, NEW s \in Texts, NEW k \in Texts
    PROVE  cfg_get_item(c, s, k) = cfg_get_item(c, Upper(s), Upper(k))
  <1>1. Upper(Upper(s)) = Upper(s) /\ Upper(Upper(k)) = Upper(k)
    BY UpperIs
  <1>. QED
    BY <1>1, Zenon DEF cfg_get_item, cfg_get_section

LEMMA IdentifyDoes ==
    ASSUME Sensible(cfg), NEW old, old.name \in Texts, old.uuid = NoText,
           Identify(ReadSection(old))
    PROVE  /\ Identifies(old.name, Identified(ReadSection(old)).uuid)
           /\ Identified(ReadSection(old)).name = old.name
  <1>. DEFINE d == ReadSection(old)
              u == Identified(d).uuid
              s == Upper(old.name)
              was == cfg_get_item(cfg, s, "UUID")
  <1>1. s \in Uppers /\ "UUID" \in Uppers /\ "uuid" \in Texts /\ Upper("uuid") = "UUID"
    BY Names, UpperIs
  <1>2. cfg_get_item(cfg, old.name, "uuid") = was
    BY <1>1, ByUpper
  <1>3. d.name = old.name /\ d.uuid = IF was = Null THEN NoText ELSE was
    BY <1>2 DEF ReadSection, cfg_get_tab
  <1>4. was \in Uuids \cup {NoText, Null}
    BY <1>1 DEF Sensible, KnownUuids, cfg_get_item
  <1>5. uuid_generate_random \in Uuids
    <2>1. \E x \in Uuids : x \notin InUse \/ Uuids \subseteq InUse
      BY ReconfigAssumption DEF ReconfigAssumption
    <2>. QED
      BY <2>1 DEF uuid_generate_random
  <1>6. u = (IF d.uuid = NoText THEN uuid_generate_random ELSE d.uuid) /\ Identified(d).name = d.name
    BY DEF Identified, ReadSection
  <1>7. /\ cfg' = IF d.uuid = NoText THEN cfg_set_item(cfg, d.name, "uuid", u) ELSE cfg
        /\ dirty' = (dirty \/ d.uuid = NoText)
    BY Zenon DEF Identify
  <1>. HIDE DEF d, u, s, was
  <1>8. u \in Uuids /\ u \in Texts /\ u # NoText
    BY <1>3, <1>4, <1>5, <1>6, UuidsAreTexts
  <1>9. was \in {u, NoText, Null}
    BY <1>3, <1>6
  <1>10. ASSUME cfg = NoCfg PROVE cfg' = NoCfg
    BY <1>7, <1>10 DEF cfg_set_item
  <1>11. ASSUME cfg # NoCfg
         PROVE  /\ Tidy(cfg') /\ KnownUuids(cfg') /\ cfg' # NoCfg
                /\ \A t, k \in Uppers :
                      cfg_get_item(cfg', t, k) =
                          IF t = s /\ k = "UUID" THEN u ELSE cfg_get_item(cfg, t, k)
    <2>1. Tidy(cfg) /\ KnownUuids(cfg)
      BY <1>11 DEF Sensible
    <2>2. /\ Tidy(cfg')
          /\ \A t, k \in Uppers :
                cfg_get_item(cfg', t, k) =
                    IF t = s /\ k = "UUID" THEN u ELSE cfg_get_item(cfg, t, k)
      <3>1. CASE d.uuid = NoText
        <4>1. cfg' = cfg_set_item(cfg, old.name, "uuid", u)
          BY <1>3, <1>7, <3>1
        <4>2. /\ Tidy(cfg_set_item(cfg, old.name, "uuid", u))
              /\ \A t, k \in Uppers :
                    cfg_get_item(cfg_set_item(cfg, old.name, "uuid", u), t, k) =
                        IF t = Upper(old.name) /\ k = Upper("uuid") THEN u
                        ELSE cfg_get_item(cfg, t, k)
          BY <1>1, <1>8, <2>1, SetsItem
        <4>. QED
          BY <1>1, <4>1, <4>2 DEF s
      <3>2. CASE d.uuid # NoText
        <4>1. cfg' = cfg /\ was = u
          BY <1>3, <1>6, <1>7, <3>2
        <4>. QED
          BY <2>1, <4>1 DEF was
      <3>. QED
        BY <3>1, <3>2
    <2>3. KnownUuids(cfg')
      BY <1>1, <1>8, <2>1, <2>2 DEF KnownUuids
    <2>. QED
      BY <2>2, <2>3, TidyIsSome
  <1>12. ~dirty' => ~dirty /\ cfg' = cfg
    BY <1>7
  <1>. QED
    BY <1>3, <1>6, <1>8, <1>9, <1>10, <1>11, <1>12 DEF Identifies, d, u, s, was

-----------------------------------------------------------------------------
(* The types, but for those that depend on the configuration.              *)

Entries == (DOMAIN ModuleType) \X {ModuleType[m] : m \in DOMAIN ModuleType}

ControlInv ==
    /\ pc \in PCs /\ caller \in {"start", "reread", "options"}
    /\ nth \in 1..(Len(PackNames) + 1) /\ opts \in Options
    /\ caller = "options" => pc \in {"pack", "pool", "run"}

FlagInv == dirty \in BOOLEAN /\ edited \in BOOLEAN /\ failed \in BOOLEAN /\ unsaved \in BOOLEAN

ModuleInv == modules \in Seq(Entries) /\ caps \subseteq {"charge", "discharge"}

LEMMA NamesCounted == Len(PackNames) \in Nat /\ DOMAIN PackNames = 1..Len(PackNames)
  BY ReconfigAssumption DEF ReconfigAssumption

LEMMA TypeInit == Init => ControlInv /\ FlagInv /\ ModuleInv
  <1>. SUFFICES ASSUME Init PROVE ControlInv /\ FlagInv /\ ModuleInv
    OBVIOUS
  <1>1. ControlInv
    <2>1. 1 \in 1..(Len(PackNames) + 1)
      BY NamesCounted
    <2>. QED
      BY <2>1, Zenon DEF Init, ControlInv, PCs
  <1>2. FlagInv
    BY Zenon DEF Init, FlagInv
  <1>3. ModuleInv
    BY DEF Init, ModuleInv
  <1>. QED
    BY <1>1, <1>2, <1>3

LEMMA ControlStep == ASSUME ControlInv, [Next]_vars PROVE ControlInv'
  <1>. USE DEF ControlInv, PCs, At, Goto
  <1>0. 1 \in 1..(Len(PackNames) + 1) /\ Len(PackNames) \in Nat
    BY NamesCounted
  <1>1. CASE Start \/ Crash
    <2>1. nth' = 1 /\ caller' = "start" /\ pc' \in {"read", "down"} /\ opts' \in Options
      BY <1>1 DEF Start, Crash, Forget
    <2>. QED
      BY <1>0, <2>1
  <1>2. CASE Reread
    BY <1>2 DEF Reread
  <1>3. CASE ReadFile \/ ReadFails \/ ReadNothing \/ NoInverterSection
    BY <1>0, <1>3 DEF ReadFile, ReadFails, ReadNothing, NoInverterSection, Fails
  <1>4. CASE InverterInit
    BY <1>0, <1>4 DEF InverterInit, InverterAdd, Fails
  <1>5. CASE PackInit
    <2>1. /\ At("pack") /\ nth <= Len(PackNames) /\ opts' = opts /\ caller' = caller
          /\ \/ nth' = nth + 1 /\ pc' = pc
             \/ nth' = nth /\ pc' \in {"down", "run"} /\ (caller # "start" => pc' = "run")
      BY <1>5 DEF PackInit, PackAdd, Fails
    <2>. QED
      BY <1>0, <2>1
  <1>6. CASE NoMorePacks \/ NoPacks \/ MakePool
    BY <1>6 DEF NoMorePacks, NoPacks, MakePool, PacksDone
  <1>7. CASE NotDirty \/ WriteFails \/ Truncate \/ WriteOut
    BY <1>7 DEF NotDirty, WriteFails, Truncate, WriteOut, Return
  <1>8. CASE InverterOption \/ NoInverterOption \/ NoPackOption
    BY <1>8 DEF InverterOption, NoInverterOption, NoPackOption
  <1>9. CASE PackOption
    <2>1. pc' = "pack" /\ nth' = 1 /\ caller' = "options" /\ opts' = opts
      BY <1>9 DEF PackOption
    <2>. QED
      BY <1>0, <2>1
  <1>10. CASE Edit \/ UNCHANGED vars
    BY <1>10 DEF Edit, vars, control
  <1>. QED
    BY <1>1, <1>2, <1>3, <1>4, <1>5, <1>6, <1>7, <1>8, <1>9, <1>10 DEF Next, Program

LEMMA LoadTypes ==
    ASSUME NEW list \in Seq(Entries), NEW name, NEW type, Linked(name)
    PROVE  Load(list, name, type) \in Seq(Entries)
  <1>1. <<name, ModuleType[name]>> \in Entries
    BY DEF Entries, Linked
  <1>. QED
    BY <1>1 DEF Load

LEMMA LoadBothTypes ==
    ASSUME modules \in Seq(Entries), NEW d, NEW type
    PROVE  LoadBoth(d, type) \in Seq(Entries)
  <1>1. CASE ~Linked(d.transport)
    BY <1>1 DEF LoadBoth
  <1>2. CASE Linked(d.transport)
    <2>. DEFINE with == Load(modules, d.transport, "transport")
    <2>1. with \in Seq(Entries)
      BY <1>2, LoadTypes
    <2>2. LoadBoth(d, type) = IF Linked(d.type) THEN Load(with, d.type, type) ELSE with
      BY <1>2 DEF LoadBoth
    <2>. HIDE DEF with
    <2>. QED
      BY <2>1, <2>2, LoadTypes
  <1>. QED
    BY <1>1, <1>2

LEMMA ModuleStep == ASSUME ModuleInv, [Next]_vars PROVE ModuleInv'
  <1>. USE DEF ModuleInv
  <1>0. <<>> \in Seq(Entries)
    OBVIOUS
  <1>1. CASE Start \/ Crash \/ Reread
    BY <1>0, <1>1, Zenon DEF Start, Crash, Reread, Forget
  <1>2. CASE InverterInit
    BY <1>2, LoadBothTypes, Zenon DEF InverterInit, InverterAdd
  <1>3. CASE PackInit
    BY <1>3, LoadBothTypes, Zenon DEF PackInit, PackAdd
  <1>4. CASE MakePool
    BY <1>4 DEF MakePool
  <1>5. CASE InverterOption
    BY <1>5, LoadBothTypes, Zenon DEF InverterOption, InverterAdd
  <1>6. CASE PackOption
    BY <1>6, LoadBothTypes, Zenon DEF PackOption, PackAdd
  <1>7. CASE \/ ReadFile \/ ReadFails \/ ReadNothing \/ NoInverterSection \/ NoMorePacks \/ NoPacks
             \/ NotDirty \/ WriteFails \/ Truncate \/ WriteOut \/ NoInverterOption \/ NoPackOption
             \/ Edit \/ UNCHANGED vars
    <2>1. modules' = modules /\ caps' = caps
      BY <1>7, Zenon DEF ReadFile, ReadFails, ReadNothing, NoInverterSection, NoMorePacks, NoPacks,
         NotDirty, WriteFails, Truncate, WriteOut, NoInverterOption, NoPackOption, Edit, vars, conf
    <2>. QED
      BY <2>1
  <1>. QED
    BY <1>1, <1>2, <1>3, <1>4, <1>5, <1>6, <1>7 DEF Next, Program

-----------------------------------------------------------------------------

LEMMA MemoryInit == Init => MemoryInv
  <1>. SUFFICES ASSUME Init PROVE MemoryInv
    OBVIOUS
  <1>1. file \in Seq(KnownLines)
    BY ReconfigAssumption DEF ReconfigAssumption, Init
  <1>2. source \in Seq(KnownLines)
    <2>1. <<>> \in Seq(KnownLines)
      OBVIOUS
    <2>. QED
      BY <2>1 DEF Init
  <1>. QED
    BY <1>1, <1>2 DEF Init, MemoryInv, Sensible

\* The stages at which a device's section is read.
LEMMA DeviceIdentified ==
    ASSUME MemoryInv, ControlInv
    PROVE  /\ InverterInit => Identifies("inverter", Identified(ReadSection(Device("inverter"))).uuid)
           /\ PackInit => /\ nth \in DOMAIN PackNames
                          /\ Identifies(PackNames[nth],
                                        Identified(ReadSection(Device(PackNames[nth]))).uuid)
           /\ PackOption => \E u : Identifies("pack", u)
  <1>0. Sensible(cfg)
    BY DEF MemoryInv
  <1>1. ASSUME InverterInit
        PROVE  Identifies("inverter", Identified(ReadSection(Device("inverter"))).uuid)
    <2>1. Identify(ReadSection(Device("inverter")))
      BY <1>1, Zenon DEF InverterInit
    <2>2. Device("inverter").name = "inverter" /\ Device("inverter").uuid = NoText
      BY DEF Device
    <2>3. "inverter" \in Texts
      BY Names
    <2>. QED
      BY <1>0, <2>1, <2>2, <2>3, IdentifyDoes
  <1>2. ASSUME PackInit
        PROVE  /\ nth \in DOMAIN PackNames
               /\ Identifies(PackNames[nth], Identified(ReadSection(Device(PackNames[nth]))).uuid)
    <2>1. nth \in DOMAIN PackNames
      BY <1>2, NamesCounted DEF ControlInv, PackInit, At
    <2>2. Identify(ReadSection(Device(PackNames[nth])))
      BY <1>2, Zenon DEF PackInit, PackAdd
    <2>3. Device(PackNames[nth]).name = PackNames[nth] /\ Device(PackNames[nth]).uuid = NoText
      BY DEF Device
    <2>4. PackNames[nth] \in Texts
      BY <2>1, Names
    <2>. QED
      BY <1>0, <2>1, <2>2, <2>3, <2>4, IdentifyDoes
  <1>3. ASSUME PackOption PROVE \E u : Identifies("pack", u)
    <2>. DEFINE old == [Device("pack") EXCEPT !.type = "jbd", !.transport = "ip"]
    <2>1. Identify(ReadSection(old))
      BY <1>3, Zenon DEF PackOption, PackAdd
    <2>2. old.name = "pack" /\ old.uuid = NoText
      BY DEF Device
    <2>3. "pack" \in Texts
      BY Names
    <2>. HIDE DEF old
    <2>. QED
      BY <1>0, <2>1, <2>2, <2>3, IdentifyDoes
  <1>. QED
    BY <1>1, <1>2, <1>3

LEMMA WrittenCounted ==
    ASSUME MemoryInv, At("writing")
    PROVE  /\ cfg # NoCfg /\ Tidy(cfg) /\ KnownUuids(cfg)
           /\ cfg_write(cfg) \in Seq(KnownLines) /\ Len(cfg_write(cfg)) \in Nat
  <1>1. cfg # NoCfg /\ Tidy(cfg) /\ KnownUuids(cfg)
    BY DEF MemoryInv, Sensible, At
  <1>2. cfg_write(cfg) \in Seq(KnownLines)
    BY <1>1, WriteKnown
  <1>. QED
    BY <1>1, <1>2

LEMMA MemoryStep == ASSUME MemoryInv, ControlInv, [Next]_vars PROVE MemoryInv'
  <1>. USE DEF MemoryInv, Sensible, At, Goto
  <1>0. <<>> \in Seq(KnownLines)
    OBVIOUS
  <1>1. CASE Start \/ Reread
    <2>1. file' = file /\ cfg' = NoCfg /\ pc' = "read" /\ (source' = <<>> \/ source' = source)
      BY <1>1 DEF Start, Reread, Forget, history
    <2>. QED
      BY <1>0, <2>1
  <1>2. CASE Crash
    <2>1. cfg' = NoCfg /\ pc' = "down" /\ source' = <<>>
      BY <1>2 DEF Crash, Forget
    <2>2. file' \in Seq(KnownLines)
      <3>1. CASE At("writing")
        <4>1. PICK n \in 0..Len(cfg_write(cfg)) : file' = SubSeq(cfg_write(cfg), 1, n)
          BY <1>2, <3>1, Zenon DEF Crash
        <4>. QED
          BY <3>1, <4>1, WrittenCounted, SomeWritten
      <3>2. CASE ~At("writing")
        <4>1. file' = file
          BY <1>2, <3>2, Zenon DEF Crash
        <4>. QED
          BY <4>1
      <3>. QED
        BY <3>1, <3>2
    <2>. QED
      BY <1>0, <2>1, <2>2
  <1>3. CASE ReadFile
    <2>1. cfg' = cfg_read(file) /\ source' = file /\ file' = file /\ pc' = "inverter"
      BY <1>3 DEF ReadFile
    <2>2. Tidy(cfg_read(file)) /\ KnownUuids(cfg_read(file)) /\ cfg_read(file) # NoCfg
      BY ReadKnown
    <2>. QED
      BY <2>1, <2>2
  <1>4. CASE ReadFails
    <2>1. cfg' = NoCfg /\ source' = <<>> /\ file' = file /\ pc' \in {"down", "run"}
      BY <1>4 DEF ReadFails, Fails
    <2>. QED
      BY <1>0, <2>1
  <1>5. CASE ReadNothing
    <2>1. cfg' = cfg /\ source' = source /\ file' = file /\ pc' = "inverter" /\ cfg = NoCfg
      BY <1>5 DEF ReadNothing, history
    <2>. QED
      BY <2>1
  <1>6. CASE InverterInit \/ PackInit \/ PackOption
    <2>1. PICK name, u : Identifies(name, u)
      BY <1>6, DeviceIdentified
    <2>2. file' = file /\ (source' = source \/ source' = <<>>) /\ pc' \in {"pack", "down", "run"}
      BY <1>6 DEF InverterInit, InverterAdd, PackInit, PackAdd, PackOption, Fails, history
    <2>3. cfg' # NoCfg => Tidy(cfg') /\ KnownUuids(cfg')
      BY <2>1 DEF Identifies
    <2>. QED
      BY <1>0, <2>2, <2>3
  <1>7. CASE NoInverterSection \/ NoMorePacks \/ NoPacks \/ MakePool \/ InverterOption
             \/ NoInverterOption \/ NoPackOption
    <2>1. cfg' = cfg /\ source' = source /\ file' = file /\ pc' \notin {"writing", "read", "inverter"}
      BY <1>7 DEF NoInverterSection, NoMorePacks, NoPacks, MakePool, InverterOption, PacksDone,
         NoInverterOption, NoPackOption, history
    <2>. QED
      BY <2>1
  <1>8. CASE NotDirty \/ WriteFails
    <2>1. cfg' = cfg /\ source' = <<>> /\ file' = file /\ pc' \in {"options", "run"}
      BY <1>8 DEF NotDirty, WriteFails, Return, Succeeds
    <2>. QED
      BY <1>0, <2>1
  <1>9. CASE Truncate
    <2>1. cfg' = cfg /\ source' = source /\ file' = <<>> /\ pc' = "writing" /\ cfg # NoCfg
      BY <1>9 DEF Truncate, history
    <2>. QED
      BY <1>0, <2>1
  <1>10. CASE WriteOut
    <2>1. cfg' = cfg /\ source' = <<>> /\ pc' \in {"options", "run"} /\ At("writing")
      BY <1>10 DEF WriteOut, Return, Succeeds
    <2>2. PICK n \in 0..Len(cfg_write(cfg)) : file' = SubSeq(cfg_write(cfg), 1, n)
      BY <1>10, Zenon DEF WriteOut
    <2>3. file' \in Seq(KnownLines)
      BY <2>1, <2>2, WrittenCounted, SomeWritten
    <2>. QED
      BY <1>0, <2>1, <2>3
  <1>11. CASE Edit
    <2>1. cfg' = cfg /\ source' = source /\ pc' = pc /\ file' \in Files
      BY <1>11 DEF Edit, control
    <2>2. file' \in Seq(KnownLines)
      BY <2>1, ReconfigAssumption DEF ReconfigAssumption
    <2>. QED
      BY <2>1, <2>2
  <1>12. CASE UNCHANGED vars
    BY <1>12 DEF vars, control, history
  <1>. QED
    BY <1>1, <1>2, <1>3, <1>4, <1>5, <1>6, <1>7, <1>8, <1>9, <1>10, <1>11, <1>12 DEF Next, Program

LEMMA MemoryAlways == Spec => [](MemoryInv /\ ControlInv)
  <1>1. Init => MemoryInv /\ ControlInv
    BY MemoryInit, TypeInit
  <1>2. MemoryInv /\ ControlInv /\ [Next]_vars => MemoryInv' /\ ControlInv'
    BY MemoryStep, ControlStep
  <1>. QED
    BY <1>1, <1>2, PTL DEF Spec

LEMMA NamesOfLines ==
    ASSUME NEW lines \in Seq(KnownLines)
    PROVE  SectionsOf(lines) \subseteq Uppers /\ KeywordsOf(lines) \subseteq Uppers
  <1>1. ASSUME NEW i \in DOMAIN lines, lines[i].is \in {"header", "item"}
        PROVE  Upper(lines[i].name) \in Uppers
    <2>1. lines[i] \in Lines
      BY KnownAreLines
    <2>2. lines[i].name \in Texts
      BY <1>1, <2>1 DEF Lines, BlankLine
    <2>. QED
      BY <2>2, UpperIs
  <1>. QED
    BY <1>1 DEF SectionsOf, KeywordsOf

\* Whatever cfg_read has made of a file, every item of every section is what the lines
\* of the file say, with sections and items that come twice and blank lines within them.
THEOREM ReadFaithfully == Spec => []ReadsWhatIsSaid
  <1>1. MemoryInv => ReadsWhatIsSaid
    <2>. SUFFICES ASSUME MemoryInv, pc = "inverter", cfg # NoCfg,
                         NEW s \in SectionsOf(source), NEW k \in KeywordsOf(source)
                  PROVE  cfg_get_item(cfg, s, k) = Says(source, s, k)
      BY DEF ReadsWhatIsSaid
    <2>1. source \in Seq(KnownLines) /\ cfg = cfg_read(source)
      BY DEF MemoryInv
    <2>2. s \in Uppers /\ k \in Uppers
      BY <2>1, NamesOfLines
    <2>. QED
      BY <2>1, <2>2, ReadKnown
  <1>. QED
    BY <1>1, MemoryAlways, PTL

\* What is in memory at any stage, with or without the program's own items, is the same
\* (but for the remarks' marks) when it is written and read again.
THEOREM WriteReadBack == Spec => []WrittenIsReadBack
  <1>1. MemoryInv => WrittenIsReadBack
    BY FileReadBack DEF MemoryInv, Sensible, WrittenIsReadBack
  <1>. QED
    BY <1>1, MemoryAlways, PTL

LEMMA FlagStep == ASSUME FlagInv, MemoryInv, [Next]_vars PROVE FlagInv'
  <1>. USE DEF FlagInv, history
  <1>1. CASE Start \/ Crash \/ Reread
    BY <1>1, Zenon DEF Start, Crash, Reread, Forget
  <1>2. CASE ReadFile \/ ReadFails \/ ReadNothing \/ NoInverterSection
    BY <1>2, Zenon DEF ReadFile, ReadFails, ReadNothing, NoInverterSection, Fails
  <1>3. CASE InverterInit
    BY <1>3, Zenon DEF InverterInit, InverterAdd, Identify, Fails
  <1>4. CASE PackInit
    BY <1>4, Zenon DEF PackInit, PackAdd, Identify, Fails
  <1>5. CASE NoMorePacks \/ NoPacks \/ MakePool
    BY <1>5, Zenon DEF NoMorePacks, NoPacks, MakePool
  <1>6. CASE NotDirty \/ WriteFails \/ Truncate \/ WriteOut
    <2>1. CASE NotDirty \/ WriteFails \/ Truncate
      BY <2>1, Zenon DEF NotDirty, WriteFails, Truncate, Succeeds
    <2>2. CASE WriteOut
      <3>1. unsaved' \in BOOLEAN
        <4>1. PICK n \in 0..Len(cfg_write(cfg)) : unsaved' = (n < Len(cfg_write(cfg)))
          BY <2>2, Zenon DEF WriteOut
        <4>2. Len(cfg_write(cfg)) \in Nat
          BY <2>2, WrittenCounted DEF WriteOut
        <4>. QED
          BY <4>1, <4>2
      <3>2. dirty' = FALSE /\ failed' = FALSE /\ edited' = edited
        BY <2>2, Zenon DEF WriteOut, Succeeds
      <3>. QED
        BY <3>1, <3>2, Zenon
    <2>. QED
      BY <1>6, <2>1, <2>2
  <1>7. CASE InverterOption \/ NoInverterOption \/ NoPackOption
    BY <1>7, Zenon DEF InverterOption, NoInverterOption, NoPackOption
  <1>8. CASE PackOption
    BY <1>8, Zenon DEF PackOption, PackAdd, Identify
  <1>9. CASE Edit \/ UNCHANGED vars
    BY <1>9, Zenon DEF Edit, vars
  <1>. QED
    BY <1>1, <1>2, <1>3, <1>4, <1>5, <1>6, <1>7, <1>8, <1>9 DEF Next, Program

-----------------------------------------------------------------------------
(* From the file that is read to the file that is written.                 *)

\* Between the reading and the writing, only devices without a UUID get one.
KeepsInv ==
    /\ pc \in {"inverter", "pack", "pool", "write", "writing"} /\ caller # "options" /\ cfg # NoCfg
    => \A s, k \in Uppers :
          \/ cfg_get_item(cfg, s, k) = Says(source, s, k)
          \/ k = "UUID" /\ Says(source, s, k) \in {NoText, Null}

LEMMA KeepsStep == ASSUME KeepsInv, MemoryInv, ControlInv, [Next]_vars PROVE KeepsInv'
  <1>. USE DEF At, Goto
  <1>1. CASE Start \/ Reread \/ Crash \/ ReadFails
    <2>1. cfg' = NoCfg
      BY <1>1 DEF Start, Reread, Crash, ReadFails, Forget
    <2>. QED
      BY <2>1 DEF KeepsInv
  <1>2. CASE ReadFile
    <2>1. cfg' = cfg_read(file) /\ source' = file /\ file \in Seq(KnownLines)
      BY <1>2 DEF ReadFile, MemoryInv
    <2>. QED
      BY <2>1, ReadKnown DEF KeepsInv
  <1>3. CASE ReadNothing
    <2>1. cfg' = NoCfg
      BY <1>3 DEF ReadNothing, MemoryInv
    <2>. QED
      BY <2>1 DEF KeepsInv
  <1>4. CASE InverterInit \/ PackInit
    <2>1. PICK name, u : Identifies(name, u)
      BY <1>4, DeviceIdentified
    <2>2. \/ pc' \in {"down", "run"}
          \/ source' = source /\ caller' = caller /\ pc \in {"inverter", "pack"}
      BY <1>4 DEF InverterInit, InverterAdd, PackInit, PackAdd, Fails, history
    <2>3. CASE pc' \in {"down", "run"}
      BY <2>3 DEF KeepsInv
    <2>4. CASE ~(pc' \in {"down", "run"})
      <3>. SUFFICES ASSUME caller # "options", cfg' # NoCfg, NEW s \in Uppers, NEW k \in Uppers
                    PROVE  \/ cfg_get_item(cfg', s, k) = Says(source, s, k)
                           \/ k = "UUID" /\ Says(source, s, k) \in {NoText, Null}
        BY <2>2, <2>4 DEF KeepsInv
      <3>1. cfg # NoCfg
        BY <2>1 DEF Identifies
      <3>2. \/ cfg_get_item(cfg, s, k) = Says(source, s, k)
            \/ k = "UUID" /\ Says(source, s, k) \in {NoText, Null}
        BY <2>2, <2>4, <3>1 DEF KeepsInv
      <3>3. /\ cfg_get_item(cfg, Upper(name), "UUID") \in {u, NoText, Null}
            /\ cfg_get_item(cfg', s, k) =
                  IF s = Upper(name) /\ k = "UUID" THEN u ELSE cfg_get_item(cfg, s, k)
        BY <2>1, <3>1 DEF Identifies
      <3>. QED
        BY <3>2, <3>3
    <2>. QED
      BY <2>3, <2>4
  <1>5. CASE NoInverterSection \/ NoMorePacks \/ NoPacks \/ MakePool \/ Truncate
    <2>1. /\ cfg' = cfg /\ source' = source /\ caller' = caller
          /\ pc \in {"inverter", "pack", "pool", "write"}
      BY <1>5 DEF NoInverterSection, NoMorePacks, NoPacks, MakePool, PacksDone, Truncate, history
    <2>. QED
      BY <2>1 DEF KeepsInv
  <1>6. CASE NotDirty \/ WriteFails \/ WriteOut \/ InverterOption \/ NoInverterOption \/ NoPackOption
    <2>1. pc' \in {"options", "run", "packoption"}
      BY <1>6 DEF NotDirty, WriteFails, WriteOut, InverterOption, NoInverterOption, NoPackOption, Return
    <2>. QED
      BY <2>1 DEF KeepsInv
  <1>7. CASE PackOption
    <2>1. caller' = "options"
      BY <1>7 DEF PackOption
    <2>. QED
      BY <2>1 DEF KeepsInv
  <1>8. CASE Edit \/ UNCHANGED vars
    <2>1. pc' = pc /\ cfg' = cfg /\ source' = source /\ caller' = caller
      BY <1>8 DEF Edit, vars, control, history
    <2>. QED
      BY <2>1 DEF KeepsInv
  <1>. QED
    BY <1>1, <1>2, <1>3, <1>4, <1>5, <1>6, <1>7, <1>8 DEF Next, Program

LEMMA KeepsAlways == Spec => [](KeepsInv /\ MemoryInv /\ ControlInv)
  <1>1. Init => KeepsInv /\ MemoryInv /\ ControlInv
    BY MemoryInit, TypeInit DEF Init, KeepsInv
  <1>2. KeepsInv /\ MemoryInv /\ ControlInv /\ [Next]_vars => KeepsInv' /\ MemoryInv' /\ ControlInv'
    BY KeepsStep, MemoryStep, ControlStep
  <1>. QED
    BY <1>1, <1>2, PTL DEF Spec

\* The steps that leave "writing" for another stage of the daemon have written lines:
\* all of them, if it is not known that some are missing.
LEMMA AllWritten ==
    ASSUME MemoryInv, [Next]_vars, pc = "writing", pc' \in {"run", "options"}
    PROVE  WriteOut /\ (~unsaved' => file' = cfg_write(cfg))
  <1>1. WriteOut
    BY DEF Next, Program, Start, Reread, ReadFile, ReadFails, ReadNothing, NoInverterSection,
       InverterInit, PackInit, NoMorePacks, NoPacks, MakePool, NotDirty, WriteFails, Truncate,
       InverterOption, NoInverterOption, PackOption, NoPackOption, Edit, Crash, vars, control, At
  <1>2. PICK n \in 0..Len(cfg_write(cfg)) :
            /\ file' = SubSeq(cfg_write(cfg), 1, n)
            /\ unsaved' = (n < Len(cfg_write(cfg)))
    BY <1>1, Zenon DEF WriteOut
  <1>3. cfg_write(cfg) \in Seq(KnownLines) /\ Len(cfg_write(cfg)) \in Nat
    BY WrittenCounted DEF At
  <1>4. ~unsaved' => n = Len(cfg_write(cfg))
    <2>. DEFINE some == n < Len(cfg_write(cfg))
    <2>1. unsaved' = some
      BY <1>2
    <2>2. some = TRUE \/ n = Len(cfg_write(cfg))
      BY <1>3
    <2>. HIDE DEF some
    <2>. QED
      BY <2>1, <2>2, Zenon
  <1>. QED
    BY <1>1, <1>2, <1>3, <1>4, SomeWritten

\* The daemon never loses or changes an item of the file by writing it, for any number of
\* devices that have no UUID.
THEOREM WriteKeeps == Spec => WriteKeepsItems
  <1>1. KeepsInv /\ MemoryInv /\ ControlInv /\ [Next]_vars =>
            (pc = "writing" /\ pc' \in {"run", "options"} /\ ~unsaved' =>
               \A s \in SectionsOf(source), k \in KeywordsOf(source) :
                   \/ Says(file', s, k) = Says(source, s, k)
                   \/ k = "UUID" /\ Says(source, s, k) \in {NoText, Null})
    <2>. SUFFICES ASSUME KeepsInv, MemoryInv, ControlInv, [Next]_vars, pc = "writing",
                         pc' \in {"run", "options"}, ~unsaved',
                         NEW s \in SectionsOf(source), NEW k \in KeywordsOf(source)
                  PROVE  \/ Says(file', s, k) = Says(source, s, k)
                         \/ k = "UUID" /\ Says(source, s, k) \in {NoText, Null}
      OBVIOUS
    <2>1. file' = cfg_write(cfg)
      BY AllWritten
    <2>2. s \in Uppers /\ k \in Uppers
      BY NamesOfLines DEF MemoryInv
    <2>3. Says(file', s, k) = cfg_get_item(cfg, s, k)
      BY <2>1, <2>2, WrittenCounted, WrittenSays DEF At
    <2>4. caller # "options"
      BY DEF ControlInv
    <2>. QED
      BY <2>2, <2>3, <2>4, WrittenCounted DEF KeepsInv, At
  <1>. QED
    BY <1>1, KeepsAlways, PTL DEF Spec, WriteKeepsItems

-----------------------------------------------------------------------------
(* The devices: what is listed, and how much of it.                        *)

DeviceInv ==
    /\ \A i \in DOMAIN packs : packs[i].uuid \in Uuids
    /\ inverter # NoInverter => inverter.uuid \in Uuids \cup {NoText}

CountInv ==
    /\ Listed /\ Len(packs) <= 2 * Len(PackNames) + 1
    /\ pool \in 0..(2 * Len(PackNames) + 1)
    /\ pc \in {"read", "inverter"} => packs = <<>>
    /\ pc = "pack" => Len(packs) <= IF caller = "options" THEN Len(PackNames) + nth ELSE nth - 1
    /\ pc \in {"pool", "write", "writing", "options", "packoption"} /\ caller # "options"
         => Len(packs) <= Len(PackNames)

LEMMA AddsPack ==
    ASSUME Listed, NEW d, packs' = Append(packs, d)
    PROVE  /\ Listed' /\ Len(packs) \in Nat /\ Len(packs') = Len(packs) + 1
           /\ DOMAIN packs = 1..Len(packs) /\ DOMAIN packs' = 1..(Len(packs) + 1)
           /\ \A i \in 1..Len(packs) : packs'[i] = packs[i]
           /\ packs'[Len(packs) + 1] = d
<1>1. PICK S : packs \in Seq(S)
  BY DEF Listed
<1>2. packs \in Seq(S \cup {d})
  BY <1>1
<1>3. Listed'
  BY AppendLists DEF Listed
<1> QED
  BY <1>2, <1>3

\* The actions that list packs, for the pack that they may list.
LEMMA PackAdded ==
    ASSUME MemoryInv, ControlInv
    PROVE  /\ PackInit => \E d : /\ Identifies(PackNames[nth], d.uuid) /\ d.name = PackNames[nth]
                                 /\ \/ packs' = Append(packs, d) /\ nth' = nth + 1 /\ pc' = pc
                                    \/ packs' = packs
                                 /\ d = Identified(ReadSection(Device(PackNames[nth])))
           /\ PackOption => \E d : /\ Identifies("pack", d.uuid) /\ d.name = "pack"
                                   /\ packs' = Append(packs, d) \/ packs' = packs
  <1>1. ASSUME PackInit
        PROVE  \E d : /\ Identifies(PackNames[nth], d.uuid) /\ d.name = PackNames[nth]
                      /\ \/ packs' = Append(packs, d) /\ nth' = nth + 1 /\ pc' = pc
                         \/ packs' = packs
                      /\ d = Identified(ReadSection(Device(PackNames[nth])))
    <2>. DEFINE d == Identified(ReadSection(Device(PackNames[nth])))
    <2>1. Identifies(PackNames[nth], d.uuid)
      BY <1>1, DeviceIdentified
    <2>2. d.name = PackNames[nth]
      BY NameIsKept DEF Device
    <2>3. \/ packs' = Append(packs, d) /\ nth' = nth + 1 /\ pc' = pc
          \/ packs' = packs
      BY <1>1, Zenon DEF PackInit, PackAdd
    <2>. QED
      BY <2>1, <2>2, <2>3
  <1>2. ASSUME PackOption
        PROVE  \E d : /\ Identifies("pack", d.uuid) /\ d.name = "pack"
                      /\ packs' = Append(packs, d) \/ packs' = packs
    <2>. DEFINE old == [Device("pack") EXCEPT !.type = "jbd", !.transport = "ip"]
                d == Identified(ReadSection(old))
    <2>1. Identify(ReadSection(old)) /\ (packs' = Append(packs, d) \/ packs' = packs)
      BY <1>2, Zenon DEF PackOption, PackAdd
    <2>2. old.name = "pack" /\ old.uuid = NoText /\ "pack" \in Texts
      BY Names DEF Device
    <2>3. Identifies("pack", d.uuid) /\ d.name = "pack"
      <3>. HIDE DEF old
      <3>. QED
        BY <2>1, <2>2, IdentifyDoes DEF MemoryInv
    <2>. QED
      BY <2>1, <2>3
  <1>. QED
    BY <1>1, <1>2

LEMMA DeviceStep ==
    ASSUME DeviceInv, Listed, MemoryInv, ControlInv, [Next]_vars
    PROVE  DeviceInv'
  <1>. USE DEF DeviceInv
  <1>1. CASE Start \/ Crash
    BY <1>1 DEF Start, Crash, Forget
  <1>2. CASE Reread
    BY <1>2 DEF Reread
  <1>3. CASE InverterInit
    <2>. DEFINE d == Identified(ReadSection(Device("inverter")))
    <2>1. packs' = packs /\ (inverter' = d \/ inverter' = inverter)
      BY <1>3, Zenon DEF InverterInit, InverterAdd
    <2>2. d.uuid \in Uuids
      BY <1>3, DeviceIdentified DEF Identifies
    <2>. HIDE DEF d
    <2>. QED
      BY <2>1, <2>2
  <1>4. CASE PackInit \/ PackOption
    <2>1. PICK d : d.uuid \in Uuids /\ (packs' = Append(packs, d) \/ packs' = packs)
      BY <1>4, PackAdded DEF Identifies
    <2>2. inverter' = inverter
      BY <1>4 DEF PackInit, PackOption
    <2>3. CASE packs' = packs
      BY <2>2, <2>3
    <2>4. CASE packs' = Append(packs, d)
      <3>1. \A i \in DOMAIN packs' : packs'[i] = d \/ \E j \in DOMAIN packs : packs'[i] = packs[j]
        BY <2>4, AddsPack
      <3>. QED
        BY <2>1, <2>2, <3>1
    <2>. QED
      BY <2>1, <2>3, <2>4
  <1>5. CASE InverterOption
    <2>. DEFINE d == [Device("option") EXCEPT !.type = "si", !.transport = "can"]
    <2>1. packs' = packs /\ (inverter' = d \/ inverter' = inverter)
      BY <1>5, Zenon DEF InverterOption, InverterAdd
    <2>2. d.uuid = NoText
      BY DEF Device
    <2>. HIDE DEF d
    <2>. QED
      BY <2>1, <2>2
  <1>6. CASE \/ ReadFile \/ ReadFails \/ ReadNothing \/ NoInverterSection \/ NoMorePacks \/ NoPacks
             \/ MakePool \/ NotDirty \/ WriteFails \/ Truncate \/ WriteOut \/ NoInverterOption
             \/ NoPackOption \/ Edit \/ UNCHANGED vars
    <2>1. packs' = packs /\ inverter' = inverter
      BY <1>6, Zenon DEF ReadFile, ReadFails, ReadNothing, NoInverterSection, NoMorePacks, NoPacks,
         MakePool, NotDirty, WriteFails, Truncate, WriteOut, NoInverterOption, NoPackOption, Edit,
         vars, conf
    <2>. QED
      BY <2>1
  <1>. QED
    BY <1>1, <1>2, <1>3, <1>4, <1>5, <1>6 DEF Next, Program

LEMMA CountStep ==
    ASSUME CountInv, MemoryInv, ControlInv, [Next]_vars
    PROVE  CountInv'
  <1>. DEFINE L == Len(PackNames)
  <1>0. L \in Nat /\ Len(packs) \in Nat
    BY NamesCounted, LenLists DEF CountInv, Listed
  <1>. USE DEF At, Goto
  <1>1. CASE Start \/ Crash \/ Reread
    <2>1. packs' = <<>> /\ pc' \in {"read", "down"} /\ pool' \in {0, pool}
      BY <1>1 DEF Start, Crash, Reread, Forget
    <2>2. Len(packs') = 0 /\ Listed'
      BY <2>1, EmptyLists DEF Listed
    <2>. HIDE DEF L
    <2>3. pool' \in 0..(2 * L + 1) /\ 0 <= 2 * L + 1
      BY <1>0, <2>1 DEF CountInv, L
    <2>. QED
      BY <2>1, <2>2, <2>3 DEF CountInv, L
  <1>2. CASE ReadFile \/ ReadFails \/ ReadNothing
    <2>1. packs' = packs /\ pool' = pool /\ pc = "read" /\ pc' \in {"inverter", "down", "run"}
      BY <1>2 DEF ReadFile, ReadFails, ReadNothing, Fails, conf
    <2>. QED
      BY <2>1 DEF CountInv, Listed
  <1>3. CASE InverterInit \/ NoInverterSection
    <2>1. /\ packs' = packs /\ pool' = pool /\ pc = "inverter" /\ caller' = caller
          /\ pc' \in {"pack", "down", "run"} /\ (pc' = "pack" => nth' = 1)
      BY <1>3 DEF InverterInit, InverterAdd, NoInverterSection, Fails, conf
    <2>2. packs = <<>> /\ Len(packs) = 0
      BY <2>1 DEF CountInv
    <2>3. caller # "options"
      BY <2>1 DEF ControlInv
    <2>. QED
      BY <2>1, <2>2, <2>3 DEF CountInv, Listed
  <1>4. CASE PackInit
    <2>1. /\ nth \in Nat /\ nth <= L /\ pc = "pack" /\ pool' = pool /\ caller' = caller
          /\ Len(packs) <= (IF caller = "options" THEN L + nth ELSE nth - 1)
      BY <1>4, <1>0 DEF PackInit, PackAdd, Fails, ControlInv, CountInv
    <2>2. PICK d : \/ packs' = Append(packs, d) /\ nth' = nth + 1 /\ pc' = pc
                   \/ packs' = packs
      BY <1>4, PackAdded
    <2>3. \/ nth' = nth + 1 /\ pc' = pc
          \/ pc' \in {"down", "run"}
      BY <1>4 DEF PackInit, PackAdd, Fails
    <2>4. CASE packs' = Append(packs, d) /\ nth' = nth + 1 /\ pc' = pc
      <3>1. Len(packs') = Len(packs) + 1 /\ Listed'
        BY <2>4, AddsPack DEF CountInv
      <3>. HIDE DEF L
      <3>2. Len(packs') <= (IF caller = "options" THEN L + nth' ELSE nth' - 1) /\ Len(packs') <= 2 * L + 1
        BY <1>0, <2>1, <2>4, <3>1
      <3>. QED
        BY <2>1, <2>4, <3>1, <3>2 DEF CountInv, L
    <2>5. CASE packs' = packs
      <3>1. Listed'
        BY <2>5 DEF CountInv, Listed
      <3>2. CASE nth' = nth + 1 /\ pc' = pc
        <4>. HIDE DEF L
        <4>1. Len(packs') <= (IF caller = "options" THEN L + nth' ELSE nth' - 1) /\ Len(packs') <= 2 * L + 1
          BY <1>0, <2>1, <2>5, <3>2
        <4>. QED
          BY <2>1, <2>5, <3>1, <3>2, <4>1 DEF CountInv, L
      <3>3. CASE pc' \in {"down", "run"}
        BY <2>1, <2>5, <3>1, <3>3 DEF CountInv
      <3>. QED
        BY <2>3, <3>2, <3>3
    <2>. QED
      BY <2>2, <2>4, <2>5
  <1>5. CASE NoMorePacks
    <2>1. packs' = packs /\ pool' = pool /\ pc = "pack" /\ pc' = "pool" /\ caller' = caller
      BY <1>5 DEF NoMorePacks, conf
    <2>2. caller # "options" => Len(packs) <= L
      BY <1>0, <2>1 DEF CountInv, ControlInv
    <2>. QED
      BY <2>1, <2>2 DEF CountInv, Listed
  <1>6. CASE NoPacks \/ MakePool
    <2>1. /\ packs' = packs /\ pool' \in {pool, Len(packs)} /\ pc = "pool" /\ caller' = caller
          /\ pc' \in {"run", "write"} /\ (caller = "options" => pc' = "run")
      BY <1>6 DEF NoPacks, MakePool, PacksDone, conf
    <2>2. pool' \in 0..(2 * L + 1)
      BY <1>0, <2>1 DEF CountInv
    <2>. QED
      BY <2>1, <2>2 DEF CountInv, Listed
  <1>7. CASE NotDirty \/ WriteFails \/ Truncate \/ WriteOut \/ InverterOption \/ NoInverterOption
             \/ NoPackOption
    <2>1. /\ packs' = packs /\ pool' = pool /\ caller' = caller
          /\ pc \in {"write", "writing", "options", "packoption"}
          /\ pc' \in {"writing", "options", "packoption", "run"}
      BY <1>7 DEF NotDirty, WriteFails, Truncate, WriteOut, Return, InverterOption,
         NoInverterOption, NoPackOption, conf
    <2>. QED
      BY <2>1 DEF CountInv, Listed
  <1>8. CASE PackOption
    <2>1. /\ pool' = pool /\ caller' = "options" /\ pc = "packoption" /\ pc' = "pack" /\ nth' = 1
          /\ caller # "options"
      BY <1>8 DEF PackOption, ControlInv
    <2>2. Len(packs) <= L
      BY <2>1 DEF CountInv
    <2>3. PICK d : packs' = Append(packs, d) \/ packs' = packs
      BY <1>8, PackAdded
    <2>4. Listed' /\ (Len(packs') = Len(packs) + 1 \/ Len(packs') = Len(packs))
      <3>1. CASE packs' = packs
        BY <3>1 DEF CountInv, Listed
      <3>2. CASE packs' = Append(packs, d)
        BY <3>2, AddsPack DEF CountInv
      <3>. QED
        BY <2>3, <3>1, <3>2
    <2>. HIDE DEF L
    <2>5. Len(packs') <= L + nth' /\ Len(packs') <= 2 * L + 1
      BY <1>0, <2>1, <2>2, <2>4
    <2>. QED
      BY <2>1, <2>4, <2>5 DEF CountInv, L
  <1>9. CASE Edit \/ UNCHANGED vars
    <2>1. packs' = packs /\ pool' = pool /\ caller' = caller /\ pc' = pc /\ nth' = nth
      BY <1>9 DEF Edit, vars, conf, control
    <2>. QED
      BY <2>1 DEF CountInv, Listed
  <1>. QED
    BY <1>1, <1>2, <1>3, <1>4, <1>5, <1>6, <1>7, <1>8, <1>9 DEF Next, Program

DevicesInv == FlagInv /\ ModuleInv /\ DeviceInv /\ CountInv

LEMMA DevicesAlways == Spec => [](DevicesInv /\ MemoryInv /\ ControlInv)
  <1>1. Init => DevicesInv /\ MemoryInv /\ ControlInv
    <2>. SUFFICES ASSUME Init PROVE DevicesInv /\ MemoryInv /\ ControlInv
      OBVIOUS
    <2>1. FlagInv /\ ModuleInv /\ ControlInv /\ MemoryInv
      BY TypeInit, MemoryInit
    <2>2. DeviceInv
      BY DEF Init, DeviceInv
    <2>3. CountInv
      <3>1. packs = <<>> /\ pool = 0 /\ pc = "down" /\ Len(PackNames) \in Nat
        BY NamesCounted DEF Init
      <3>2. Listed /\ Len(packs) = 0
        BY <3>1, EmptyLists DEF Listed
      <3>. QED
        BY <3>1, <3>2 DEF CountInv
    <2>. QED
      BY <2>1, <2>2, <2>3 DEF DevicesInv
  <1>2. DevicesInv /\ MemoryInv /\ ControlInv /\ [Next]_vars => DevicesInv' /\ MemoryInv' /\ ControlInv'
    <2>. SUFFICES ASSUME DevicesInv, MemoryInv, ControlInv, [Next]_vars
                  PROVE  DevicesInv' /\ MemoryInv' /\ ControlInv'
      OBVIOUS
    <2>1. FlagInv' /\ ModuleInv' /\ CountInv' /\ MemoryInv' /\ ControlInv'
      BY FlagStep, ModuleStep, CountStep, MemoryStep, ControlStep DEF DevicesInv
    <2>2. DeviceInv'
      BY DeviceStep DEF DevicesInv, CountInv
    <2>. QED
      BY <2>1, <2>2 DEF DevicesInv
  <1>. QED
    BY <1>1, <1>2, PTL DEF Spec

\* Every device has a UUID of its own or the file's, every module is one that can be
\* linked, and -p at most doubles the packs, through any number of starts and re-reads.
THEOREM ConfTypeCorrect == Spec => []ConfTypeOK
  <1>1. DevicesInv /\ ControlInv => ConfTypeOK
    <2>. SUFFICES ASSUME DevicesInv, ControlInv PROVE ConfTypeOK
      OBVIOUS
    <2>1. \A i \in DOMAIN modules : modules[i][1] \in DOMAIN ModuleType
      <3>1. modules \in Seq(Entries)
        BY DEF DevicesInv, ModuleInv
      <3>2. \A i \in DOMAIN modules : modules[i] \in Entries
        BY <3>1
      <3>. QED
        BY <3>2 DEF Entries
    <2>2. /\ pc \in PCs /\ caller \in {"start", "reread", "options"}
          /\ nth \in 1..(Len(PackNames) + 1) /\ opts \in Options
      BY DEF ControlInv
    <2>3. /\ \A i \in DOMAIN packs : packs[i].uuid \in Uuids
          /\ inverter # NoInverter => inverter.uuid \in Uuids \cup {NoText}
      BY DEF DevicesInv, DeviceInv
    <2>4. pool \in 0..(2 * Len(PackNames) + 1) /\ caps \subseteq {"charge", "discharge"}
      BY DEF DevicesInv, CountInv, ModuleInv
    <2>5. dirty \in BOOLEAN /\ edited \in BOOLEAN /\ failed \in BOOLEAN /\ unsaved \in BOOLEAN
      BY DEF DevicesInv, FlagInv
    <2>. QED
      BY <2>1, <2>2, <2>3, <2>4, <2>5, Zenon DEF ConfTypeOK
  <1>. QED
    BY <1>1, DevicesAlways, PTL

-----------------------------------------------------------------------------
(* The UUIDs in use and the UUIDs on disk.                                 *)

Type(c, n) == cfg_get_item(c, Upper(n), "TYPE")
Uuid(c, n) == cfg_get_item(c, Upper(n), "UUID")

\* The first j numbers have sections with a type: pack_init goes through them.
Typed(c, j) == \A i \in 1..j : Type(c, PackNames[i]) # Null

\* From the reading of the file to its writing, what the devices have is what the
\* configuration says; if it is not dirty, the file says the same.
ReadingInv ==
    /\ pc \in {"inverter", "pack", "pool", "write", "writing"} /\ caller # "options" /\ opts.file
    => /\ cfg # NoCfg
       /\ \A i \in DOMAIN packs : packs[i].name \in Texts /\ Uuid(cfg, packs[i].name) = packs[i].uuid
       /\ pc = "pack" => /\ Typed(cfg, nth - 1)
                         /\ \A j \in 1..(nth - 1) : Uuid(cfg, PackNames[j]) \in Uuids
       /\ pc \in {"pool", "write", "writing"} =>
             \A j \in DOMAIN PackNames : Typed(cfg, j) => Uuid(cfg, PackNames[j]) \in Uuids
       /\ pc # "inverter" /\ Type(cfg, "inverter") # Null /\ inverter # NoInverter =>
             inverter.uuid \in Uuids /\ Uuid(cfg, "inverter") = inverter.uuid
       /\ ~dirty /\ ~edited =>
             \A s, k \in Uppers : Says(file, s, k) = cfg_get_item(cfg, s, k)

\* When the file has been written, or was as it should be, it says what the devices have,
\* and pack_init for -p finds a UUID for every section that has a type.
SavedInv ==
    /\ pc \in {"options", "packoption", "run"} \/ (pc \in {"pack", "pool"} /\ caller = "options")
    /\ opts.file /\ ~failed /\ ~unsaved /\ ~edited
    => /\ cfg # NoCfg
       /\ \A i \in DOMAIN packs :
             packs[i].name # "pack" => Says(file, Upper(packs[i].name), "UUID") = packs[i].uuid
       /\ \A j \in DOMAIN PackNames :
             Typed(cfg, j) => Says(file, Upper(PackNames[j]), "UUID") \in Uuids
       /\ \A s \in Uppers :
             Says(file, s, "UUID") \in Uuids => cfg_get_item(cfg, s, "UUID") = Says(file, s, "UUID")
       /\ ~opts.inverter /\ inverter # NoInverter /\ Says(file, "INVERTER", "TYPE") # Null =>
             Says(file, "INVERTER", "UUID") = inverter.uuid
       /\ pc = "pack" => Typed(cfg, nth - 1)

\* What Identify leaves as it is, and what it sets.
LEMMA IdentifiesKeeps ==
    ASSUME cfg # NoCfg, NEW name \in Texts, NEW u, Identifies(name, u)
    PROVE  /\ cfg' # NoCfg /\ u \in Uuids /\ Uuid(cfg', name) = u
           /\ \A n \in Texts : Type(cfg', n) = Type(cfg, n)
           /\ \A s \in Uppers :
                 cfg_get_item(cfg, s, "UUID") \in Uuids =>
                    cfg_get_item(cfg', s, "UUID") = cfg_get_item(cfg, s, "UUID")
           /\ \A n \in Texts : Uuid(cfg, n) \in Uuids => Uuid(cfg', n) = Uuid(cfg, n)
  <1>1. /\ cfg' # NoCfg /\ u \in Uuids
        /\ cfg_get_item(cfg, Upper(name), "UUID") \in {u, NoText, Null}
        /\ \A s, k \in Uppers :
              cfg_get_item(cfg', s, k) =
                  IF s = Upper(name) /\ k = "UUID" THEN u ELSE cfg_get_item(cfg, s, k)
    BY DEF Identifies
  <1>2. /\ \A n \in Texts : Upper(n) \in Uppers
        /\ "UUID" \in Uppers /\ "TYPE" \in Uppers /\ NoText \notin Uuids /\ Null \notin Uuids
    BY UpperIs, Names, UuidsAreTexts
  <1>3. Uuid(cfg', name) = u
    BY <1>1, <1>2 DEF Uuid
  <1>4. \A n \in Texts : Type(cfg', n) = Type(cfg, n)
    BY <1>1, <1>2 DEF Type
  <1>5. \A s \in Uppers : cfg_get_item(cfg, s, "UUID") \in Uuids =>
                    cfg_get_item(cfg', s, "UUID") = cfg_get_item(cfg, s, "UUID")
    BY <1>1, <1>2
  <1>6. \A n \in Texts : Uuid(cfg, n) \in Uuids => Uuid(cfg', n) = Uuid(cfg, n)
    BY <1>2, <1>5 DEF Uuid
  <1>. QED
    BY <1>1, <1>3, <1>4, <1>5, <1>6

LEMMA TypedKept ==
    ASSUME NEW c, NEW d, \A n \in Texts : Type(d, n) = Type(c, n), NEW j \in 0..Len(PackNames)
    PROVE  Typed(d, j) <=> Typed(c, j)
  <1>1. \A i \in 1..j : PackNames[i] \in Texts
    BY NamesCounted, Names
  <1>. QED
    BY <1>1 DEF Typed

\* The guards of the program look at "type" of the section.
LEMMA TypeIs ==
    ASSUME NEW c, NEW n \in Texts
    PROVE  cfg_get_item(c, n, "type") = Type(c, n)
  BY Names, ByUpper DEF Type

Reading == pc \in {"inverter", "pack", "pool", "write", "writing"} /\ caller # "options" /\ opts.file

LEMMA ReadingIdentify ==
    ASSUME ReadingInv, Reading, Reading', NEW name \in Texts, NEW u, Identifies(name, u),
           DeviceInv, UNCHANGED <<file, edited>>
    PROVE  /\ cfg' # NoCfg
           /\ \A i \in DOMAIN packs :
                 packs[i].name \in Texts /\ Uuid(cfg', packs[i].name) = packs[i].uuid
           /\ ~dirty' /\ ~edited' =>
                 \A s, k \in Uppers : Says(file', s, k) = cfg_get_item(cfg', s, k)
  <1>1. cfg # NoCfg
    BY DEF ReadingInv, Reading
  <1>2. cfg' # NoCfg /\ \A n \in Texts : Uuid(cfg, n) \in Uuids => Uuid(cfg', n) = Uuid(cfg, n)
    BY <1>1, IdentifiesKeeps
  <1>3. \A i \in DOMAIN packs :
            packs[i].name \in Texts /\ Uuid(cfg, packs[i].name) = packs[i].uuid /\ packs[i].uuid \in Uuids
    BY DEF ReadingInv, Reading, DeviceInv
  <1>4. ~dirty' => ~dirty /\ cfg' = cfg
    BY DEF Identifies
  <1>5. ~dirty /\ ~edited => \A s, k \in Uppers : Says(file, s, k) = cfg_get_item(cfg, s, k)
    BY DEF ReadingInv, Reading
  <1>. QED
    BY <1>2, <1>3, <1>4, <1>5

LEMMA ReadingInverter ==
    ASSUME ReadingInv, MemoryInv, ControlInv, DeviceInv, CountInv, InverterInit
    PROVE  ReadingInv'
  <1>. DEFINE d == Identified(ReadSection(Device("inverter")))
  <1>1. /\ pc = "inverter" /\ packs' = packs /\ file' = file /\ opts' = opts /\ caller' = caller
        /\ \/ inverter' = d /\ pc' = "pack" /\ nth' = 1 /\ edited' = edited
           \/ pc' \in {"down", "run"}
    BY Zenon DEF InverterInit, InverterAdd, Fails, At, history
  <1>2. CASE pc' \in {"down", "run"}
    BY <1>2 DEF ReadingInv
  <1>3. CASE ~(pc' \in {"down", "run"}) /\ Reading'
    <2>1. inverter' = d /\ pc' = "pack" /\ nth' = 1 /\ edited' = edited /\ Reading
      BY <1>1, <1>3 DEF Reading
    <2>2. Identifies("inverter", d.uuid) /\ "inverter" \in Texts
      BY DeviceIdentified, Names
    <2>. HIDE DEF d
    <2>3. /\ cfg' # NoCfg
          /\ \A i \in DOMAIN packs :
                packs[i].name \in Texts /\ Uuid(cfg', packs[i].name) = packs[i].uuid
          /\ ~dirty' /\ ~edited' =>
                \A s, k \in Uppers : Says(file', s, k) = cfg_get_item(cfg', s, k)
      BY <1>1, <1>3, <2>1, <2>2, ReadingIdentify
    <2>4. cfg # NoCfg
      BY <2>1 DEF ReadingInv, Reading
    <2>5. Uuid(cfg', "inverter") = d.uuid /\ d.uuid \in Uuids
      BY <2>2, <2>4, IdentifiesKeeps
    <2>6. Typed(cfg', 0) /\ 1..0 = {}
      BY DEF Typed
    <2>. QED
      BY <1>1, <2>1, <2>3, <2>5, <2>6 DEF ReadingInv
  <1>4. CASE ~Reading'
    BY <1>4 DEF ReadingInv, Reading
  <1>. QED
    BY <1>2, <1>3, <1>4

LEMMA ReadingPack ==
    ASSUME ReadingInv, MemoryInv, ControlInv, DeviceInv, CountInv, PackInit
    PROVE  ReadingInv'
  <1>. DEFINE name == PackNames[nth]
  <1>1. PICK d : /\ Identifies(name, d.uuid) /\ d.name = name
                 /\ \/ packs' = Append(packs, d) /\ nth' = nth + 1 /\ pc' = pc
                    \/ packs' = packs
    BY PackAdded
  <1>2. /\ pc = "pack" /\ file' = file /\ opts' = opts /\ caller' = caller /\ inverter' = inverter
        /\ nth \in 1..Len(PackNames) /\ Type(cfg, name) # Null /\ name \in Texts
        /\ \/ nth' = nth + 1 /\ pc' = "pack" /\ edited' = edited
           \/ pc' \in {"down", "run"}
    <2>1. /\ pc = "pack" /\ file' = file /\ opts' = opts /\ caller' = caller /\ inverter' = inverter
          /\ cfg_get_item(cfg, name, "type") # Null /\ nth <= Len(PackNames)
          /\ \/ nth' = nth + 1 /\ pc' = "pack" /\ edited' = edited
             \/ pc' \in {"down", "run"}
      BY DEF PackInit, PackAdd, Fails, At, history
    <2>2. nth \in 1..Len(PackNames) /\ name \in Texts
      BY <2>1, NamesCounted, Names DEF ControlInv
    <2>. HIDE DEF name
    <2>. QED
      BY <2>1, <2>2, TypeIs
  <1>. HIDE DEF name
  <1>3. CASE pc' \in {"down", "run"} \/ ~Reading'
    BY <1>3 DEF ReadingInv, Reading
  <1>4. CASE ~(pc' \in {"down", "run"}) /\ Reading'
    <2>1. nth' = nth + 1 /\ pc' = "pack" /\ edited' = edited /\ Reading
      BY <1>2, <1>4 DEF Reading
    <2>2. /\ cfg' # NoCfg
          /\ \A i \in DOMAIN packs :
                packs[i].name \in Texts /\ Uuid(cfg', packs[i].name) = packs[i].uuid
          /\ ~dirty' /\ ~edited' =>
                \A s, k \in Uppers : Says(file', s, k) = cfg_get_item(cfg', s, k)
      BY <1>1, <1>2, <1>4, <2>1, ReadingIdentify
    <2>3. cfg # NoCfg /\ Typed(cfg, nth - 1) /\ \A j \in 1..(nth - 1) : Uuid(cfg, PackNames[j]) \in Uuids
      BY <1>2, <2>1 DEF ReadingInv, Reading
    <2>4. /\ d.uuid \in Uuids /\ Uuid(cfg', name) = d.uuid
          /\ \A n \in Texts : Type(cfg', n) = Type(cfg, n)
          /\ \A n \in Texts : Uuid(cfg, n) \in Uuids => Uuid(cfg', n) = Uuid(cfg, n)
      BY <1>1, <1>2, <2>3, IdentifiesKeeps
    <2>5. \A i \in DOMAIN packs' :
              packs'[i].name \in Texts /\ Uuid(cfg', packs'[i].name) = packs'[i].uuid
      <3>1. CASE packs' = packs
        BY <2>2, <3>1
      <3>2. CASE packs' = Append(packs, d)
        <4>1. \A i \in DOMAIN packs' : packs'[i] = d \/ \E j \in DOMAIN packs : packs'[i] = packs[j]
          BY <3>2, AddsPack DEF CountInv
        <4>. QED
          BY <1>1, <1>2, <2>2, <2>4, <4>1
      <3>. QED
        BY <1>1, <3>1, <3>2
    <2>6. \A j \in 1..nth : PackNames[j] \in Texts
      BY <1>2, NamesCounted, Names
    <2>7. ASSUME NEW j \in 1..nth
          PROVE  Type(cfg', PackNames[j]) # Null /\ Uuid(cfg', PackNames[j]) \in Uuids
      <3>1. CASE j = nth
        BY <1>2, <2>4, <3>1 DEF name
      <3>2. CASE j # nth
        <4>1. j \in 1..(nth - 1)
          BY <1>2, <3>2
        <4>2. Type(cfg, PackNames[j]) # Null /\ Uuid(cfg, PackNames[j]) \in Uuids
          BY <2>3, <4>1 DEF Typed
        <4>. QED
          BY <2>4, <2>6, <4>2
      <3>. QED
        BY <3>1, <3>2
    <2>8. nth' - 1 = nth
      BY <1>2, <2>1
    <2>9. Typed(cfg', nth' - 1) /\ \A j \in 1..(nth' - 1) : Uuid(cfg', PackNames[j]) \in Uuids
      BY <2>7, <2>8 DEF Typed
    <2>10. Type(cfg', "inverter") # Null /\ inverter' # NoInverter =>
               inverter'.uuid \in Uuids /\ Uuid(cfg', "inverter") = inverter'.uuid
      <3>1. "inverter" \in Texts
        BY Names
      <3>2. Type(cfg, "inverter") # Null /\ inverter # NoInverter =>
                inverter.uuid \in Uuids /\ Uuid(cfg, "inverter") = inverter.uuid
        BY <1>2, <2>1 DEF ReadingInv, Reading
      <3>. QED
        BY <1>2, <2>4, <3>1, <3>2
    <2>. QED
      BY <2>1, <2>2, <2>5, <2>9, <2>10 DEF ReadingInv
  <1>. QED
    BY <1>3, <1>4

LEMMA ReadingNoMore ==
    ASSUME ReadingInv, ControlInv, NoMorePacks
    PROVE  ReadingInv'
  <1>1. /\ pc = "pack" /\ pc' = "pool" /\ file' = file /\ opts' = opts /\ caller' = caller
        /\ inverter' = inverter /\ packs' = packs /\ cfg' = cfg /\ dirty' = dirty /\ edited' = edited
        /\ (nth <= Len(PackNames) => cfg_get_item(cfg, PackNames[nth], "type") = Null)
    BY DEF NoMorePacks, Goto, At, conf, history
  <1>2. nth \in 1..(Len(PackNames) + 1) /\ Len(PackNames) \in Nat /\ DOMAIN PackNames = 1..Len(PackNames)
    BY NamesCounted DEF ControlInv
  <1>3. CASE ~Reading
    BY <1>1, <1>3 DEF ReadingInv, Reading
  <1>4. CASE Reading
    <2>1. \A j \in 1..(nth - 1) : Uuid(cfg, PackNames[j]) \in Uuids
      BY <1>1, <1>4 DEF ReadingInv, Reading
    <2>2. nth <= Len(PackNames) => Type(cfg, PackNames[nth]) = Null
      <3>. SUFFICES ASSUME nth <= Len(PackNames) PROVE Type(cfg, PackNames[nth]) = Null
        OBVIOUS
      <3>1. PackNames[nth] \in Texts
        BY <1>2, Names
      <3>. QED
        BY <1>1, <3>1, TypeIs
    <2>3. ASSUME NEW j \in DOMAIN PackNames, Typed(cfg, j) PROVE Uuid(cfg, PackNames[j]) \in Uuids
      <3>1. j < nth
        <4>. SUFFICES ASSUME nth <= j PROVE FALSE
          BY <1>2
        <4>1. nth \in 1..j /\ nth <= Len(PackNames)
          BY <1>2
        <4>. QED
          BY <2>2, <2>3, <4>1 DEF Typed
      <3>2. j \in 1..(nth - 1)
        BY <1>2, <3>1
      <3>. QED
        BY <2>1, <3>2
    <2>. QED
      BY <1>1, <1>4, <2>3 DEF ReadingInv, Reading
  <1>. QED
    BY <1>3, <1>4

LEMMA ReadingStep ==
    ASSUME ReadingInv, MemoryInv, ControlInv, DeviceInv, CountInv, [Next]_vars
    PROVE  ReadingInv'
  <1>. USE DEF At, Goto
  <1>1. CASE Start \/ Reread \/ Crash \/ ReadFails
    <2>1. pc' \in {"read", "down", "run"}
      BY <1>1 DEF Start, Reread, Crash, ReadFails, Fails
    <2>. QED
      BY <2>1 DEF ReadingInv
  <1>2. CASE ReadFile
    <2>1. /\ cfg' = cfg_read(file) /\ file' = file /\ packs' = packs /\ pc' = "inverter"
          /\ packs = <<>> /\ file \in Seq(KnownLines)
      BY <1>2 DEF ReadFile, CountInv, MemoryInv, conf
    <2>2. /\ cfg' # NoCfg
          /\ \A s, k \in Uppers : Says(file', s, k) = cfg_get_item(cfg', s, k)
      BY <2>1, ReadKnown
    <2>3. DOMAIN packs' = {}
      BY <2>1
    <2>. QED
      BY <2>1, <2>2, <2>3 DEF ReadingInv
  <1>3. CASE ReadNothing
    <2>1. ~opts.file /\ opts' = opts
      BY <1>3 DEF ReadNothing
    <2>. QED
      BY <2>1 DEF ReadingInv
  <1>4. CASE InverterInit
    BY <1>4, ReadingInverter
  <1>5. CASE PackInit
    BY <1>5, ReadingPack
  <1>6. CASE NoMorePacks
    BY <1>6, ReadingNoMore
  <1>7. CASE NoInverterSection
    <2>1. /\ pc = "inverter" /\ pc' = "pack" /\ nth' = 1 /\ cfg' = cfg /\ packs' = packs
          /\ caller' = caller /\ opts' = opts /\ file' = file /\ dirty' = dirty /\ edited' = edited
          /\ cfg_get_item(cfg, "inverter", "type") = Null
      BY <1>7 DEF NoInverterSection, conf, history
    <2>2. Type(cfg, "inverter") = Null
      BY <2>1, Names, TypeIs
    <2>3. Typed(cfg, 0) /\ 1..0 = {}
      BY DEF Typed
    <2>. QED
      BY <2>1, <2>2, <2>3 DEF ReadingInv
  <1>8. CASE NoPacks \/ MakePool
    <2>1. /\ pc = "pool" /\ pc' \in {"write", "run"} /\ cfg' = cfg /\ packs' = packs
          /\ caller' = caller /\ opts' = opts /\ file' = file /\ dirty' = dirty /\ edited' = edited
          /\ inverter' = inverter
      BY <1>8 DEF NoPacks, MakePool, PacksDone, conf, history
    <2>. QED
      BY <2>1 DEF ReadingInv
  <1>9. CASE Truncate
    <2>1. /\ pc = "write" /\ pc' = "writing" /\ cfg' = cfg /\ packs' = packs
          /\ caller' = caller /\ opts' = opts /\ dirty' = dirty /\ dirty
          /\ inverter' = inverter
      BY <1>9 DEF Truncate, conf
    <2>. QED
      BY <2>1 DEF ReadingInv
  <1>10. CASE NotDirty \/ WriteFails \/ WriteOut \/ InverterOption \/ NoInverterOption \/ NoPackOption
    <2>1. pc' \in {"options", "run", "packoption"}
      BY <1>10 DEF NotDirty, WriteFails, WriteOut, InverterOption, NoInverterOption, NoPackOption, Return
    <2>. QED
      BY <2>1 DEF ReadingInv
  <1>11. CASE PackOption
    <2>1. caller' = "options"
      BY <1>11 DEF PackOption
    <2>. QED
      BY <2>1 DEF ReadingInv
  <1>12. CASE Edit
    <2>1. /\ pc' = pc /\ cfg' = cfg /\ packs' = packs /\ caller' = caller /\ opts' = opts /\ edited'
          /\ inverter' = inverter /\ nth' = nth
      BY <1>12 DEF Edit, control, conf
    <2>. QED
      BY <2>1 DEF ReadingInv
  <1>13. CASE UNCHANGED vars
    BY <1>13 DEF ReadingInv, vars, control, conf, history
  <1>. QED
    BY <1>1, <1>2, <1>3, <1>4, <1>5, <1>6, <1>7, <1>8, <1>9, <1>10, <1>11, <1>12, <1>13
    DEF Next, Program

SavedPhase ==
    pc \in {"options", "packoption", "run"} \/ (pc \in {"pack", "pool"} /\ caller = "options")

Clean == opts.file /\ ~failed /\ ~unsaved /\ ~edited

\* What does not depend on the stage.
OnDisk ==
    /\ cfg # NoCfg
    /\ \A i \in DOMAIN packs :
          packs[i].name # "pack" => Says(file, Upper(packs[i].name), "UUID") = packs[i].uuid
    /\ \A j \in DOMAIN PackNames :
          Typed(cfg, j) => Says(file, Upper(PackNames[j]), "UUID") \in Uuids
    /\ \A s \in Uppers :
          Says(file, s, "UUID") \in Uuids => cfg_get_item(cfg, s, "UUID") = Says(file, s, "UUID")
    /\ ~opts.inverter /\ inverter # NoInverter /\ Says(file, "INVERTER", "TYPE") # Null =>
          Says(file, "INVERTER", "UUID") = inverter.uuid

LEMMA SavedIs == SavedInv <=> (SavedPhase /\ Clean => OnDisk /\ (pc = "pack" => Typed(cfg, nth - 1)))
  BY DEF SavedInv, SavedPhase, Clean, OnDisk

\* When the file says what the configuration does, at the end of read_config.
LEMMA WrittenOnDisk ==
    ASSUME ReadingInv, pc \in {"write", "writing"}, caller # "options", opts.file,
           \A s, k \in Uppers : Says(file', s, k) = cfg_get_item(cfg, s, k),
           cfg' = cfg, packs' = packs, inverter' = inverter, opts' = opts
    PROVE  OnDisk'
  <1>1. /\ cfg # NoCfg
        /\ \A i \in DOMAIN packs : packs[i].name \in Texts /\ Uuid(cfg, packs[i].name) = packs[i].uuid
        /\ \A j \in DOMAIN PackNames : Typed(cfg, j) => Uuid(cfg, PackNames[j]) \in Uuids
        /\ Type(cfg, "inverter") # Null /\ inverter # NoInverter => Uuid(cfg, "inverter") = inverter.uuid
    BY DEF ReadingInv
  <1>2. /\ \A n \in Texts : Upper(n) \in Uppers
        /\ "UUID" \in Uppers /\ "TYPE" \in Uppers /\ "INVERTER" \in Uppers
        /\ Upper("inverter") = "INVERTER" /\ \A j \in DOMAIN PackNames : PackNames[j] \in Texts
    BY UpperIs, Names
  <1>3. \A n \in Texts : Says(file', Upper(n), "UUID") = Uuid(cfg, n)
    BY <1>2 DEF Uuid
  <1>4. Says(file', "INVERTER", "UUID") = Uuid(cfg, "inverter")
        /\ Says(file', "INVERTER", "TYPE") = Type(cfg, "inverter")
    BY <1>2 DEF Uuid, Type
  <1>5. \A s \in Uppers : Says(file', s, "UUID") = cfg_get_item(cfg, s, "UUID")
    BY <1>2
  <1>6. \A i \in DOMAIN packs : Says(file', Upper(packs[i].name), "UUID") = packs[i].uuid
    BY <1>1, <1>3
  <1>7. \A j \in DOMAIN PackNames : Typed(cfg, j) => Says(file', Upper(PackNames[j]), "UUID") \in Uuids
    BY <1>1, <1>2, <1>3
  <1>. QED
    BY <1>1, <1>4, <1>5, <1>6, <1>7 DEF OnDisk

\* A device that gets a UUID in memory is not one that has one on disk.
LEMMA IdentifyOnDisk ==
    ASSUME OnDisk, NEW name \in Texts, NEW d, Identifies(name, d.uuid), d.name = name,
           UNCHANGED <<file, inverter, opts>>, CountInv,
           name # "pack" => Says(file, Upper(name), "UUID") \in Uuids,
           packs' = Append(packs, d) \/ packs' = packs
    PROVE  OnDisk' /\ \A j \in 0..Len(PackNames) : Typed(cfg', j) <=> Typed(cfg, j)
  <1>1. cfg # NoCfg
    BY DEF OnDisk
  <1>2. /\ cfg' # NoCfg /\ d.uuid \in Uuids
        /\ \A n \in Texts : Type(cfg', n) = Type(cfg, n)
        /\ \A s \in Uppers :
              cfg_get_item(cfg, s, "UUID") \in Uuids =>
                 cfg_get_item(cfg', s, "UUID") = cfg_get_item(cfg, s, "UUID")
    BY <1>1, IdentifiesKeeps
  <1>3. \A s \in Uppers :
            Says(file, s, "UUID") \in Uuids =>
               /\ cfg_get_item(cfg, s, "UUID") = Says(file, s, "UUID")
               /\ cfg_get_item(cfg', s, "UUID") = Says(file, s, "UUID")
    BY <1>2 DEF OnDisk
  <1>4. name # "pack" => Says(file, Upper(name), "UUID") = d.uuid
    <2>1. Upper(name) \in Uppers /\ NoText \notin Uuids /\ Null \notin Uuids
      BY UpperIs, UuidsAreTexts
    <2>2. cfg_get_item(cfg, Upper(name), "UUID") \in {d.uuid, NoText, Null}
      BY <1>1 DEF Identifies
    <2>. QED
      BY <1>3, <2>1, <2>2
  <1>5. \A i \in DOMAIN packs' : packs'[i] = d \/ \E j \in DOMAIN packs : packs'[i] = packs[j]
    <2>1. CASE packs' = packs
      BY <2>1
    <2>2. CASE packs' = Append(packs, d)
      BY <2>2, AddsPack DEF CountInv
    <2>. QED
      BY <2>1, <2>2
  <1>6. \A i \in DOMAIN packs' :
            packs'[i].name # "pack" => Says(file, Upper(packs'[i].name), "UUID") = packs'[i].uuid
    BY <1>4, <1>5 DEF OnDisk
  <1>7. \A j \in 0..Len(PackNames) : Typed(cfg', j) <=> Typed(cfg, j)
    BY <1>2, TypedKept
  <1>8. \A j \in DOMAIN PackNames : Typed(cfg', j) => Says(file, Upper(PackNames[j]), "UUID") \in Uuids
    <2>1. \A j \in DOMAIN PackNames : j \in 0..Len(PackNames)
      BY NamesCounted
    <2>. QED
      BY <1>7, <2>1 DEF OnDisk
  <1>9. /\ \A s \in Uppers :
              Says(file, s, "UUID") \in Uuids => cfg_get_item(cfg', s, "UUID") = Says(file, s, "UUID")
        /\ ~opts.inverter /\ inverter # NoInverter /\ Says(file, "INVERTER", "TYPE") # Null =>
              Says(file, "INVERTER", "UUID") = inverter.uuid
    BY <1>3 DEF OnDisk
  <1>10. OnDisk'
    BY <1>2, <1>6, <1>8, <1>9 DEF OnDisk
  <1>. QED
    BY <1>7, <1>10

LEMMA SavedPack ==
    ASSUME SavedInv, MemoryInv, ControlInv, CountInv, PackInit
    PROVE  SavedInv'
  <1>. DEFINE name == PackNames[nth]
  <1>1. PICK d : /\ Identifies(name, d.uuid) /\ d.name = name
                 /\ packs' = Append(packs, d) \/ packs' = packs
    BY PackAdded
  <1>2. /\ pc = "pack" /\ UNCHANGED <<file, inverter, opts, caller>>
        /\ nth \in 1..Len(PackNames) /\ Type(cfg, name) # Null /\ name \in Texts
        /\ \/ nth' = nth + 1 /\ pc' = "pack" /\ UNCHANGED <<edited, failed, unsaved>>
           \/ failed'
    <2>1. /\ pc = "pack" /\ UNCHANGED <<file, inverter, opts, caller>>
          /\ cfg_get_item(cfg, name, "type") # Null /\ nth <= Len(PackNames)
          /\ \/ nth' = nth + 1 /\ pc' = "pack" /\ UNCHANGED <<edited, failed, unsaved>>
             \/ failed'
      BY DEF PackInit, PackAdd, Fails, At, history
    <2>2. nth \in 1..Len(PackNames) /\ name \in Texts
      BY <2>1, NamesCounted, Names DEF ControlInv
    <2>. HIDE DEF name
    <2>. QED
      BY <2>1, <2>2, TypeIs
  <1>. SUFFICES ASSUME SavedPhase', Clean'
                PROVE  OnDisk' /\ (pc' = "pack" => Typed(cfg', nth' - 1))
    BY DEF SavedInv, SavedPhase, Clean, OnDisk
  <1>3. nth' = nth + 1 /\ pc' = "pack" /\ UNCHANGED <<edited, failed, unsaved>> /\ SavedPhase /\ Clean
    BY <1>2 DEF SavedPhase, Clean
  <1>4. OnDisk /\ Typed(cfg, nth - 1)
    BY <1>2, <1>3, SavedIs
  <1>5. Typed(cfg, nth)
    <2>1. \A i \in 1..nth : i \in 1..(nth - 1) \/ i = nth
      BY <1>2
    <2>. QED
      BY <1>2, <1>4, <2>1 DEF Typed
  <1>6. Says(file, Upper(name), "UUID") \in Uuids
    BY <1>2, <1>4, <1>5, NamesCounted DEF OnDisk
  <1>. HIDE DEF name
  <1>7. OnDisk' /\ \A j \in 0..Len(PackNames) : Typed(cfg', j) <=> Typed(cfg, j)
    BY <1>1, <1>2, <1>4, <1>6, IdentifyOnDisk
  <1>8. nth \in 0..Len(PackNames) /\ nth' - 1 = nth
    BY <1>2, <1>3, NamesCounted
  <1>. QED
    BY <1>5, <1>7, <1>8

LEMMA SavedPackOption ==
    ASSUME SavedInv, MemoryInv, ControlInv, CountInv, PackOption
    PROVE  SavedInv'
  <1>1. PICK d : /\ Identifies("pack", d.uuid) /\ d.name = "pack"
                 /\ packs' = Append(packs, d) \/ packs' = packs
    BY PackAdded
  <1>2. /\ pc = "packoption" /\ UNCHANGED <<file, inverter, opts, edited, failed, unsaved>>
        /\ nth' = 1 /\ "pack" \in Texts
    BY Names DEF PackOption, At, history
  <1>. SUFFICES ASSUME Clean'
                PROVE  OnDisk' /\ (pc' = "pack" => Typed(cfg', nth' - 1))
    BY DEF SavedInv, SavedPhase, Clean, OnDisk
  <1>3. SavedPhase /\ Clean
    BY <1>2 DEF SavedPhase, Clean
  <1>4. OnDisk
    BY <1>3, SavedIs
  <1>5. OnDisk'
    BY <1>1, <1>2, <1>4, IdentifyOnDisk
  <1>6. Typed(cfg', 0) /\ nth' - 1 = 0
    BY <1>2 DEF Typed
  <1>. QED
    BY <1>5, <1>6

LEMMA SavedStep ==
    ASSUME SavedInv, ReadingInv, MemoryInv, ControlInv, CountInv, [Next]_vars
    PROVE  SavedInv'
  <1>. USE DEF At, Goto
  <1>1. CASE \/ Start \/ Reread \/ Crash \/ ReadFile \/ ReadNothing \/ Truncate
    <2>1. pc' \in {"read", "down", "inverter", "writing"}
      BY <1>1 DEF Start, Reread, Crash, ReadFile, ReadNothing, Truncate
    <2>. QED
      BY <2>1 DEF SavedInv
  <1>2. CASE ReadFails
    <2>1. failed'
      BY <1>2 DEF ReadFails, Fails
    <2>. QED
      BY <2>1 DEF SavedInv
  <1>3. CASE InverterInit \/ NoInverterSection
    <2>1. failed' \/ (pc' = "pack" /\ caller' = caller /\ pc = "inverter")
      BY <1>3 DEF InverterInit, InverterAdd, NoInverterSection, Fails
    <2>2. failed' \/ (pc' = "pack" /\ caller' # "options")
      BY <2>1 DEF ControlInv
    <2>. QED
      BY <2>2 DEF SavedInv
  <1>4. CASE PackInit
    BY <1>4, SavedPack
  <1>5. CASE PackOption
    BY <1>5, SavedPackOption
  <1>6. CASE NoMorePacks \/ NoPacks \/ MakePool
    <2>1. /\ pc \in {"pack", "pool"} /\ pc' \in {"pool", "run", "write"} /\ caller' = caller
          /\ (pc' = "run" => caller = "options")
          /\ UNCHANGED <<file, cfg, packs, inverter, opts, edited, failed, unsaved>>
      BY <1>6 DEF NoMorePacks, NoPacks, MakePool, PacksDone, conf, history
    <2>. QED
      BY <2>1 DEF SavedInv
  <1>7. CASE NotDirty
    <2>1. /\ pc = "write" /\ ~dirty /\ pc' \in {"options", "run"}
          /\ UNCHANGED <<file, cfg, packs, inverter, opts, caller, edited, unsaved>>
      BY <1>7 DEF NotDirty, Return, Succeeds, conf
    <2>. SUFFICES ASSUME Clean' PROVE OnDisk'
      BY <2>1 DEF SavedInv, Clean, OnDisk
    <2>2. opts.file /\ ~edited /\ caller # "options"
      BY <2>1 DEF Clean, ControlInv
    <2>3. \A s, k \in Uppers : Says(file', s, k) = cfg_get_item(cfg, s, k)
      BY <2>1, <2>2 DEF ReadingInv
    <2>. QED
      BY <2>1, <2>2, <2>3, WrittenOnDisk
  <1>8. CASE WriteFails
    <2>1. unsaved'
      BY <1>8 DEF WriteFails
    <2>. QED
      BY <2>1 DEF SavedInv
  <1>9. CASE WriteOut
    <2>1. /\ pc = "writing" /\ pc' \in {"options", "run"}
          /\ UNCHANGED <<cfg, packs, inverter, opts, caller>>
      BY <1>9 DEF WriteOut, Return, Succeeds, conf
    <2>. SUFFICES ASSUME Clean' PROVE OnDisk'
      BY <2>1 DEF SavedInv, Clean, OnDisk
    <2>2. file' = cfg_write(cfg)
      BY <2>1, AllWritten DEF Clean
    <2>3. opts.file /\ caller # "options"
      BY <2>1 DEF Clean, ControlInv
    <2>4. \A s, k \in Uppers : Says(file', s, k) = cfg_get_item(cfg, s, k)
      BY <2>1, <2>2, WrittenCounted, WrittenSays
    <2>. QED
      BY <2>1, <2>3, <2>4, WrittenOnDisk
  <1>10. CASE InverterOption
    <2>1. /\ pc = "options" /\ pc' = "packoption" /\ opts.inverter
          /\ UNCHANGED <<file, cfg, packs, opts, edited, failed, unsaved>>
      BY <1>10 DEF InverterOption, InverterAdd, history
    <2>. QED
      BY <2>1 DEF SavedInv
  <1>11. CASE NoInverterOption \/ NoPackOption
    <2>1. /\ pc \in {"options", "packoption"} /\ pc' \in {"packoption", "run"}
          /\ UNCHANGED <<file, cfg, packs, inverter, opts, edited, failed, unsaved>>
      BY <1>11 DEF NoInverterOption, NoPackOption, conf, history
    <2>. QED
      BY <2>1 DEF SavedInv
  <1>12. CASE Edit
    <2>1. edited'
      BY <1>12 DEF Edit
    <2>. QED
      BY <2>1 DEF SavedInv
  <1>13. CASE UNCHANGED vars
    BY <1>13 DEF SavedInv, vars, control, conf, history
  <1>. QED
    BY <1>1, <1>2, <1>3, <1>4, <1>5, <1>6, <1>7, <1>8, <1>9, <1>10, <1>11, <1>12, <1>13
    DEF Next, Program

\* The UUID that a device of the file has in memory is the one on disk, where the next
\* start finds it, whenever the last read and write of the file have gone through.
THEOREM UuidsSaved == Spec => []UuidsAreSaved
  <1>1. Init => SavedInv /\ ReadingInv
    BY DEF Init, SavedInv, ReadingInv
  <1>2. /\ SavedInv /\ ReadingInv /\ DevicesInv /\ MemoryInv /\ ControlInv /\ [Next]_vars
        => SavedInv' /\ ReadingInv'
    BY SavedStep, ReadingStep DEF DevicesInv
  <1>3. SavedInv => UuidsAreSaved
    BY DEF SavedInv, UuidsAreSaved
  <1>. QED
    BY <1>1, <1>2, <1>3, DevicesAlways, PTL DEF Spec

==============================================================================
