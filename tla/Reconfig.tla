------------------------------- MODULE Reconfig -------------------------------
(***************************************************************************)
(* From the configuration file to the lists that the control loop works    *)
(* with, at the start (init of main.c, get_config) and at every re-read    *)
(* (reconfig): read_config of config.c with inverter_init, pack_init and   *)
(* the module loader, one action for each stage; the operator who edits    *)
(* the file, and the daemon that ends and starts again at any point.       *)
(*                                                                         *)
(* What the values of the file do to the charge is in ControlLoop; a pack  *)
(* here is what pack_add makes of its section.                             *)
(***************************************************************************)
EXTENDS CfgFile

CONSTANTS
    Files,          \* what the operator may save
    Options,        \* the command lines: [file, inverter, pack : BOOLEAN]
    ModuleType,     \* the modules that can be linked, to their types
    Controls,       \* the types of packs that have charge and discharge control
    Uuids,          \* enough of them that one is always unused
    PackNames,      \* <<"pack_01", "pack_02", ...>>: MYBMM_MAX_PACKS of them
    NoInverter      \* the null pointer

\* A device of the file has a UUID that is known here, or none.
KnownLines ==
    {l \in Lines : l.is = "item" => (Upper(l.name) = "UUID" => l.value \in Uuids \cup {NoText})}

ReconfigAssumption ==
    /\ Files # {}
    /\ Options \subseteq [file : BOOLEAN, inverter : BOOLEAN, pack : BOOLEAN]
    /\ Controls \subseteq DOMAIN ModuleType
    /\ Uuids # {} /\ Uuids \subseteq Texts \ {NoText}
    /\ PackNames \in Seq(Texts) /\ IsInjective(PackNames)
    /\ Files \subseteq Seq(KnownLines)
    /\ Upper("type") = "TYPE" /\ Upper("uuid") = "UUID"
    /\ Upper("inverter") = "INVERTER" /\ Upper("pack") = "PACK"

ASSUME ReconfigAssumption

VARIABLES
    file,       \* the lines on disk
    pc,         \* the stage the main thread is in; "down": there is no daemon
    caller,     \* of read_config: "start" or "reread"; of pack_init: "options" too
    nth,        \* pack_init: the number of the section it looks at
    opts,       \* the command line
    cfg,        \* conf->cfg
    modules,    \* conf->modules: <<name, type>>
    packs,      \* conf->packs
    pool,       \* the slots of conf->pack_pool; 0: none
    inverter,   \* conf->inverter
    dirty,      \* MYBMM_CONFIG_DIRTY
    caps,       \* conf->capabilities
    source,     \* the lines that this read_config has read (history)
    edited,     \* the operator has saved the file since (history)
    failed,     \* the last read_config or pack_init returned 1 (history)
    unsaved     \* cfg_write failed since the last read (history)

conf    == <<modules, packs, pool, inverter, caps>>
control == <<pc, caller, nth, opts>>
history == <<source, edited, failed, unsaved>>
vars    == <<file, control, cfg, conf, dirty, history>>

Init ==
    /\ file \in Files /\ pc = "down" /\ opts \in Options
    /\ modules = <<>> /\ packs = <<>> /\ pool = 0 /\ inverter = NoInverter /\ caps = {}
    /\ cfg = NoCfg /\ dirty = FALSE /\ caller = "start" /\ nth = 1
    /\ source = <<>> /\ edited = FALSE /\ failed = FALSE /\ unsaved = FALSE

\* Nothing in memory outlives the daemon.
Forget ==
    /\ modules' = <<>> /\ packs' = <<>> /\ pool' = 0 /\ inverter' = NoInverter /\ caps' = {}
    /\ cfg' = NoCfg /\ dirty' = FALSE /\ caller' = "start" /\ nth' = 1
    /\ source' = <<>> /\ edited' = FALSE /\ failed' = FALSE /\ unsaved' = FALSE

PCs == {"down", "read", "inverter", "pack", "pool", "write", "writing", "options", "packoption",
        "run"}

ConfTypeOK ==
    /\ pc \in PCs /\ caller \in {"start", "reread", "options"}
    /\ nth \in 1..(Len(PackNames) + 1) /\ opts \in Options
    /\ \A i \in DOMAIN modules : modules[i][1] \in DOMAIN ModuleType
    /\ \A i \in DOMAIN packs : packs[i].uuid \in Uuids
    /\ pool \in 0..(2 * Len(PackNames) + 1)
    /\ inverter # NoInverter => inverter.uuid \in Uuids \cup {NoText}
    /\ dirty \in BOOLEAN /\ caps \subseteq {"charge", "discharge"}
    /\ edited \in BOOLEAN /\ failed \in BOOLEAN /\ unsaved \in BOOLEAN

At(here) == pc = here

Goto(there) == pc' = there /\ UNCHANGED <<caller, nth, opts>>

-----------------------------------------------------------------------------
(* The module loader (module.c) and the devices of the file.               *)

\* mybmm_load_module: found in the list, or looked up among the program's symbols,
\* whatever its type, and put there.
Load(list, name, type) ==
    IF Contains(list, <<name, type>>) THEN list ELSE Append(list, <<name, ModuleType[name]>>)

Linked(name) == name \in DOMAIN ModuleType

\* The transport first, then the device's own module.
LoadBoth(d, type) ==
    IF ~Linked(d.transport) THEN modules
    ELSE LET with == Load(modules, d.transport, "transport")
         IN  IF Linked(d.type) THEN Load(with, d.type, type) ELSE with

BothLinked(d) == Linked(d.transport) /\ Linked(d.type)

\* What the section of a device says, over what was known of it.
ReadSection(old) ==
    [name      |-> old.name,
     type      |-> cfg_get_tab(cfg, old.name, "type", old.type),
     transport |-> cfg_get_tab(cfg, old.name, "transport", old.transport),
     uuid      |-> cfg_get_tab(cfg, old.name, "uuid", old.uuid)]

Device(name) == [name |-> name, type |-> NoText, transport |-> NoText, uuid |-> NoText]

InUse ==
    {packs[i].uuid : i \in DOMAIN packs}
    \cup (IF inverter = NoInverter THEN {} ELSE {inverter.uuid})
    \cup {file[i].value : i \in {j \in DOMAIN file : file[j].is = "item"}}
    \cup {source[i].value : i \in {j \in DOMAIN source : source[j].is = "item"}}
    \cup (IF cfg = NoCfg THEN {} ELSE {cfg_get_item(cfg, s, "UUID") :
              s \in {cfg[x].name : x \in DOMAIN cfg}})

uuid_generate_random == CHOOSE u \in Uuids : u \notin InUse \/ Uuids \subseteq InUse

\* Mutant: the UUID is not copied to the device.
IdentifiedNot(d) == d

\* A device without a UUID is given one ...
Identified(d) == IF d.uuid = NoText THEN [d EXCEPT !.uuid = uuid_generate_random] ELSE d

\* Mutant: the configuration is not marked as changed.
IdentifyQuietly(d) ==
    /\ cfg' = IF d.uuid = NoText THEN cfg_set_item(cfg, d.name, "uuid", Identified(d).uuid)
              ELSE cfg
    /\ dirty' = dirty

\* ... in the configuration as well, which is then to be written.
Identify(d) ==
    /\ cfg' = IF d.uuid = NoText THEN cfg_set_item(cfg, d.name, "uuid", Identified(d).uuid)
              ELSE cfg
    /\ dirty' = (dirty \/ d.uuid = NoText)

\* read_config or pack_init returns 1: get_config gives up, the others go on.
Fails ==
    /\ pc' = IF caller = "start" THEN "down" ELSE "run"
    /\ failed' = TRUE
    /\ source' = <<>>
    /\ UNCHANGED <<caller, nth, opts, edited, unsaved>>

-----------------------------------------------------------------------------
(* read_config.                                                            *)

\* get_config, with the memory that calloc has cleared.
Start ==
    /\ At("down") /\ pc' = "read"
    /\ opts' \in Options
    /\ Forget
    /\ UNCHANGED file

\* Mutant: the packs of the last read stay in their list.
RereadKeeps ==
    /\ At("run") /\ pc' = "read"
    /\ caller' = "reread"
    /\ modules' = <<>>
    /\ cfg' = NoCfg
    /\ UNCHANGED <<file, nth, opts, packs, pool, inverter, caps, dirty, history>>

\* reconfig with lists that are destroyed: the pool, the inverter, the capabilities
\* and what is dirty are not touched.
Reread ==
    /\ At("run") /\ pc' = "read"
    /\ caller' = "reread"
    /\ modules' = <<>> /\ packs' = <<>>
    /\ cfg' = NoCfg
    /\ UNCHANGED <<file, nth, opts, pool, inverter, caps, dirty, history>>

ReadFile ==
    /\ At("read") /\ opts.file
    /\ cfg' = cfg_read(file)
    /\ source' = file /\ edited' = FALSE /\ unsaved' = FALSE
    /\ Goto("inverter")
    /\ UNCHANGED <<file, conf, dirty, failed>>

\* The file cannot be opened.
ReadFails ==
    /\ At("read") /\ opts.file
    /\ cfg' = NoCfg
    /\ Fails
    /\ UNCHANGED <<file, conf, dirty>>

ReadNothing ==
    /\ At("read") /\ ~opts.file
    /\ Goto("inverter")
    /\ UNCHANGED <<file, cfg, conf, dirty, history>>

\* inverter_add: a module is unknown or its new() returns null, or all goes well.
InverterAdd(d, Then, Otherwise) ==
    /\ modules' = LoadBoth(d, "inverter")
    /\ \/ BothLinked(d) /\ inverter' = d /\ Then
       \/ inverter' = inverter /\ Otherwise

NoInverterSection ==
    /\ At("inverter")
    /\ cfg_get_item(cfg, "inverter", "type") = Null
    /\ pc' = "pack" /\ nth' = 1
    /\ UNCHANGED <<caller, opts, file, cfg, conf, dirty, history>>

\* inverter_init: the old one is replaced, and is not freed.
InverterInit ==
    /\ At("inverter")
    /\ cfg_get_item(cfg, "inverter", "type") # Null
    /\ LET d == ReadSection(Device("inverter"))
       IN  /\ Identify(d)
           /\ InverterAdd(Identified(d),
                  pc' = "pack" /\ nth' = 1 /\ UNCHANGED <<caller, opts, history>>,
                  Fails)
    /\ UNCHANGED <<file, packs, pool, caps>>

\* pack_add: the pack has no transport and is not listed, it is, or something fails:
\* a module is unknown, its new() returns null, or the broker cannot be reached.
PackAdd(old, Then, Otherwise) ==
    LET d == ReadSection(old)
    IN  /\ Identify(d)
        /\ modules' = IF d.transport = NoText THEN modules ELSE LoadBoth(d, "cellmon")
        /\ \/ d.transport = NoText /\ packs' = packs /\ Then
           \/ /\ d.transport # NoText /\ BothLinked(d)
              /\ packs' = Append(packs, Identified(d))
              /\ Then
           \/ d.transport # NoText /\ packs' = packs /\ Otherwise

\* The loop of pack_init, up to the first number that has no section.
PackInit ==
    /\ At("pack") /\ nth <= Len(PackNames)
    /\ cfg_get_item(cfg, PackNames[nth], "type") # Null
    /\ PackAdd(Device(PackNames[nth]),
               nth' = nth + 1 /\ UNCHANGED <<pc, caller, opts, history>>,
               Fails)
    /\ UNCHANGED <<file, pool, inverter, caps>>

NoMorePacks ==
    /\ At("pack")
    /\ nth <= Len(PackNames) => cfg_get_item(cfg, PackNames[nth], "type") = Null
    /\ Goto("pool")
    /\ UNCHANGED <<file, cfg, conf, dirty, history>>

\* The end of pack_init called by read_config, or by init for -p.
PacksDone == Goto(IF caller = "options" THEN "run" ELSE "write")

NoPacks ==
    /\ At("pool") /\ packs = <<>>
    /\ PacksDone
    /\ UNCHANGED <<file, cfg, conf, dirty, history>>

Controlled == \A i \in DOMAIN packs : packs[i].type \in Controls

\* Mutant: a pool that is there is used again.
MakePoolOnce ==
    /\ At("pool") /\ packs # <<>>
    /\ pool' = IF pool = 0 THEN Len(packs) ELSE pool
    /\ caps' = caps \cup (IF Controlled THEN {"charge", "discharge"} ELSE {"discharge"})
    /\ PacksDone
    /\ UNCHANGED <<file, cfg, modules, packs, inverter, dirty, history>>

\* A new pool; the threads of the old one are left as they are.  A pack's missing
\* discharge control is seen only if it has charge control (pack.c:398), and no
\* capability is ever taken back.
MakePool ==
    /\ At("pool") /\ packs # <<>>
    /\ pool' = Len(packs)
    /\ caps' = caps \cup (IF Controlled THEN {"charge", "discharge"} ELSE {"discharge"})
    /\ PacksDone
    /\ UNCHANGED <<file, cfg, modules, packs, inverter, dirty, history>>

-----------------------------------------------------------------------------
(* The end of read_config, and the rest of init.                           *)

Return == Goto(IF caller = "start" THEN "options" ELSE "run")

Succeeds == failed' = FALSE /\ source' = <<>> /\ edited' = edited

NotDirty ==
    /\ At("write") /\ ~dirty
    /\ Return /\ Succeeds
    /\ UNCHANGED <<file, cfg, conf, dirty, unsaved>>

\* fopen fails, or there is no configuration in memory to write; nobody looks.
WriteFails ==
    /\ At("write") /\ dirty
    /\ dirty' = FALSE
    /\ unsaved' = TRUE
    /\ Return /\ Succeeds
    /\ UNCHANGED <<file, cfg, conf>>

\* fopen cuts the file to nothing.
Truncate ==
    /\ At("write") /\ dirty /\ cfg # NoCfg
    /\ file' = <<>>
    /\ Goto("writing")
    /\ UNCHANGED <<cfg, conf, dirty, history>>

\* A prefix of the lines is on disk: all, unless the disk is full.
WriteOut ==
    /\ At("writing")
    /\ \E n \in 0..Len(cfg_write(cfg)) :
        /\ file' = SubSeq(cfg_write(cfg), 1, n)
        /\ unsaved' = (n < Len(cfg_write(cfg)))
    /\ dirty' = FALSE
    /\ Return /\ Succeeds
    /\ UNCHANGED <<cfg, conf>>

\* -i: inverter_add, whose result is not looked at.
InverterOption ==
    /\ At("options") /\ opts.inverter
    /\ InverterAdd([Device("option") EXCEPT !.type = "si", !.transport = "can"], TRUE, TRUE)
    /\ Goto("packoption")
    /\ UNCHANGED <<file, cfg, packs, pool, caps, dirty, history>>

NoInverterOption ==
    /\ At("options") /\ ~opts.inverter
    /\ Goto("packoption")
    /\ UNCHANGED <<file, cfg, conf, dirty, history>>

\* -p: pack_add, whose result is not looked at, and all of pack_init again.
PackOption ==
    /\ At("packoption") /\ opts.pack
    /\ PackAdd([Device("pack") EXCEPT !.type = "jbd", !.transport = "ip"], TRUE, TRUE)
    /\ pc' = "pack" /\ nth' = 1 /\ caller' = "options"
    /\ UNCHANGED <<opts, file, pool, inverter, caps, history>>

NoPackOption ==
    /\ At("packoption") /\ ~opts.pack
    /\ Goto("run")
    /\ UNCHANGED <<file, cfg, conf, dirty, history>>

-----------------------------------------------------------------------------
(* The rest of the world.                                                  *)

\* The operator saves the file.  When the daemon is at another stage, that comes to
\* the same as when it is at one of these: no other stage looks at the file.
Edit ==
    /\ pc \in {"down", "write", "run"}
    /\ file' \in Files \ {file}
    /\ edited' = TRUE
    /\ UNCHANGED <<control, cfg, conf, dirty, source, failed, unsaved>>

\* The daemon ends: killed, restarted, or in pthread_cancel (ControlLoop).
Crash ==
    /\ ~At("down") /\ pc' = "down"
    /\ IF At("writing")
       THEN \E n \in 0..Len(cfg_write(cfg)) : file' = SubSeq(cfg_write(cfg), 1, n)
       ELSE file' = file
    /\ opts' = opts
    /\ Forget

Program ==
    \/ ReadFile \/ ReadFails \/ ReadNothing
    \/ NoInverterSection \/ InverterInit
    \/ PackInit \/ NoMorePacks \/ NoPacks \/ MakePool
    \/ NotDirty \/ WriteFails \/ Truncate \/ WriteOut
    \/ InverterOption \/ NoInverterOption \/ PackOption \/ NoPackOption

Next == Start \/ Reread \/ Program \/ Edit \/ Crash

Spec == Init /\ [][Next]_vars

-----------------------------------------------------------------------------
(* Properties.                                                             *)

\* What cfg_read has in memory is what the file says, for every item of every section,
\* with sections that come twice, blank lines within them, and items that come twice.
ReadsWhatIsSaid ==
    pc = "inverter" /\ cfg # NoCfg =>
        \A s \in SectionsOf(source), k \in KeywordsOf(source) :
            cfg_get_item(cfg, s, k) = Says(source, s, k)

\* What cfg_write writes, cfg_read reads back: sections, items, their order, and the
\* remarks above them (with a semicolon, if they had none).
WrittenIsReadBack == cfg # NoCfg => cfg_read(cfg_write(cfg)) = Normal(cfg)

\* When the daemon has written the file (config.c:96), the file says for every item what
\* it said when it was read; only devices without a UUID have got one.
WriteKeepsItems ==
    [][pc = "writing" /\ pc' \in {"run", "options"} /\ ~unsaved' =>
           \A s \in SectionsOf(source), k \in KeywordsOf(source) :
               \/ Says(file', s, k) = Says(source, s, k)
               \/ k = "UUID" /\ Says(source, s, k) \in {NoText, Null}]_vars

\* The UUID of a device that is in use is in the file, where the next start finds it:
\* unless the last read gave up before it wrote, the write failed, or the operator has
\* changed the file since.
UuidsAreSaved ==
    pc = "run" /\ opts.file /\ ~failed /\ ~unsaved /\ ~edited =>
        /\ \A i \in DOMAIN packs :
              packs[i].name # "pack" => Says(file, Upper(packs[i].name), "UUID") = packs[i].uuid
        /\ inverter # NoInverter /\ inverter.name = "inverter" /\ ~opts.inverter
              /\ Says(file, "INVERTER", "TYPE") # Null
           => Says(file, "INVERTER", "UUID") = inverter.uuid

\* There is a slot of the pool for every pack, so that worker_exec never waits for
\* an update to end (worker.c:200): unless the last read gave up with some packs listed.
SlotForEveryPack == pc = "run" /\ ~failed => Len(packs) <= pool

\* No pack of the file is listed twice, and updated twice in a round, through any
\* number of re-reads; except by -p, which reads the packs again (main.c:166).
PacksListedOnce ==
    ~opts.pack => \A i, j \in DOMAIN packs : packs[i].name = packs[j].name => i = j

=============================================================================
