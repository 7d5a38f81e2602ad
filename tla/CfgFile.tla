------------------------------- MODULE CfgFile -------------------------------
(***************************************************************************)
(* The configuration file (cfg.c): what cfg_read makes of its lines, what  *)
(* cfg_get_item and cfg_set_item do to it in memory, and the lines that    *)
(* cfg_write puts in its place.                                            *)
(*                                                                         *)
(* Lines, names and values are already without the blanks around them.     *)
(* The lists of list.c are sequences: every search and every loop of the   *)
(* program begins with list_reset, and no loop runs inside another one     *)
(* over the same list, so the cursor that a list keeps is not state here.  *)
(***************************************************************************)
EXTENDS Integers, Sequences, SequencesExt

CONSTANTS
    Upcase,     \* toupper: the names that are not in upper case, to those that are
    NoCfg       \* the null pointer, where there is no configuration in memory

Upper(name) == IF name \in DOMAIN Upcase THEN Upcase[name] ELSE name

\* The lines of a file.
Header(s)   == [is |-> "header", name |-> s]
Setting(k, v) == [is |-> "item", name |-> k, value |-> v]
Remark(c)   == [is |-> "remark", text |-> c]
BlankLine   == [is |-> "blank"]

\* The characters that happen to follow the end of a line that has no "=".
Junk == "?"

NoText == ""
Null == "null"

Texts == STRING \ {Null}

Lines ==
    [is : {"header"}, name : Texts] \cup [is : {"item"}, name : Texts, value : Texts]
    \cup [is : {"remark"}, text : Texts] \cup {BlankLine}

Items == [name : Texts, value : Texts, desc : Texts]

\* What is in memory: a list of sections, each with a list of items.
Cfgs == Seq([name : Texts, items : Seq(Items)])

CfgAssumption ==
    /\ DOMAIN Upcase \subseteq Texts
    /\ \A n \in DOMAIN Upcase : Upcase[n] \in Texts \ DOMAIN Upcase
    /\ NoCfg \notin Cfgs
    /\ {NoText, ";#"} \subseteq Texts

ASSUME CfgAssumption

-----------------------------------------------------------------------------
(* Lists.                                                                  *)

\* The place of the first element with this name, or 0.
ListFind(list, name) == SelectInSeq(list, LAMBDA e : e.name = name)

ListAdd(list, e) == Append(list, e)

ListDelete(list, i) == RemoveAt(list, i)

-----------------------------------------------------------------------------
(* In memory.                                                              *)

cfg_create == <<>>

cfg_create_section(cfg, s) == ListAdd(cfg, [name |-> Upper(s), items |-> <<>>])

cfg_get_section(cfg, s) == ListFind(cfg, Upper(s))

\* The value of an item, or Null if there is none.
cfg_get_item(cfg, s, k) ==
    IF cfg = NoCfg THEN Null
    ELSE LET x == cfg_get_section(cfg, s)
         IN  IF x = 0 THEN Null
             ELSE LET i == ListFind(cfg[x].items, Upper(k))
                  IN  IF i = 0 THEN Null ELSE cfg[x].items[i].value

WithSection(cfg, s) ==
    IF cfg_get_section(cfg, s) = 0 THEN cfg_create_section(cfg, s) ELSE cfg

\* Mutant: a new item is put in a list of its own.
cfg_set_item_alone(cfg, s, k, v) ==
    IF cfg = NoCfg THEN cfg
    ELSE LET with == WithSection(cfg, s)
             item == [name |-> Upper(k), value |-> v, desc |-> NoText]
         IN  [with EXCEPT ![cfg_get_section(with, s)].items = <<item>>]

cfg_set_item(cfg, s, k, v) ==
    IF cfg = NoCfg THEN cfg
    ELSE LET with == WithSection(cfg, s)
             x == cfg_get_section(with, s)
             i == ListFind(with[x].items, Upper(k))
         IN  IF i # 0 THEN [with EXCEPT ![x].items[i].value = v]
             ELSE [with EXCEPT ![x].items =
                       ListAdd(@, [name |-> Upper(k), value |-> v, desc |-> NoText])]

\* cfg_get_tab of one string that has no default: what there was stays.
cfg_get_tab(cfg, s, k, old) ==
    IF cfg_get_item(cfg, s, k) = Null THEN old ELSE cfg_get_item(cfg, s, k)

-----------------------------------------------------------------------------
(* cfg_read, line by line: [cfg, at: the section that lines belong to, or  *)
(* 0, desc: the remark that goes with the next item].                      *)

\* Mutant: an earlier item with the same name is left in place.
ReplaceItemNot(items, e) == ListAdd(items, e)

\* An earlier item with the same name is deleted, and its place is not kept.
ReplaceItem(items, e) ==
    LET i == ListFind(items, e.name)
    IN  ListAdd(IF i = 0 THEN items ELSE ListDelete(items, i), e)

ReadLine(state, line) ==
    CASE line.is = "blank" -> [state EXCEPT !.at = 0]
      [] line.is = "header" ->
            LET with == WithSection(state.cfg, line.name)
            IN  [cfg |-> with, at |-> cfg_get_section(with, line.name), desc |-> NoText]
      [] line.is = "remark" ->
            IF state.at = 0 THEN state ELSE [state EXCEPT !.desc = line.text]
      [] line.is = "item" ->
            IF state.at = 0 THEN state
            ELSE [state EXCEPT
                    !.cfg[state.at].items =
                        ReplaceItem(@, [name |-> Upper(line.name), value |-> line.value,
                                        desc |-> state.desc]),
                    !.desc = NoText]

cfg_read(lines) ==
    FoldLeft(ReadLine, [cfg |-> cfg_create, at |-> 0, desc |-> NoText], lines).cfg

-----------------------------------------------------------------------------
(* cfg_write.  A remark that does not begin with ";" gets one.             *)

Semicolon(text) == IF text = "#" THEN ";#" ELSE text

\* Mutant: an empty value is not written.
ItemLinesIfAny(e) == IF e.value = "" THEN <<>> ELSE <<Setting(e.name, e.value)>>

ItemLines(e) ==
    (IF e.desc = NoText THEN <<>> ELSE <<Remark(Semicolon(e.desc))>>)
    \o <<Setting(e.name, e.value)>>

SectionLines(s) ==
    <<Header(s.name)>> \o FlattenSeq([i \in DOMAIN s.items |-> ItemLines(s.items[i])])
    \o <<BlankLine>>

cfg_write(cfg) == FlattenSeq([i \in DOMAIN cfg |-> SectionLines(cfg[i])])

-----------------------------------------------------------------------------
(* What a file says, without the order that cfg_read goes through it.      *)

\* What a file says of an item, by its lines: an item belongs to the last header
\* before it, unless there is a blank line in between, and the last of several counts.
SectionAt(lines, i) ==
    LET ends == {j \in 1..(i - 1) : lines[j].is \in {"header", "blank"}}
        last == CHOOSE j \in ends : \A k \in ends : k <= j
    IN  IF ends = {} \/ lines[last].is = "blank" THEN Null ELSE Upper(lines[last].name)

Says(lines, s, k) ==
    LET where == {i \in DOMAIN lines : /\ lines[i].is = "item" /\ Upper(lines[i].name) = k
                                        /\ SectionAt(lines, i) = s}
    IN  IF where = {} THEN Null
        ELSE lines[CHOOSE i \in where : \A j \in where : j <= i].value

SectionsOf(lines) == {Upper(lines[i].name) : i \in {j \in DOMAIN lines : lines[j].is = "header"}}
KeywordsOf(lines) == {Upper(lines[i].name) : i \in {j \in DOMAIN lines : lines[j].is = "item"}}

\* What is in memory, after it has been written and read back.
Normal(c) == [x \in DOMAIN c |-> [c[x] EXCEPT !.items =
                 [i \in DOMAIN c[x].items |-> [c[x].items[i] EXCEPT !.desc = Semicolon(@)]]]]

=============================================================================
