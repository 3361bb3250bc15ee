------------------------------- MODULE Resource --------------------------------
(***************************************************************************)
(* Resource.cpp and Config.cpp: programs that load a configuration from    *)
(* the system's and the user's file, ask for settings, set them and save   *)
(* them, while others change the user's file and programs end anywhere.    *)
(***************************************************************************)
EXTENDS Integers, Sequences, FiniteSets, SequencesExt

CONSTANTS
  Apps,                \* programs, with a Resource of one domain each
  Options,             \* what they ask for and set: pairs of a section and a key
  Texts,               \* values, Given those of them that programs set
  Given,
  Trimmed, Lowered,    \* str_trim() and str_tolower() of each
  NoConf,              \* NULL, as sys_conf or user_conf
  NoFile,              \* no file of that name, or none that can be opened
  Files,               \* what else than a program may write to the user's file
  SystemFiles,         \* and what there may be in the system's
  MaxOptions,          \* bound: entries of a configuration that set() adds to
  MaxEdits             \* bound: how often something else writes the file

VARIABLES
  file,    \* the user's configuration file
  sysFile, \* the system's
  conf,    \* sys_conf and user_conf of each program
  saving,  \* where each program is in Config::save()
  temp,    \* its temporary file
  full,    \* whether the disk may run out of space
  edits,   \* history: how often something else wrote the file
  shown    \* history: what the files and the programs' configurations answer

resourceVars == <<file, sysFile, conf, saving, temp, full, edits, shown>>
-------------------------------------------------------------------------------
(* The lines of a file.  A comment stands for an empty line, too; a bad    *)
(* line is a section that is not closed or an entry without '='.           *)
SectionLine(s)  == [kind |-> "section", name |-> s]
EntryLine(k, v) == [kind |-> "entry", key |-> k, value |-> v]
Comment         == [kind |-> "comment"]
Bad             == [kind |-> "bad"]

Lines ==
  [kind : {"section"}, name : STRING] \cup
  [kind : {"entry"}, key : STRING, value : Texts] \cup {Comment, Bad}

File == [lines : Seq(Lines), ended : BOOLEAN]

(* A Config: section_list and cached, 0 for NULL                           *)
Entry   == [key : STRING, value : Texts]
Section == [name : STRING, entries : Seq(Entry)]
Config  == [sections : Seq(Section), cached : Nat]

EmptyConf == [sections |-> <<>>, cached |-> 0]

ASSUME ResourceAssumption ==
  /\ Options \subseteq STRING \X STRING /\ Given \subseteq Texts
  /\ Trimmed \in [Texts -> Texts] /\ Lowered \in [Texts -> Texts]
  /\ NoConf \notin Config /\ NoFile \notin File
  /\ \A S \in SUBSET Options : NoConf \notin [S -> Texts]
  /\ Files \subseteq File /\ SystemFiles \subseteq File \cup {NoFile}
  /\ MaxOptions \in Nat /\ MaxEdits \in Nat

(* ConfigSection::find_entry(), 0 for NULL                                 *)
FindEntry(entries, k) == SelectInSeq(entries, LAMBDA e : e.key = k)

(* ConfigSection::add_entry()                                              *)
AddEntry(entries, k, v) ==
  IF FindEntry(entries, k) = 0
  THEN Append(entries, [key |-> k, value |-> v])
  ELSE [entries EXCEPT ![FindEntry(entries, k)].value = v]

FindSection(c, s) ==
  IF c.cached # 0 /\ c.sections[c.cached].name = s
  THEN c.cached
  ELSE SelectInSeq(c.sections, LAMBDA x : x.name = s)

(* What the look for a section leaves in the cache                         *)
Cached(c, s) == IF FindSection(c, s) = 0 THEN c ELSE [c EXCEPT !.cached = FindSection(c, s)]

AddSection(c, s) ==
  IF FindSection(c, s) = 0
  THEN [c EXCEPT !.sections = Append(@, [name |-> s, entries |-> <<>>])]
  ELSE Cached(c, s)

ConfigSet(c, s, k, v) ==
  LET d == AddSection(c, s)
  IN  [d EXCEPT !.sections[SelectInSeq(d.sections, LAMBDA x : x.name = s)].entries =
         AddEntry(@, k, v)]

HasOption(c, s, k) ==
  /\ c # NoConf
  /\ FindSection(c, s) # 0
  /\ FindEntry(c.sections[FindSection(c, s)].entries, k) # 0

OptionAt(c, s, k) ==
  LET es == c.sections[FindSection(c, s)].entries IN es[FindEntry(es, k)].value

(* Config::get(): that of a truth value changes the stored text, whatever  *)
(* it says; the others only move the cache.                                *)
ConfigGet(c, s, k, truth) ==
  LET d == Cached(c, s)
  IN  IF truth /\ HasOption(c, s, k)
      THEN LET i == FindSection(c, s)
               j == FindEntry(c.sections[i].entries, k)
           IN  [d EXCEPT !.sections[i].entries[j].value = Lowered[@]]
      ELSE d
-------------------------------------------------------------------------------
(* config_getline(): a last line without newline counts as the end of file *)
WholeLines(f) == IF f.ended THEN f.lines ELSE Front(f.lines)

(* One turn of the loop in Config::load(): tsect is the section that       *)
(* entries go to, 0 before there is one, and ok the status.                *)
ReadLine(r, line) ==
  CASE ~r.ok \/ line.kind = "comment" -> r
    [] r.ok /\ line.kind = "section" ->
         LET c == AddSection(r.config, line.name)
         IN  [r EXCEPT !.config = c,
                       !.tsect = SelectInSeq(c.sections, LAMBDA x : x.name = line.name)]
    [] r.ok /\ line.kind = "entry" /\ r.tsect # 0 ->
         [r EXCEPT !.config.sections[r.tsect].entries =
            AddEntry(@, line.key, Trimmed[line.value])]
    [] OTHER -> [r EXCEPT !.ok = FALSE]

(* The loop, up to each line                                               *)
Reading(lines) ==
  LET after[k \in 0..Len(lines)] ==
        IF k = 0 THEN [config |-> EmptyConf, tsect |-> 0, ok |-> TRUE]
        ELSE ReadLine(after[k - 1], lines[k])
  IN  after

(* Config::load() on a new Config, which Resource::load() deletes when it  *)
(* fails                                                                   *)
LoadConfig(f) ==
  IF f = NoFile THEN NoConf
  ELSE LET lines == WholeLines(f)
           last  == Reading(lines)[Len(lines)]
       IN  IF last.ok THEN last.config ELSE NoConf

(* What Config::save() writes: an empty line between two sections          *)
SectionLines(c, i) ==
  <<SectionLine(c.sections[i].name)>>
    \o [j \in DOMAIN c.sections[i].entries |->
          EntryLine(c.sections[i].entries[j].key, c.sections[i].entries[j].value)]
    \o (IF i = Len(c.sections) THEN <<>> ELSE <<Comment>>)

WrittenLines(c) == FlattenSeq([i \in DOMAIN c.sections |-> SectionLines(c, i)])

(* What gets to a disk that is full: all up to some place, be it in the    *)
(* middle of a line.  Nothing tells: fprintf(), fflush() and fclose() are  *)
(* not asked.                                                              *)
CutOff(lines) ==
  {[lines |-> SubSeq(lines, 1, n), ended |-> TRUE] : n \in 0..Len(lines)} \cup
  {[lines |-> SubSeq(lines, 1, n - 1) \o <<Bad>>, ended |-> FALSE] : n \in DOMAIN lines}
-------------------------------------------------------------------------------
(* What a configuration answers, NoConf when there is none                 *)
Answers(c) ==
  IF c = NoConf THEN NoConf
  ELSE [o \in {x \in Options : HasOption(c, x[1], x[2])} |-> OptionAt(c, o[1], o[2])]

(* What a program would get that loads a file now                          *)
WouldGet(f) == CHOOSE answers \in {Answers(c) : c \in {LoadConfig(f)}} : TRUE

Memory(configs) ==
  [p \in Apps |-> [user |-> Answers(configs[p].user), sys |-> Answers(configs[p].sys)]]
-------------------------------------------------------------------------------
ResourceInit ==
  /\ file \in Files \cup {NoFile} /\ sysFile \in SystemFiles
  /\ conf = [p \in Apps |-> [user |-> NoConf, sys |-> NoConf]]
  /\ saving = [p \in Apps |-> "no"]
  /\ temp = [p \in Apps |-> NoFile]
  /\ full \in BOOLEAN
  /\ edits = 0
  /\ shown = [disk |-> WouldGet(file), system |-> WouldGet(sysFile), memory |-> Memory(conf)]

ResourceLoad(p) ==
  /\ saving[p] = "no"
  /\ conf' = [conf EXCEPT ![p] = [user |-> LoadConfig(file), sys |-> LoadConfig(sysFile)]]
  /\ UNCHANGED <<file, sysFile, saving, temp, full, edits>>

(* clear(), and the destructor                                             *)
ResourceClear(p) ==
  /\ saving[p] = "no"
  /\ conf' = [conf EXCEPT ![p] = [user |-> NoConf, sys |-> NoConf]]
  /\ UNCHANGED <<file, sysFile, saving, temp, full, edits>>

NumOptions(c) == FoldLeft(LAMBDA n, x : n + Len(x.entries), 0, c.sections)

ResourceSet(p, s, k, v) ==
  /\ saving[p] = "no"
  /\ LET c == IF conf[p].user = NoConf THEN EmptyConf ELSE conf[p].user
     IN  /\ HasOption(c, s, k) \/ NumOptions(c) < MaxOptions
         /\ conf' = [conf EXCEPT ![p].user = ConfigSet(c, s, k, v)]
  /\ UNCHANGED <<file, sysFile, saving, temp, full, edits>>

(* In which order each ResourceType asks the two                           *)
Asks ==
  [RES_SYS_ONLY  |-> <<"sys">>,         RES_USER_ONLY  |-> <<"user">>,
   RES_SYS_FIRST |-> <<"sys", "user">>, RES_USER_FIRST |-> <<"user", "sys">>]

(* Those that FETCH_RESOURCE asks: up to the first that has the key        *)
Asked(p, s, k, rt) ==
  {Asks[rt][i] : i \in {i \in DOMAIN Asks[rt] :
     /\ conf[p][Asks[rt][i]] # NoConf
     /\ \A j \in 1..(i - 1) : ~HasOption(conf[p][Asks[rt][j]], s, k)}}

ResourceGet(p, s, k, rt, truth) ==
  /\ saving[p] = "no"
  /\ LET Got(w) == IF w \in Asked(p, s, k, rt) THEN ConfigGet(conf[p][w], s, k, truth)
                                                 ELSE conf[p][w]
     IN  conf' = [conf EXCEPT ![p] = [user |-> Got("user"), sys |-> Got("sys")]]
  /\ UNCHANGED <<file, sysFile, saving, temp, full, edits>>

(* Mutant: the file itself is opened for writing.                          *)
SaveCreateInPlace(p) ==
  /\ saving[p] = "no" /\ conf[p].user # NoConf
  /\ saving' = [saving EXCEPT ![p] = "write"]
  /\ file' = [lines |-> <<>>, ended |-> TRUE]
  /\ UNCHANGED <<sysFile, conf, temp, full, edits>>

(* save() up to the temporary file.  It returns without a change when the  *)
(* directory or that file cannot be made.                                  *)
SaveCreate(p) ==
  /\ saving[p] = "no" /\ conf[p].user # NoConf
  /\ saving' = [saving EXCEPT ![p] = "write"]
  /\ UNCHANGED <<file, sysFile, conf, temp, full, edits>>

SaveWrite(p) ==
  /\ saving[p] = "write"
  /\ LET lines == WrittenLines(conf[p].user)
     IN  \E written \in {[lines |-> lines, ended |-> TRUE]} \cup
                        (IF full THEN CutOff(lines) ELSE {}) :
           temp' = [temp EXCEPT ![p] = written]
  /\ saving' = [saving EXCEPT ![p] = "rename"]
  /\ UNCHANGED <<file, sysFile, conf, full, edits>>

(* rename() fails when the directory of the temporary file, the current    *)
(* one, is on another file system.                                         *)
SaveRename(p) ==
  /\ saving[p] = "rename"
  /\ file' \in {temp[p], file}
  /\ saving' = [saving EXCEPT ![p] = "no"]
  /\ temp' = [temp EXCEPT ![p] = NoFile]
  /\ UNCHANGED <<sysFile, conf, full, edits>>

(* The program ends and may be started again; nobody looks for its         *)
(* temporary file.                                                         *)
AppCrash(p) ==
  /\ conf' = [conf EXCEPT ![p] = [user |-> NoConf, sys |-> NoConf]]
  /\ saving' = [saving EXCEPT ![p] = "no"]
  /\ temp' = [temp EXCEPT ![p] = NoFile]
  /\ UNCHANGED <<file, sysFile, full, edits>>

(* Somebody writes the user's file with an editor, or removes it.          *)
Edit ==
  /\ edits < MaxEdits
  /\ edits' = edits + 1
  /\ file' \in Files \cup {NoFile}
  /\ UNCHANGED <<sysFile, conf, saving, temp, full>>

ResourceStep ==
  \/ \E p \in Apps : \/ ResourceLoad(p) \/ ResourceClear(p)
                     \/ SaveCreate(p) \/ SaveWrite(p) \/ SaveRename(p) \/ AppCrash(p)
  \/ \E p \in Apps, o \in Options, v \in Given : ResourceSet(p, o[1], o[2], v)
  \/ \E p \in Apps, o \in Options, rt \in DOMAIN Asks, truth \in BOOLEAN :
       ResourceGet(p, o[1], o[2], rt, truth)
  \/ Edit

ResourceNext ==
  /\ ResourceStep
  /\ shown' = [shown EXCEPT !.disk = IF file' = file THEN @ ELSE WouldGet(file'),
                            !.memory = IF conf' = conf THEN @ ELSE Memory(conf')]

ResourceSpec == ResourceInit /\ [][ResourceNext]_resourceVars
-------------------------------------------------------------------------------
Abstract == INSTANCE ConfigStore WITH
  disk <- shown.disk, system <- shown.system, memory <- shown.memory

(* Each section is there once and each key once in it, and the cached      *)
(* section is one of the list (Config.cpp:214-232, 419-454).               *)
ResourceTypeOK ==
  /\ edits \in 0..MaxEdits
  /\ saving \in [Apps -> {"no", "write", "rename"}]
  /\ \A p \in Apps, w \in {"user", "sys"} : conf[p][w] # NoConf =>
       /\ conf[p][w].cached \in 0..Len(conf[p][w].sections)
       /\ \A i, j \in DOMAIN conf[p][w].sections :
            conf[p][w].sections[i].name = conf[p][w].sections[j].name => i = j
       /\ \A i \in DOMAIN conf[p][w].sections :
            IsInjective([j \in DOMAIN conf[p][w].sections[i].entries |->
                           conf[p][w].sections[i].entries[j].key])

(* A call of load() or set() that is lost would be a stutter of            *)
(* ConfigStore: these two have to be its Load and Set.                     *)
CallsCount ==
  \A p \in Apps : conf'[p] # conf[p] =>
    /\ ResourceLoad(p) => Abstract!Load(p)
    /\ \A o \in Options, v \in Given :
         ResourceSet(p, o[1], o[2], v) => Abstract!Set(p, o, v)

(* Configurations are maps (Config.cpp:214-263, 270-368, 419-454): what a  *)
(* program gets is what it loaded or set last, in lower case after it was  *)
(* asked for as a truth value; what is on the disk is, but for an edit,    *)
(* all that some program had when it saved, without spaces around, or part *)
(* of that when the disk was full, wherever programs end (370-413).        *)
IsAConfiguration == Abstract!Spec /\ [][CallsCount]_conf
===============================================================================
