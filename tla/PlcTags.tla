------------------------------ MODULE PlcTags -------------------------------
(***************************************************************************)
(* The tag registry (src/main/plc_tags.cpp) with the tasks that use it:    *)
(*   httpd    POST /api/tags, POST /api/plc_write, the reading endpoints   *)
(*   cache    the data cache, which copies the table                       *)
(*   compile  binds the visible tags to globals of the program it builds   *)
(*   script   the running program, which writes bound tags through plain   *)
(*            pointers, without the mutex                                  *)
(* Whoever calls first initialises the registry. Each critical section of  *)
(* g_tags_mutex is one action, but for the replacement of the table: the   *)
(* running program may write between the memcpy and the save to NVS, so    *)
(* the mutex is held from one action (Load) to the next (Saved, NotSaved). *)
(* The creation of the mutex is one action: a second creator between test  *)
(* and assignment leads to undefined behaviour and is left out.            *)
(* Data: a tag keeps what the properties tell apart; text is a sequence of *)
(* entries in the order of the text. A table whose text outgrows NVS is    *)
(* one whose save fails. Activation of a program is ScriptEngine's and     *)
(* appears by its outcome.                                                 *)
(***************************************************************************)
EXTENDS Naturals, Sequences, FiniteSets

CONSTANTS
  Names,         \* names plc_tags_is_valid_name accepts
  BadName,       \* an entry it refuses, or one with an unknown type
  Start,         \* the compatibility tag
  Types,         \* PlcTagType
  StartType,     \* PLC_TAG_BOOL
  Values,        \* what a tag may hold, 0 among them
  MaxTags,       \* PLC_TAG_MAX_COUNT
  DefaultTags,   \* the tags of the demo
  Posts,         \* bodies clients post to /api/tags
  Stored,        \* what a board may have in NVS when it is switched on
  NoImage, NoProgram

Value == [as: Types, v: Values]      \* the union, and the member last written
Tag   == [name: Names, type: Types, writable: BOOLEAN, visible: BOOLEAN,
          brace: BOOLEAN,            \* its description contains a closing brace
          value: Value]
Entry == [name: Names \cup {BadName}, type: Types, writable: BOOLEAN, visible: BOOLEAN,
          brace: BOOLEAN, value: Value]

\* A global of a program: the slot its pointer points into, and what it was declared as.
Binding == [slot: 1..MaxTags, name: Names, type: Types]
Program == [globals: SUBSET Binding,
            current: BOOLEAN]        \* history: the table has not been replaced since

Typed(tags)    == \A i \in 1..Len(tags) : tags[i].value.as = tags[i].type
Distinct(tags) == \A i, j \in 1..Len(tags) : tags[i].name = tags[j].name => i = j
NamesOf(tags)  == {tags[i].name : i \in 1..Len(tags)}

ASSUME NamesAssumption == BadName \notin Names /\ Start \in Names
ASSUME TypesAssumption == StartType \in Types
ASSUME ValuesAssumption == 0 \in Values
ASSUME MaxTagsAssumption == MaxTags \in Nat
ASSUME DefaultsAssumption ==
  DefaultTags \in Seq(Tag) /\ Distinct(DefaultTags) /\ Typed(DefaultTags)
ASSUME PostsAssumption == Posts \subseteq {p \in Seq(Entry) : Typed(p)}
ASSUME NoImageAssumption == NoImage \notin Seq(Tag)
ASSUME NoProgramAssumption == NoProgram \notin Program
ASSUME StoredAssumption ==
  Stored \subseteq {NoImage} \cup
    {s \in Seq(Tag) : Len(s) <= MaxTags /\ Distinct(s) /\ Typed(s)}

VARIABLES
  made,          \* g_tags_mutex exists
  held,          \* it is held, between Load and the end of the save
  loaded,        \* g_loaded
  table,         \* g_tags[0 .. g_tag_count - 1]
  nvs,           \* the text under tags_json
  fromText,      \* history: the table was loaded from a text
  answered,      \* history: the tags of the last upload, if it was answered OK while no
                 \* initialisation was under way and is not yet replaced (a set)
  pc, op,        \* per task: its next step; the section it called the registry for
  input,         \* the texts being loaded: a request's body, and per task the stored one
  request,       \* httpd: tag and value of the plc_write in progress, its type once read
  built,         \* the program compiled last and not yet active
  active,        \* the program the script task runs
  mode, scanning,
  strayed        \* history: a program bound to an earlier table wrote into this one

tableVars   == <<table, fromText, strayed, answered>>
programVars == <<built, active, scanning>>
vars == <<made, held, loaded, tableVars, nvs, pc, op, input, request, programVars, mode>>

Tasks == {"httpd", "cache", "compile"}
Texts == Tasks \cup {"body"}
Ops   == {"parse", "get", "read", "register"}
Pcs   == Ops \cup {"idle", "init", "defaults", "restore", "restoreSave", "loadSave",
                   "finish", "set"}

-----------------------------------------------------------------------------
Defaults ==          \* add_default_tags_nolock: those there is room for
  [i \in {k \in 1..Len(DefaultTags) : k <= MaxTags} |-> DefaultTags[i]]

Definition(tag) == [name |-> tag.name, type |-> tag.type, writable |-> tag.writable,
                    visible |-> tag.visible]
Definitions(text) == [i \in 1..Len(text) |-> Definition(text[i])]

Zero(type) == [as |-> type, v |-> 0]

StartTag ==
  [name |-> Start, type |-> StartType, writable |-> TRUE, visible |-> TRUE,
   brace |-> FALSE, value |-> Zero(StartType)]

\* Mutant: Start is added without looking for it.
AlwaysStart(tags) == IF Len(tags) = MaxTags THEN tags ELSE Append(tags, StartTag)

WithStart(tags) ==   \* ensure_compatibility_tags_nolock
  IF Start \in NamesOf(tags) \/ Len(tags) = MaxTags THEN tags ELSE Append(tags, StartTag)

\* Mutant: the test for room is one too late.
AcceptsOneMore(text) ==
  /\ BadName \notin NamesOf(text) /\ Distinct(text) /\ Len(text) <= MaxTags + 1

Accepts(text) ==     \* the loop of plc_tags_load_json finds nothing to refuse
  BadName \notin NamesOf(text) /\ Distinct(text) /\ Len(text) <= MaxTags

\* Mutant: the loop of save_to_nvs_nolock stops one short.
AllButLast(tags) ==
  [i \in 1..(Len(tags) - 1) |-> [tags[i] EXCEPT !.value.as = tags[i].type]]

\* Mutant: a flag is not written, and read back as its default.
FlagLost(tags) == [i \in 1..Len(tags) |-> [tags[i] EXCEPT !.visible = TRUE]]

\* save_to_nvs_nolock writes every tag, its value last and read as the tag's type is.
TextOf(tags) == [i \in 1..Len(tags) |-> [tags[i] EXCEPT !.value.as = tags[i].type]]

\* Reading that text back: an object ends at its first closing brace, so a tag whose
\* description has one, written before the value, comes back with the value 0.
Restored(text) ==
  [i \in 1..Len(text) |->
    IF text[i].brace THEN [text[i] EXCEPT !.value = Zero(text[i].type)] ELSE text[i]]

Outdated(p) == IF p = NoProgram THEN p ELSE [p EXCEPT !.current = FALSE]

\* The whole table is replaced: programs that exist are bound to the slots of the old one.
Replace(tags, loading) ==
  /\ table' = tags /\ fromText' = loading /\ strayed' = FALSE
  /\ built' = Outdated(built) /\ active' = Outdated(active) /\ UNCHANGED scanning

NoRequest == [tag |-> Start, v |-> 0, type |-> StartType]

Goto(t, next) == pc' = [pc EXCEPT ![t] = next]
NoCall  == "none"
Forget(x) == input' = [input EXCEPT ![x] = <<>>]     \* the text is freed
Enter(t) ==          \* plc_tags_init returns to the section it was called before
  Goto(t, op[t]) /\ op' = [op EXCEPT ![t] = NoCall]

Init ==              \* a reset keeps nothing else than NVS
  /\ made = FALSE /\ held = FALSE /\ loaded = FALSE
  /\ table = <<>> /\ nvs \in Stored
  /\ fromText = FALSE /\ strayed = FALSE /\ answered = {}
  /\ pc = [t \in Tasks |-> "idle"] /\ op = [t \in Tasks |-> NoCall]
  /\ input = [x \in Texts |-> <<>>]
  /\ request = NoRequest
  /\ built = NoProgram /\ active = NoProgram
  /\ mode = "RUN" /\ scanning = FALSE

(***************************************************************************)
(* First use: plc_tags_init                                                *)
(***************************************************************************)
Call(t, section) ==  \* if (!g_tags_mutex) plc_tags_init()
  /\ pc[t] = "idle"
  /\ IF made THEN Goto(t, section) /\ UNCHANGED op
     ELSE Goto(t, "init") /\ op' = [op EXCEPT ![t] = section]
  /\ UNCHANGED <<made, held, loaded, tableVars, nvs, programVars, mode>>

CreateMutex(t) ==
  /\ pc[t] = "init"
  /\ made' = TRUE
  /\ IF loaded THEN Enter(t) ELSE Goto(t, "defaults") /\ UNCHANGED op
  /\ UNCHANGED <<held, loaded, tableVars, nvs, input, request, programVars, mode>>

AlreadyLoaded(t) ==  \* by another first caller, in the meantime
  /\ pc[t] = "defaults" /\ ~held /\ loaded
  /\ Enter(t)
  /\ UNCHANGED <<made, held, loaded, tableVars, nvs, input, request, programVars, mode>>

\* The defaults are in place and the mutex is given back for plc_tags_load_json to take.
FindImage(t) ==
  /\ pc[t] = "defaults" /\ ~held /\ ~loaded
  /\ nvs # NoImage
  /\ Replace(Defaults, FALSE)
  /\ input' = [input EXCEPT ![t] = Restored(nvs)]
  /\ Goto(t, "restore")
  /\ UNCHANGED <<made, held, loaded, answered, nvs, op, request, mode>>

NoImageFound(t) ==   \* nothing stored, or reading it fails
  /\ pc[t] = "defaults" /\ ~held /\ ~loaded
  /\ Replace(WithStart(Defaults), FALSE)
  /\ loaded' = TRUE
  /\ Enter(t)
  /\ UNCHANGED <<made, held, answered, nvs, input, request, mode>>

Finish(t) ==
  /\ pc[t] = "finish" /\ ~held
  /\ table' = WithStart(table) /\ loaded' = TRUE
  /\ Enter(t)
  /\ UNCHANGED <<made, held, fromText, strayed, answered, nvs, input, request, programVars,
                 mode>>

(***************************************************************************)
(* plc_tags_load_json, called by the initialisation and by POST /api/tags  *)
(***************************************************************************)
Refused(t, x, from, to) == \* an entry is refused, or there is no memory
  /\ pc[t] = from
  /\ Goto(t, to) /\ Forget(x)
  /\ UNCHANGED <<made, held, loaded, tableVars, nvs, op, request, programVars, mode>>

Load(t, x, from, to) ==
  /\ pc[t] = from /\ ~held
  /\ Accepts(input[x])
  /\ Replace(input[x], TRUE)
  /\ answered' = IF x = "body" THEN {} ELSE answered
  /\ held' = TRUE
  /\ Goto(t, to) /\ Forget(x)
  /\ UNCHANGED <<made, loaded, nvs, op, request, mode>>

\* No initialisation is still to load the stored text over the table.
Settled == loaded /\ \A t \in Tasks : pc[t] # "restore"

Saved(t, x, from, to) ==
  /\ pc[t] = from
  /\ nvs' = TextOf(table) /\ held' = FALSE
  /\ answered' = IF x = "body" /\ Settled THEN {Definitions(table)} ELSE answered
  /\ Goto(t, to)
  /\ UNCHANGED <<made, loaded, table, fromText, strayed, op, input, request, programVars, mode>>

NotSaved(t, from, to) ==   \* no memory, or NVS has no room for the text
  /\ pc[t] = from
  /\ held' = FALSE
  /\ Goto(t, to)
  /\ UNCHANGED <<made, loaded, tableVars, nvs, op, input, request, programVars, mode>>

LoadJson(t, x, from, save, to) ==
  \/ Refused(t, x, from, to) \/ Load(t, x, from, save)
  \/ Saved(t, x, save, to) \/ NotSaved(t, save, to)

(***************************************************************************)
(* httpd and the data cache                                                *)
(***************************************************************************)
PostTags ==          \* flash_write_allowed, then the body
  /\ mode = "STOP"
  /\ \E p \in Posts : input' = [input EXCEPT !["body"] = p]
  /\ Call("httpd", "parse")
  /\ UNCHANGED request

PlcWrite ==
  /\ \E n \in Names, v \in Values : request' = [request EXCEPT !.tag = n, !.v = v]
  /\ Call("httpd", "get")
  /\ UNCHANGED input

CallRead(t) ==       \* a copy of the table; only its initialisation has an effect
  /\ ~made
  /\ Call(t, "read")
  /\ UNCHANGED <<input, request>>

Read(t) ==
  /\ pc[t] = "read" /\ ~held
  /\ Goto(t, "idle")
  /\ UNCHANGED <<made, held, loaded, tableVars, nvs, op, input, request, programVars, mode>>

WriteGet ==          \* the first critical section of plc_tags_write_value_json
  /\ pc["httpd"] = "get" /\ ~held
  /\ IF request.tag \in NamesOf(table)
     THEN /\ \E i \in 1..Len(table) :
               table[i].name = request.tag /\ request' = [request EXCEPT !.type = table[i].type]
          /\ Goto("httpd", "set")
     ELSE Goto("httpd", "idle") /\ request' = NoRequest
  /\ UNCHANGED <<made, held, loaded, tableVars, nvs, op, input, programVars, mode>>

\* Mutant: the setter trusts the type that was read before.
MaySetUntyped(tag) == tag.writable
MaySet(tag) == tag.writable /\ tag.type = request.type

WriteSet ==          \* the second: plc_tags_set_value_bool, _int or _float
  /\ pc["httpd"] = "set" /\ ~held
  /\ table' = [i \in 1..Len(table) |->
       IF table[i].name = request.tag /\ MaySet(table[i])
       THEN [table[i] EXCEPT !.value = [as |-> request.type, v |-> request.v]] ELSE table[i]]
  /\ Goto("httpd", "idle") /\ request' = NoRequest
  /\ UNCHANGED <<made, held, loaded, fromText, strayed, answered, nvs, op, input, programVars,
                 mode>>

SetMode ==
  /\ pc["httpd"] = "idle"
  /\ mode' \in {"RUN", "STOP"} \ {mode}
  /\ UNCHANGED <<made, held, loaded, tableVars, nvs, pc, op, input, request, programVars>>

(***************************************************************************)
(* compile and script                                                      *)
(***************************************************************************)
CallRegister ==
  /\ built = NoProgram       \* else the upload is refused
  /\ Call("compile", "register")
  /\ UNCHANGED <<input, request>>

Visible(k) == {i \in 1..k : table[i].visible}

\* Mutant: a pointer into the slot with the number of the registration, not of the tag.
RegistrationSlot(i) == Cardinality(Visible(i))
SlotOf(i) == i

Register ==          \* plc_tags_register_angelscript_globals
  /\ pc["compile"] = "register" /\ ~held
  /\ built' = [globals |-> {[slot |-> SlotOf(i), name |-> table[i].name, type |-> table[i].type] :
                              i \in Visible(Len(table))},
               current |-> TRUE]
  /\ Goto("compile", "idle")
  /\ UNCHANGED <<made, held, loaded, tableVars, nvs, op, input, request, active, scanning, mode>>

Discard ==           \* a global is refused, the build or the save fails
  /\ built # NoProgram
  /\ built' = NoProgram
  /\ UNCHANGED <<made, held, loaded, tableVars, nvs, pc, op, input, request, active, scanning,
                 mode>>

Activate ==          \* at a scan boundary
  /\ built # NoProgram /\ ~scanning /\ mode = "RUN"
  /\ active' = built /\ built' = NoProgram
  /\ UNCHANGED <<made, held, loaded, tableVars, nvs, pc, op, input, request, scanning, mode>>

StartScan ==
  /\ active # NoProgram /\ ~scanning /\ mode = "RUN"
  /\ scanning' = TRUE
  /\ UNCHANGED <<made, held, loaded, tableVars, nvs, pc, op, input, request, built, active, mode>>

ScanWrite ==         \* an assignment to a global; a slot past the end is never read
  /\ scanning
  /\ \E g \in active.globals, v \in Values :
       table' = [i \in 1..Len(table) |->
         IF i = g.slot THEN [table[i] EXCEPT !.value = [as |-> g.type, v |-> v]] ELSE table[i]]
  /\ strayed' = (strayed \/ ~active.current)
  /\ UNCHANGED <<made, held, loaded, fromText, answered, nvs, pc, op, input, request,
                 programVars, mode>>

EndScan ==
  /\ scanning
  /\ scanning' = FALSE
  /\ UNCHANGED <<made, held, loaded, tableVars, nvs, pc, op, input, request, built, active, mode>>

Reboot ==
  /\ made' = FALSE /\ held' = FALSE /\ loaded' = FALSE
  /\ table' = <<>> /\ fromText' = FALSE /\ strayed' = FALSE
  /\ pc' = [t \in Tasks |-> "idle"] /\ op' = [t \in Tasks |-> NoCall]
  /\ input' = [x \in Texts |-> <<>>]
  /\ request' = NoRequest
  /\ built' = NoProgram /\ active' = NoProgram
  /\ mode' = "RUN" /\ scanning' = FALSE
  /\ \/ UNCHANGED <<nvs, answered>>
     \/ nvs' = NoImage /\ answered' = {}    \* no free page, or a newer format: NVS is erased

-----------------------------------------------------------------------------
FirstUse(t) ==
  \/ CreateMutex(t) \/ AlreadyLoaded(t) \/ FindImage(t) \/ NoImageFound(t) \/ Finish(t)
  \/ LoadJson(t, t, "restore", "restoreSave", "finish")

Httpd ==
  \/ PostTags \/ LoadJson("httpd", "body", "parse", "loadSave", "idle")
  \/ PlcWrite \/ WriteGet \/ WriteSet \/ SetMode

Script == Activate \/ StartScan \/ ScanWrite \/ EndScan

Next ==
  \/ \E t \in Tasks : FirstUse(t)
  \/ \E t \in {"httpd", "cache"} : CallRead(t) \/ Read(t)
  \/ Httpd \/ CallRegister \/ Register \/ Discard \/ Script \/ Reboot

Spec == Init /\ [][Next]_vars

-----------------------------------------------------------------------------
Programs == Program \cup {NoProgram}
Answers  == Seq([name: Names, type: Types, writable: BOOLEAN, visible: BOOLEAN])

\* Every variable stays within the values its C++ counterpart can take; in particular the
\* table and the stored text never hold more tags than there are slots.
TypeOK ==
  /\ made \in BOOLEAN /\ held \in BOOLEAN /\ loaded \in BOOLEAN /\ scanning \in BOOLEAN
  /\ strayed \in BOOLEAN /\ mode \in {"RUN", "STOP"}
  /\ table \in Seq(Tag) /\ Len(table) <= MaxTags
  /\ nvs = NoImage \/ (nvs \in Seq(Tag) /\ Len(nvs) <= MaxTags)
  /\ fromText \in BOOLEAN
  /\ answered \subseteq Answers
  /\ pc \in [Tasks -> Pcs] /\ op \in [Tasks -> Ops \cup {NoCall}]
  /\ input \in [Texts -> Seq(Entry)]
  /\ request \in [tag: Names, v: Values, type: Types]
  /\ built \in Programs /\ active \in Programs

\* A name denotes one tag, in RAM and in NVS, whatever first callers, uploads of tables and
\* the compatibility tag add.
UniqueNames == Distinct(table) /\ (nvs # NoImage => Distinct(nvs))

\* An upload answered OK, when no initialisation was still to load the stored text, stays in
\* NVS through resets and the initialisations that follow them, whoever races there, until
\* another upload replaces it or NVS is erased; and a table loaded from a text, then or after
\* such a reset, is that upload, with the compatibility tag at most.
OkIsStored ==
  \A text \in answered :
    /\ nvs # NoImage /\ Definitions(nvs) = text
    /\ fromText => Definitions(table) \in {text, Append(text, Definition(StartTag))}

\* Each global of a program built from this table is one of its visible tags: its pointer
\* points into the slot of the tag of that name and type. (Not every visible tag need be a
\* global: Start may have been appended since.)
BoundTo(p) ==
  p # NoProgram /\ p.current =>
    \A g \in p.globals :
      /\ g.slot <= Len(table) /\ table[g.slot].visible
      /\ table[g.slot].name = g.name /\ table[g.slot].type = g.type
GlobalsAreTags == BoundTo(built) /\ BoundTo(active)

\* The registry implements TagTable: whatever requests and programs write, and whoever
\* initialises, the tags in force change only as a whole, and only such a whole is stored.
Promise == INSTANCE TagTable
             WITH Buffers <- Texts, Uploads <- {Definitions(p) : p \in Posts},
                  Factory <- Definitions(Defaults), Compatibility <- Definition(StartTag),
                  Boards <- {{Definitions(s) : s \in {nvs0} \ {NoImage}} : nvs0 \in Stored},
                  tags <- Definitions(table),
                  stored <- {Definitions(s) : s \in {nvs} \ {NoImage}},
                  incoming <- [x \in Texts |-> Definitions(input[x])],
                  storing <- held, ready <- loaded
KeepsTable == Promise!Spec

\* The bits of a tag are those of a value of its type, unless a program compiled for another
\* table wrote them: plc_write never stores a value of the type the tag had before.
BitsHaveType == ~strayed => Typed(table)

\* "User tags become AngelScript globals on the next script upload": until then a running
\* program's globals go on being the tags it was compiled with.
GlobalsStayTags ==
  scanning /\ mode = "RUN" =>
    \A g \in active.globals : \A i \in 1..Len(table) :
      table[i].name = g.name => i = g.slot /\ table[i].type = g.type

\* "Tags are stored in NVS": the table a restart loads is the one that was saved.
RestartKeepsTags ==
  [][\A t \in Tasks : pc[t] = "restore" /\ pc'[t] = "restoreSave" => table' = nvs]_vars
=============================================================================
