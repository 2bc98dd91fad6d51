--------------------------- MODULE PlcTagsProofs ----------------------------
(***************************************************************************)
(* Theorems about the tag registry, for every set of names, types, values  *)
(* and uploaded tables, and every number of slots. First what the          *)
(* operators on tables preserve, then the invariants, each from the ones   *)
(* before it.                                                              *)
(***************************************************************************)
EXTENDS PlcTags, TLAPS

\* What plc_tags_load_json lets through is a table.
LEMMA AcceptedIsTable ==
  ASSUME NEW text \in Seq(Entry), Accepts(text)
  PROVE  text \in Seq(Tag) /\ Len(text) <= MaxTags /\ Distinct(text)
<1>1. \A i \in 1..Len(text) : text[i] \in Tag
  <2> TAKE i \in 1..Len(text)
  <2>1. text[i] \in Entry /\ text[i].name # BadName
    BY DEF Accepts, NamesOf
  <2> QED
    BY <2>1 DEF Entry, Tag
<1> QED
  BY <1>1 DEF Accepts

LEMMA DefaultsAreTable ==
  Defaults \in Seq(Tag) /\ Len(Defaults) <= MaxTags /\ Distinct(Defaults) /\ Typed(Defaults)
<1> DEFINE n == IF Len(DefaultTags) <= MaxTags THEN Len(DefaultTags) ELSE MaxTags
<1>1. n \in Nat /\ n <= MaxTags /\ n <= Len(DefaultTags)
  BY DefaultsAssumption, MaxTagsAssumption
<1>2. Defaults = [i \in 1..n |-> DefaultTags[i]]
  BY DefaultsAssumption, MaxTagsAssumption DEF Defaults
<1> HIDE DEF n
<1>3. \A i \in 1..n : DefaultTags[i] \in Tag
  BY <1>1, DefaultsAssumption
<1>4. Defaults \in Seq(Tag) /\ Len(Defaults) = n
  BY <1>1, <1>2, <1>3
<1>5. \A i \in 1..n : i \in 1..Len(DefaultTags) /\ Defaults[i] = DefaultTags[i]
  BY <1>1, <1>2, DefaultsAssumption
<1> QED
  BY <1>1, <1>4, <1>5, DefaultsAssumption DEF Distinct, Typed

\* The compatibility tag is added at the end, if at all.
LEMMA WithStartExtends ==
  ASSUME NEW tags \in Seq(Tag), Len(tags) <= MaxTags
  PROVE  LET new == WithStart(tags) IN
         /\ new \in Seq(Tag) /\ Len(new) <= MaxTags
         /\ \A i \in 1..Len(tags) : i \in 1..Len(new) /\ new[i] = tags[i]
         /\ \/ new = tags
            \/ /\ Start \notin NamesOf(tags) /\ Len(new) = Len(tags) + 1
               /\ new[Len(tags) + 1].name = Start
               /\ new[Len(tags) + 1].value.as = new[Len(tags) + 1].type
<1>1. StartTag \in Tag
  BY NamesAssumption, TypesAssumption, ValuesAssumption DEF StartTag, Tag, Value, Zero
<1>2. CASE Start \in NamesOf(tags) \/ Len(tags) = MaxTags
  BY <1>2 DEF WithStart
<1>3. CASE Start \notin NamesOf(tags) /\ Len(tags) # MaxTags
  <2>1. WithStart(tags) = Append(tags, StartTag)
    BY <1>3 DEF WithStart
  <2>2. StartTag.name = Start /\ StartTag.value.as = StartTag.type
    BY DEF StartTag, Zero
  <2> QED
    BY <1>1, <1>3, <2>1, <2>2, MaxTagsAssumption
<1> QED
  BY <1>2, <1>3

LEMMA WithStartKeepsDistinct ==
  ASSUME NEW tags \in Seq(Tag), Len(tags) <= MaxTags, Distinct(tags)
  PROVE  Distinct(WithStart(tags))
BY WithStartExtends DEF Distinct, NamesOf

LEMMA WithStartKeepsTyped ==
  ASSUME NEW tags \in Seq(Tag), Len(tags) <= MaxTags, Typed(tags)
  PROVE  Typed(WithStart(tags))
BY WithStartExtends DEF Typed

\* Writing a table as text and reading it back keep everything but the values, and give
\* values of the tags' types.
LEMMA TextOfTable ==
  ASSUME NEW tags \in Seq(Tag)
  PROVE  LET text == TextOf(tags) IN
         /\ text \in Seq(Tag) /\ Len(text) = Len(tags) /\ Typed(text)
         /\ \A i \in 1..Len(tags) : Definition(text[i]) = Definition(tags[i])
<1> DEFINE item(i) == [tags[i] EXCEPT !.value.as = tags[i].type]
<1>1. \A i \in 1..Len(tags) :
        /\ item(i) \in Tag /\ item(i).value.as = item(i).type
        /\ Definition(item(i)) = Definition(tags[i])
  <2> TAKE i \in 1..Len(tags)
  <2>1. tags[i] \in Tag
    OBVIOUS
  <2> QED
    BY <2>1 DEF Tag, Value, Definition
<1>2. TextOf(tags) = [i \in 1..Len(tags) |-> item(i)]
  BY DEF TextOf
<1> HIDE DEF item
<1>3. TextOf(tags) \in Seq(Tag) /\ Len(TextOf(tags)) = Len(tags)
  BY <1>1, <1>2
<1> QED
  BY <1>1, <1>2, <1>3 DEF Typed

LEMMA RestoredTable ==
  ASSUME NEW text \in Seq(Tag)
  PROVE  /\ Restored(text) \in Seq(Tag) /\ Restored(text) \in Seq(Entry)
         /\ Typed(text) => Typed(Restored(text))
         /\ Len(Restored(text)) = Len(text)
         /\ \A i \in 1..Len(text) : Definition(Restored(text)[i]) = Definition(text[i])
<1> DEFINE item(i) == IF text[i].brace THEN [text[i] EXCEPT !.value = Zero(text[i].type)]
                      ELSE text[i]
<1>1. \A i \in 1..Len(text) :
        /\ item(i) \in Tag /\ Definition(item(i)) = Definition(text[i])
        /\ text[i].value.as = text[i].type => item(i).value.as = item(i).type
  <2> TAKE i \in 1..Len(text)
  <2>1. text[i] \in Tag
    OBVIOUS
  <2>2. Zero(text[i].type) \in Value /\ Zero(text[i].type).as = text[i].type
    BY <2>1, ValuesAssumption DEF Zero, Tag, Value
  <2> QED
    BY <2>1, <2>2 DEF Tag, Definition
<1>2. Restored(text) = [i \in 1..Len(text) |-> item(i)]
  BY DEF Restored
<1> HIDE DEF item
<1>3. Tag \subseteq Entry
  BY DEF Tag, Entry
<1>4. Restored(text) \in Seq(Tag) /\ Restored(text) \in Seq(Entry)
      /\ Len(Restored(text)) = Len(text)
  BY <1>1, <1>2, <1>3
<1> QED
  BY <1>1, <1>2, <1>4 DEF Typed

LEMMA DefinitionsOfTable ==
  ASSUME NEW tags \in Seq(Tag)
  PROVE  Definitions(tags) \in Answers
<1>1. ASSUME NEW i \in 1..Len(tags)
      PROVE  Definition(tags[i]) \in [name: Names, type: Types, writable: BOOLEAN, visible: BOOLEAN]
  <2>1. tags[i] \in Tag
    OBVIOUS
  <2> QED
    BY <2>1 DEF Definition, Tag
<1> QED
  BY <1>1 DEF Definitions, Answers

-----------------------------------------------------------------------------
\* Types. A task inside plc_tags_init knows the section it was called before, so that Enter
\* leads to a step of the program.
Initialising == {"init", "defaults", "restore", "restoreSave", "finish"}
Calling == \A t \in Tasks : pc[t] \in Initialising => op[t] \in Ops
Running == scanning => active \in Program
Typing  == TypeOK /\ Calling /\ Running

LEMMA TypesInitially == Init => Typing
<1> SUFFICES ASSUME Init PROVE Typing
  OBVIOUS
<1>1. <<>> \in Seq(Tag) /\ Len(<<>>) <= MaxTags /\ <<>> \in Seq(Entry)
  BY MaxTagsAssumption
<1>2. NoRequest \in [tag: Names, v: Values, type: Types]
  BY NamesAssumption, TypesAssumption, ValuesAssumption DEF NoRequest
<1>3. nvs = NoImage \/ (nvs \in Seq(Tag) /\ Len(nvs) <= MaxTags)
  BY StoredAssumption DEF Init
<1> QED
  BY <1>1, <1>2, <1>3 DEF Init, Typing, TypeOK, Calling, Running, Initialising, Pcs, Ops, Programs

TypesReplaced ==
  /\ table' \in Seq(Tag) /\ Len(table') <= MaxTags
  /\ fromText' \in BOOLEAN /\ strayed' \in BOOLEAN
  /\ built' \in Programs /\ active' \in Programs /\ scanning' \in BOOLEAN /\ Running'

LEMMA TypesOfReplacement ==
  ASSUME TypeOK, Running, NEW tags \in Seq(Tag), Len(tags) <= MaxTags,
         NEW loading \in BOOLEAN, Replace(tags, loading)
  PROVE  TypesReplaced
<1>1. /\ \A p \in Programs : Outdated(p) \in Programs
      /\ \A p \in Program : Outdated(p) \in Program
  BY DEF Outdated, Programs, Program
<1> QED
  BY <1>1 DEF Replace, TypesReplaced, TypeOK, Running

\* Storing a value in some slots of a table gives a table with the same definitions.
LEMMA ValueSet ==
  ASSUME NEW tags \in Seq(Tag), NEW S, NEW v \in Value
  PROVE  LET new == [i \in 1..Len(tags) |->
                      IF i \in S THEN [tags[i] EXCEPT !.value = v] ELSE tags[i]] IN
         /\ new \in Seq(Tag) /\ Len(new) = Len(tags)
         /\ \A i \in 1..Len(tags) :
              /\ Definition(new[i]) = Definition(tags[i])
              /\ new[i].value = IF i \in S THEN v ELSE tags[i].value
<1> DEFINE item(i) == IF i \in S THEN [tags[i] EXCEPT !.value = v] ELSE tags[i]
<1>1. \A i \in 1..Len(tags) :
        /\ item(i) \in Tag /\ Definition(item(i)) = Definition(tags[i])
        /\ item(i).value = IF i \in S THEN v ELSE tags[i].value
  <2> TAKE i \in 1..Len(tags)
  <2>1. tags[i] \in Tag
    OBVIOUS
  <2> QED
    BY <2>1 DEF Tag, Definition
<1> HIDE DEF item
<1>2. [i \in 1..Len(tags) |-> item(i)] \in Seq(Tag)
  BY <1>1
<1> QED
  BY <1>1, <1>2 DEF item

Control == pc \in [Tasks -> Pcs] /\ op \in [Tasks -> Ops \cup {NoCall}] /\ Calling

\* A task goes on; it returns from plc_tags_init; it calls the registry.
LEMMA Moving ==
  ASSUME Control, NEW t \in Tasks, NEW next \in Pcs, Goto(t, next), op' = op,
         next \in Initialising => pc[t] \in Initialising
  PROVE  Control'
BY DEF Control, Calling, Goto

LEMMA Entering ==
  ASSUME Control, NEW t \in Tasks, pc[t] \in Initialising, Enter(t)
  PROVE  Control'
<1>1. op[t] \in Ops /\ Ops \subseteq Pcs
  BY DEF Control, Calling, Pcs
<1>2. op[t] \notin Initialising
  BY <1>1 DEF Ops, Initialising
<1>3. pc' = [pc EXCEPT ![t] = op[t]] /\ op' = [op EXCEPT ![t] = NoCall]
  BY DEF Enter, Goto
<1> QED
  BY <1>1, <1>2, <1>3 DEF Control, Calling

LEMMA Calls ==
  ASSUME Control, NEW t \in Tasks, NEW section \in Ops, Call(t, section)
  PROVE  Control'
<1>1. section \in Pcs /\ section \notin Initialising /\ "init" \in Pcs
  BY DEF Pcs, Ops, Initialising
<1>2. \/ pc' = [pc EXCEPT ![t] = section] /\ op' = op
      \/ pc' = [pc EXCEPT ![t] = "init"] /\ op' = [op EXCEPT ![t] = section]
  BY DEF Call, Goto
<1> QED
  BY <1>1, <1>2 DEF Control, Calling

\* plc_write and a scan change values only; what they store, and where.
LEMMA WriteSetsValues ==
  ASSUME TypeOK, WriteSet
  PROVE  /\ table' \in Seq(Tag) /\ Len(table') = Len(table)
         /\ \A i \in 1..Len(table) :
              /\ Definition(table'[i]) = Definition(table[i])
              /\ \/ table'[i].value = table[i].value
                 \/ table'[i].value.as = table[i].type
<1> DEFINE S == {i \in 1..Len(table) : table[i].name = request.tag /\ MaySet(table[i])}
           w == [as |-> request.type, v |-> request.v]
<1>1. table \in Seq(Tag) /\ w \in Value
  BY DEF TypeOK, Value
<1>2. table' = [i \in 1..Len(table) |->
                 IF i \in S THEN [table[i] EXCEPT !.value = w] ELSE table[i]]
  BY DEF WriteSet
<1>3. \A i \in S : w.as = table[i].type
  BY DEF MaySet
<1> HIDE DEF S, w
<1> QED
  BY <1>1, <1>2, <1>3, ValueSet

LEMMA ScanSetsValues ==
  ASSUME TypeOK, Running, ScanWrite
  PROVE  /\ active \in Program
         /\ table' \in Seq(Tag) /\ Len(table') = Len(table)
         /\ \E g \in active.globals : \A i \in 1..Len(table) :
              /\ Definition(table'[i]) = Definition(table[i])
              /\ \/ table'[i].value = table[i].value
                 \/ i = g.slot /\ table'[i].value.as = g.type
<1>1. table \in Seq(Tag) /\ active \in Program
  BY DEF TypeOK, Running, ScanWrite
<1>2. PICK g \in active.globals, v \in Values :
        table' = [i \in 1..Len(table) |->
          IF i = g.slot THEN [table[i] EXCEPT !.value = [as |-> g.type, v |-> v]]
          ELSE table[i]]
  BY DEF ScanWrite
<1> DEFINE w == [as |-> g.type, v |-> v]
<1>3. w \in Value
  BY <1>1 DEF Program, Binding, Value
<1>4. table' = [i \in 1..Len(table) |->
                 IF i \in {g.slot} THEN [table[i] EXCEPT !.value = w] ELSE table[i]]
  BY <1>2
<1>5. w.as = g.type
  OBVIOUS
<1> HIDE DEF w
<1>6. /\ table' \in Seq(Tag) /\ Len(table') = Len(table)
      /\ \A i \in 1..Len(table) :
           /\ Definition(table'[i]) = Definition(table[i])
           /\ table'[i].value = IF i \in {g.slot} THEN w ELSE table[i].value
  BY <1>1, <1>3, <1>4, ValueSet
<1> QED
  BY <1>1, <1>5, <1>6

LEMMA TypesKept == Typing /\ [Next]_vars => Typing'
<1> SUFFICES ASSUME Typing, [Next]_vars PROVE Typing'
  OBVIOUS
<1>0. TypeOK /\ Control /\ Running
  BY DEF Typing, TypeOK, Control, Running
<1> USE <1>0 DEF Typing, tableVars, programVars
<1>1. ASSUME NEW t \in Tasks, CreateMutex(t) PROVE Typing'
  <2>1. Control'
    BY <1>1, Moving, Entering DEF CreateMutex, Pcs, Initialising
  <2> QED
    BY <1>1, <2>1 DEF CreateMutex, TypeOK, Control, Running
<1>2. ASSUME NEW t \in Tasks, AlreadyLoaded(t) PROVE Typing'
  <2>1. Control'
    BY <1>2, Entering DEF AlreadyLoaded, Initialising
  <2> QED
    BY <1>2, <2>1 DEF AlreadyLoaded, TypeOK, Control, Running
<1>3. ASSUME NEW t \in Tasks, FindImage(t) PROVE Typing'
  <2>1. Control'
    BY <1>3, Moving DEF FindImage, Pcs, Ops, Initialising, Tasks
  <2>2. Replace(Defaults, FALSE) /\ nvs \in Seq(Tag)
    BY <1>3 DEF FindImage, TypeOK
  <2>3. Restored(nvs) \in Seq(Entry)
    BY <2>2, RestoredTable
  <2>4. TypesReplaced
    BY <2>2, DefaultsAreTable, TypesOfReplacement
  <2> QED
    BY <1>3, <2>1, <2>3, <2>4 DEF FindImage, TypesReplaced, TypeOK, Control, Running
<1>4. ASSUME NEW t \in Tasks, NoImageFound(t) PROVE Typing'
  <2>1. Control'
    BY <1>4, Entering DEF NoImageFound, Initialising
  <2>2. WithStart(Defaults) \in Seq(Tag) /\ Len(WithStart(Defaults)) <= MaxTags
    BY DefaultsAreTable, WithStartExtends
  <2>3. TypesReplaced
    BY <1>4, <2>2, TypesOfReplacement DEF NoImageFound
  <2> QED
    BY <1>4, <2>1, <2>3 DEF NoImageFound, TypesReplaced, TypeOK, Control, Running
<1>5. ASSUME NEW t \in Tasks, Finish(t) PROVE Typing'
  <2>1. Control'
    BY <1>5, Entering DEF Finish, Initialising
  <2>2. table' \in Seq(Tag) /\ Len(table') <= MaxTags
    BY <1>5, WithStartExtends DEF Finish, TypeOK
  <2> QED
    BY <1>5, <2>1, <2>2 DEF Finish, TypeOK, Control, Running
<1>6. ASSUME NEW t \in Tasks, NEW from \in Pcs, NEW to \in Pcs,
             NEW x \in Texts, to \in Initialising => from \in Initialising,
             Refused(t, x, from, to) PROVE Typing'
  <2>1. Control'
    BY <1>6, Moving DEF Refused
  <2>2. <<>> \in Seq(Entry)
    OBVIOUS
  <2> QED
    BY <1>6, <2>1, <2>2 DEF Refused, Forget, TypeOK, Control, Running
<1>7. ASSUME NEW t \in Tasks, NEW from \in Pcs, NEW to \in Pcs,
             NEW x \in Texts, to \in Initialising => from \in Initialising,
             Load(t, x, from, to) PROVE Typing'
  <2>1. Control'
    BY <1>7, Moving DEF Load
  <2>2. input[x] \in Seq(Tag) /\ Len(input[x]) <= MaxTags
    BY <1>7, AcceptedIsTable DEF Load, TypeOK
  <2>3. TypesReplaced
    BY <1>7, <2>2, TypesOfReplacement DEF Load
  <2>4. <<>> \in Seq(Entry)
    OBVIOUS
  <2> QED
    BY <1>7, <2>1, <2>3, <2>4 DEF Load, Forget, TypesReplaced, TypeOK, Control, Running
<1>8. ASSUME NEW t \in Tasks, NEW from \in Pcs, NEW to \in Pcs, NEW x \in Texts,
             to \in Initialising => from \in Initialising, Saved(t, x, from, to) PROVE Typing'
  <2>1. Control'
    BY <1>8, Moving DEF Saved
  <2>2. TextOf(table) \in Seq(Tag) /\ Len(TextOf(table)) <= MaxTags
    BY TextOfTable DEF TypeOK
  <2>3. Definitions(table) \in Answers
    BY DefinitionsOfTable DEF TypeOK
  <2> QED
    BY <1>8, <2>1, <2>2, <2>3 DEF Saved, TypeOK, Control, Running
<1>9. ASSUME NEW t \in Tasks, NEW from \in Pcs, NEW to \in Pcs,
             to \in Initialising => from \in Initialising, NotSaved(t, from, to) PROVE Typing'
  <2>1. Control'
    BY <1>9, Moving DEF NotSaved
  <2> QED
    BY <1>9, <2>1 DEF NotSaved, TypeOK, Control, Running
<1>10. ASSUME NEW t \in Tasks, CallRead(t) PROVE Typing'
  <2>1. Control'
    BY <1>10, Calls DEF CallRead, Ops, Tasks
  <2> QED
    BY <1>10, <2>1 DEF CallRead, Call, TypeOK, Control, Running
<1>11. ASSUME NEW t \in Tasks, Read(t) PROVE Typing'
  <2>1. Control'
    BY <1>11, Moving DEF Read, Pcs, Ops, Initialising, Tasks
  <2> QED
    BY <1>11, <2>1 DEF Read, TypeOK, Control, Running
<1>12. ASSUME PostTags PROVE Typing'
  <2>1. Control'
    BY <1>12, Calls DEF PostTags, Ops, Tasks
  <2>2. Posts \subseteq Seq(Entry)
    BY PostsAssumption
  <2> QED
    BY <1>12, <2>1, <2>2 DEF PostTags, Call, TypeOK, Control, Running
<1>13. ASSUME PlcWrite PROVE Typing'
  <2>1. Control'
    BY <1>13, Calls DEF PlcWrite, Ops, Tasks
  <2> QED
    BY <1>13, <2>1 DEF PlcWrite, Call, TypeOK, Control, Running
<1>14. ASSUME WriteGet PROVE Typing'
  <2>1. Control'
    BY <1>14, Moving DEF WriteGet, Pcs, Ops, Initialising, Tasks
  <2>2. \A i \in 1..Len(table) : table[i].type \in Types
    <3> TAKE i \in 1..Len(table)
    <3>1. table \in Seq(Tag)
      BY DEF TypeOK
    <3>2. table[i] \in Tag
      BY <3>1
    <3> QED
      BY <3>2 DEF Tag
  <2>3. NoRequest \in [tag: Names, v: Values, type: Types]
    BY NamesAssumption, TypesAssumption, ValuesAssumption DEF NoRequest
  <2> QED
    BY <1>14, <2>1, <2>2, <2>3 DEF WriteGet, TypeOK, Control, Running
<1>15. ASSUME WriteSet PROVE Typing'
  <2>1. Control'
    BY <1>15, Moving DEF WriteSet, Pcs, Ops, Initialising, Tasks
  <2>2. [as |-> request.type, v |-> request.v] \in Value
    BY DEF TypeOK, Value
  <2>3. table' \in Seq(Tag) /\ Len(table') = Len(table)
    BY <1>15, <2>2, WriteSetsValues
  <2>4. NoRequest \in [tag: Names, v: Values, type: Types]
    BY NamesAssumption, TypesAssumption, ValuesAssumption DEF NoRequest
  <2> QED
    BY <1>15, <2>1, <2>3, <2>4 DEF WriteSet, TypeOK, Control, Running
<1>16. ASSUME SetMode PROVE Typing'
  <2>1. Control'
    BY <1>16 DEF SetMode, Control, Calling
  <2> QED
    BY <1>16, <2>1 DEF SetMode, TypeOK, Control, Running
<1>17. ASSUME CallRegister PROVE Typing'
  <2>1. Control'
    BY <1>17, Calls DEF CallRegister, Ops, Tasks
  <2> QED
    BY <1>17, <2>1 DEF CallRegister, Call, TypeOK, Control, Running
<1>18. ASSUME Register PROVE Typing'
  <2>1. Control'
    BY <1>18, Moving DEF Register, Pcs, Ops, Initialising, Tasks
  <2>2. \A i \in 1..Len(table) :
          [slot |-> i, name |-> table[i].name, type |-> table[i].type] \in Binding
    <3> TAKE i \in 1..Len(table)
    <3>1. table \in Seq(Tag) /\ Len(table) <= MaxTags
      BY DEF TypeOK
    <3>2. table[i] \in Tag /\ i \in 1..MaxTags
      BY <3>1, MaxTagsAssumption
    <3> QED
      BY <3>2 DEF Tag, Binding
  <2>3. built' \in Program
    BY <1>18, <2>2 DEF Register, Visible, SlotOf, Program
  <2> QED
    BY <1>18, <2>1, <2>3 DEF Register, Programs, TypeOK, Control, Running
<1>19. ASSUME Discard PROVE Typing'
  <2>1. Control'
    BY <1>19 DEF Discard, Control, Calling
  <2> QED
    BY <1>19, <2>1 DEF Discard, Programs, TypeOK, Control, Running
<1>20. ASSUME Activate PROVE Typing'
  <2>1. Control'
    BY <1>20 DEF Activate, Control, Calling
  <2> QED
    BY <1>20, <2>1 DEF Activate, Programs, TypeOK, Control, Running
<1>21. ASSUME StartScan PROVE Typing'
  <2>1. Control'
    BY <1>21 DEF StartScan, Control, Calling
  <2> QED
    BY <1>21, <2>1 DEF StartScan, Programs, TypeOK, Control, Running
<1>22. ASSUME ScanWrite PROVE Typing'
  <2>1. Control'
    BY <1>22 DEF ScanWrite, Control, Calling
  <2>2. table' \in Seq(Tag) /\ Len(table') = Len(table)
    BY <1>22, ScanSetsValues
  <2> QED
    BY <1>22, <2>1, <2>2 DEF ScanWrite, TypeOK, Control, Running
<1>23. ASSUME EndScan PROVE Typing'
  <2>1. Control'
    BY <1>23 DEF EndScan, Control, Calling
  <2> QED
    BY <1>23, <2>1 DEF EndScan, Programs, TypeOK, Control, Running
<1>24. ASSUME Reboot PROVE Typing'
  <2>1. Control'
    BY <1>24 DEF Reboot, Control, Calling, Pcs, Initialising
  <2>2. <<>> \in Seq(Tag) /\ Len(<<>>) <= MaxTags /\ <<>> \in Seq(Entry)
    BY MaxTagsAssumption
  <2>3. NoRequest \in [tag: Names, v: Values, type: Types]
    BY NamesAssumption, TypesAssumption, ValuesAssumption DEF NoRequest
  <2> QED
    BY <1>24, <2>1, <2>2, <2>3 DEF Reboot, Programs, TypeOK, Control, Running
<1>25. CASE UNCHANGED vars
  BY <1>25 DEF vars, TypeOK, Calling, Running
<1> QED
  BY <1>1, <1>2, <1>3, <1>4, <1>5, <1>6, <1>7, <1>8, <1>9, <1>10, <1>11, <1>12, <1>13,
     <1>14, <1>15, <1>16, <1>17, <1>18, <1>19, <1>20, <1>21, <1>22, <1>23, <1>24, <1>25
     DEF Next, FirstUse, LoadJson, Httpd, Script, Tasks, Texts, Pcs, Ops, Initialising

\* Each variable has its type in every reachable state, for every number of slots.
THEOREM TypesHold == Spec => []TypeOK
<1>1. Spec => []Typing
  BY TypesInitially, TypesKept, PTL DEF Spec
<1>2. Typing => TypeOK
  BY DEF Typing
<1> QED
  BY <1>1, <1>2, PTL

-----------------------------------------------------------------------------
\* The invariants below follow the table. A step replaces it, appends the compatibility tag,
\* stores values in it, or leaves it alone.

SameDefinitions(new, old) ==
  /\ Len(new) = Len(old)
  /\ \A i \in 1..Len(old) : Definition(new[i]) = Definition(old[i])

LEMMA TableSteps ==
  ASSUME Typing, [Next]_vars
  PROVE  \/ table' = table /\ strayed' = strayed
         \/ WriteSet \/ ScanWrite
         \/ \E t \in Tasks : Finish(t)
         \/ table' \in {Defaults, WithStart(Defaults), <<>>}
         \/ \E x \in Texts : Accepts(input[x]) /\ table' = input[x]
BY DEF Next, vars, tableVars, FirstUse, LoadJson, Httpd, Script, Tasks, Texts, CreateMutex,
   AlreadyLoaded, FindImage, NoImageFound, Replace, Refused, Load, Saved, NotSaved,
   CallRead, Call, Read, PostTags, PlcWrite, WriteGet, SetMode, CallRegister, Register,
   Discard, Activate, StartScan, EndScan, Reboot

LEMMA SameNamesDistinct ==
  ASSUME NEW new \in Seq(Tag), NEW old \in Seq(Tag), SameDefinitions(new, old), Distinct(old)
  PROVE  Distinct(new)
<1>1. \A i \in 1..Len(old) : new[i].name = old[i].name
  BY DEF SameDefinitions, Definition
<1> QED
  BY <1>1 DEF SameDefinitions, Distinct

LEMMA ImageSteps ==
  ASSUME [Next]_vars
  PROVE  nvs' \in {nvs, TextOf(table), NoImage}
BY DEF Next, vars, tableVars, FirstUse, LoadJson, Httpd, Script, Tasks, CreateMutex,
   AlreadyLoaded, FindImage, NoImageFound, Finish, Refused, Load, Saved, NotSaved,
   CallRead, Call, Read, PostTags, PlcWrite, WriteGet, WriteSet, SetMode, CallRegister,
   Register, Discard, Activate, StartScan, ScanWrite, EndScan, Reboot

\* A name denotes one tag, in RAM and in NVS, for every number of slots, every default and
\* every table clients post.
THEOREM NamesAreUnique == Spec => []UniqueNames
<1>1. Init => UniqueNames
  <2> SUFFICES ASSUME Init PROVE UniqueNames
    OBVIOUS
  <2>1. nvs = NoImage \/ Distinct(nvs)
    BY StoredAssumption DEF Init
  <2>2. Distinct(<<>>)
    BY DEF Distinct
  <2> QED
    BY <2>1, <2>2 DEF Init, UniqueNames
<1>2. Typing /\ UniqueNames /\ [Next]_vars => UniqueNames'
  <2> SUFFICES ASSUME Typing, UniqueNames, [Next]_vars PROVE UniqueNames'
    OBVIOUS
  <2>0. /\ table \in Seq(Tag) /\ Len(table) <= MaxTags /\ input \in [Texts -> Seq(Entry)]
        /\ Distinct(table)
    BY DEF Typing, TypeOK, UniqueNames
  <2>1. Distinct(table')
    <3>1. CASE table' = table
      BY <2>0, <3>1
    <3>2. CASE WriteSet
      BY <2>0, <3>2, WriteSetsValues, SameNamesDistinct DEF SameDefinitions, Typing
    <3>3. CASE ScanWrite
      BY <2>0, <3>3, ScanSetsValues, SameNamesDistinct DEF SameDefinitions, Typing
    <3>4. CASE \E t \in Tasks : Finish(t)
      BY <2>0, <3>4, WithStartKeepsDistinct DEF Finish
    <3>5. CASE table' \in {Defaults, WithStart(Defaults), <<>>}
      BY <3>5, DefaultsAreTable, WithStartKeepsDistinct DEF Distinct
    <3>6. CASE \E x \in Texts : Accepts(input[x]) /\ table' = input[x]
      BY <2>0, <3>6, AcceptedIsTable
    <3> QED
      BY <3>1, <3>2, <3>3, <3>4, <3>5, <3>6, TableSteps
  <2>2. nvs' # NoImage => Distinct(nvs')
    <3>1. TextOf(table) \in Seq(Tag) /\ SameDefinitions(TextOf(table), table)
      BY <2>0, TextOfTable DEF SameDefinitions
    <3> QED
      BY <2>0, <3>1, ImageSteps, SameNamesDistinct DEF UniqueNames
  <2> QED
    BY <2>1, <2>2 DEF UniqueNames
<1>3. Spec => []Typing
  BY TypesInitially, TypesKept, PTL DEF Spec
<1> QED
  BY <1>1, <1>2, <1>3, PTL DEF Spec

-----------------------------------------------------------------------------
\* Bindings.

Extends(new, old) ==
  /\ Len(old) <= Len(new)
  /\ \A i \in 1..Len(old) : Definition(new[i]) = Definition(old[i])

BoundIn(p, tags) ==
  p # NoProgram /\ p.current =>
    \A g \in p.globals :
      /\ g.slot <= Len(tags) /\ tags[g.slot].visible
      /\ tags[g.slot].name = g.name /\ tags[g.slot].type = g.type

LEMMA BoundInExtension ==
  ASSUME NEW p \in Programs, NEW old \in Seq(Tag), NEW new \in Seq(Tag),
         Extends(new, old), BoundIn(p, old)
  PROVE  BoundIn(p, new)
<1> SUFFICES ASSUME p # NoProgram, p.current, NEW g \in p.globals
             PROVE  /\ g.slot <= Len(new) /\ new[g.slot].visible
                    /\ new[g.slot].name = g.name /\ new[g.slot].type = g.type
  BY DEF BoundIn
<1>1. g.slot \in 1..MaxTags
  BY DEF Programs, Program, Binding
<1>2. g.slot \in 1..Len(old) /\ old[g.slot].visible
      /\ old[g.slot].name = g.name /\ old[g.slot].type = g.type
  BY <1>1, MaxTagsAssumption DEF BoundIn
<1>3. Definition(new[g.slot]) = Definition(old[g.slot]) /\ Len(old) <= Len(new)
  BY <1>2 DEF Extends
<1> QED
  BY <1>2, <1>3 DEF Definition

LEMMA TableExtended ==
  ASSUME Typing, WriteSet \/ ScanWrite \/ (\E t \in Tasks : Finish(t))
  PROVE  table' \in Seq(Tag) /\ Extends(table', table)
<1>0. table \in Seq(Tag) /\ Len(table) <= MaxTags /\ TypeOK /\ Running
  BY DEF Typing, TypeOK
<1>1. CASE WriteSet
  BY <1>0, <1>1, WriteSetsValues DEF Extends
<1>2. CASE ScanWrite
  BY <1>0, <1>2, ScanSetsValues DEF Extends
<1>3. CASE \E t \in Tasks : Finish(t)
  BY <1>0, <1>3, WithStartExtends DEF Extends, Finish
<1> QED
  BY <1>1, <1>2, <1>3

LEMMA ProgramSteps ==
  ASSUME [Next]_vars
  PROVE  \/ built' = Outdated(built) /\ active' = Outdated(active)
         \/ built' = NoProgram /\ active' = NoProgram
         \/ Register /\ table' = table
         \/ /\ built' \in {built, NoProgram} /\ active' \in {active, built}
            /\ table' = table \/ WriteSet \/ ScanWrite \/ (\E t \in Tasks : Finish(t))
BY DEF Next, vars, tableVars, programVars, FirstUse, LoadJson, Httpd, Script, Tasks,
   CreateMutex, AlreadyLoaded, FindImage, NoImageFound, Finish, Replace, Refused, Load,
   Saved, NotSaved, CallRead, Call, Read, PostTags, PlcWrite, WriteGet, WriteSet, SetMode,
   CallRegister, Register, Discard, Activate, StartScan, ScanWrite, EndScan, Reboot

Bound == BoundIn(built, table) /\ BoundIn(active, table)

LEMMA BoundKept == Typing /\ Bound /\ [Next]_vars => Bound'
<1> SUFFICES ASSUME Typing, Bound, [Next]_vars PROVE Bound'
  OBVIOUS
<1>0. table \in Seq(Tag) /\ Len(table) <= MaxTags /\ built \in Programs /\ active \in Programs
  BY DEF Typing, TypeOK
<1>1. CASE built' = Outdated(built) /\ active' = Outdated(active)
  <2>1. ASSUME NEW p \in Programs, NEW tags PROVE BoundIn(Outdated(p), tags)
    BY DEF BoundIn, Outdated, Programs, Program
  <2> QED
    BY <1>0, <1>1, <2>1 DEF Bound
<1>2. CASE built' = NoProgram /\ active' = NoProgram
  BY <1>2 DEF Bound, BoundIn
<1>3. CASE Register /\ table' = table
  <2>1. BoundIn(built', table)
    BY <1>0, <1>3 DEF Register, Visible, SlotOf, BoundIn
  <2> QED
    BY <1>3, <2>1 DEF Bound, Register
<1>4. CASE /\ built' \in {built, NoProgram} /\ active' \in {active, built}
           /\ table' = table \/ WriteSet \/ ScanWrite \/ (\E t \in Tasks : Finish(t))
  <2>1. table' \in Seq(Tag) /\ Extends(table', table)
    BY <1>0, <1>4, TableExtended DEF Extends
  <2>2. BoundIn(built, table') /\ BoundIn(active, table')
    BY <1>0, <2>1, BoundInExtension DEF Bound
  <2>3. BoundIn(NoProgram, table')
    BY DEF BoundIn
  <2> QED
    BY <1>4, <2>2, <2>3 DEF Bound
<1> QED
  BY <1>1, <1>2, <1>3, <1>4, ProgramSteps

LEMMA BoundAlways == Spec => []Bound
<1>1. Init => Bound
  BY DEF Init, Bound, BoundIn
<1>2. Spec => []Typing
  BY TypesInitially, TypesKept, PTL DEF Spec
<1> QED
  BY <1>1, <1>2, BoundKept, PTL DEF Spec

\* As long as the table has not been replaced, each global of a compiled program is the
\* visible tag of its name and type, wherever invisible tags lie between them.
THEOREM GlobalsPointToTheirTags == Spec => []GlobalsAreTags
<1>1. Bound => GlobalsAreTags
  BY DEF Bound, BoundIn, GlobalsAreTags, BoundTo
<1> QED
  BY <1>1, BoundAlways, PTL

-----------------------------------------------------------------------------
\* Types of values. A program bound to the present table writes values of the tags' types;
\* plc_write does because the setter looks at the type again.

TextsTyped ==
  /\ \A x \in Texts : Typed(input[x])
  /\ nvs # NoImage => Typed(nvs)

Bits == BitsHaveType /\ TextsTyped

LEMMA InputSteps ==
  ASSUME [Next]_vars
  PROVE  \/ input' = input
         \/ \E x \in Texts : \/ input' = [input EXCEPT ![x] = <<>>]
                             \/ nvs # NoImage /\ input' = [input EXCEPT ![x] = Restored(nvs)]
                             \/ \E p \in Posts : input' = [input EXCEPT ![x] = p]
         \/ input' = [x \in Texts |-> <<>>]
BY DEF Next, vars, FirstUse, LoadJson, Httpd, Script, Tasks, Texts, CreateMutex,
   AlreadyLoaded, FindImage, NoImageFound, Finish, Refused, Load, Forget, Saved, NotSaved, CallRead, Read,
   PostTags, PlcWrite, WriteGet, WriteSet, SetMode, CallRegister, Register, Discard,
   Activate, StartScan, ScanWrite, EndScan, Reboot

LEMMA BitsKept == Typing /\ Bound /\ Bits /\ [Next]_vars => Bits'
<1> SUFFICES ASSUME Typing, Bound, Bits, [Next]_vars PROVE Bits'
  OBVIOUS
<1>0. /\ table \in Seq(Tag) /\ Len(table) <= MaxTags /\ input \in [Texts -> Seq(Entry)]
      /\ nvs # NoImage => nvs \in Seq(Tag)
      /\ \A x \in Texts : Typed(input[x])
      /\ nvs # NoImage => Typed(nvs)
      /\ TypeOK /\ Running
  BY DEF Typing, TypeOK, Bits, TextsTyped
<1>1. ~strayed' => Typed(table')
  <2> SUFFICES ASSUME ~strayed' PROVE Typed(table')
    OBVIOUS
  <2>1. CASE table' = table /\ strayed' = strayed
    BY <2>1 DEF Bits, BitsHaveType
  <2>2. CASE WriteSet
    <3>1. Typed(table)
      BY <2>2 DEF WriteSet, Bits, BitsHaveType
    <3> QED
      BY <1>0, <2>2, <3>1, WriteSetsValues DEF Typed, Definition
  <2>3. CASE ScanWrite
    <3>1. Typed(table) /\ active.current
      BY <1>0, <2>3 DEF ScanWrite, Bits, BitsHaveType, TypeOK
    <3>2. PICK g \in active.globals : \A i \in 1..Len(table) :
            /\ Definition(table'[i]) = Definition(table[i])
            /\ \/ table'[i].value = table[i].value
               \/ i = g.slot /\ table'[i].value.as = g.type
      BY <1>0, <2>3, ScanSetsValues
    <3>3. active # NoProgram => table[g.slot].type = g.type
      BY <3>1 DEF Bound, BoundIn
    <3>4. active # NoProgram
      BY <2>3, <1>0, NoProgramAssumption, ScanSetsValues
    <3>5. \A i \in 1..Len(table) : table'[i].type = table[i].type
      BY <3>2 DEF Definition
    <3>6. \A i \in 1..Len(table) : table[i].value.as = table[i].type
      BY <3>1 DEF Typed
    <3>7. Len(table') = Len(table)
      BY <1>0, <2>3, ScanSetsValues
    <3> QED
      BY <3>2, <3>3, <3>4, <3>5, <3>6, <3>7 DEF Typed
  <2>4. CASE \E t \in Tasks : Finish(t)
    BY <1>0, <2>4, WithStartKeepsTyped DEF Finish, Bits, BitsHaveType
  <2>5. CASE table' \in {Defaults, WithStart(Defaults), <<>>}
    BY <2>5, DefaultsAreTable, WithStartKeepsTyped DEF Typed
  <2>6. CASE \E x \in Texts : Accepts(input[x]) /\ table' = input[x]
    BY <1>0, <2>6
  <2> QED
    BY <2>1, <2>2, <2>3, <2>4, <2>5, <2>6, TableSteps
<1>2. \A x \in Texts : Typed(input'[x])
  <2>1. Typed(<<>>) /\ \A p \in Posts : Typed(p)
    BY PostsAssumption DEF Typed
  <2>2. nvs # NoImage => Typed(Restored(nvs))
    BY <1>0, RestoredTable
  <2> QED
    BY <1>0, <2>1, <2>2, InputSteps
<1>3. nvs' # NoImage => Typed(nvs')
  BY <1>0, TextOfTable, ImageSteps
<1> QED
  BY <1>1, <1>2, <1>3 DEF Bits, BitsHaveType, TextsTyped

\* No call of plc_write, however it interleaves with first callers and loads, stores a value
\* of another type than the tag's; only a program bound to an earlier table does.
THEOREM OnlyStaleProgramsMistype == Spec => []BitsHaveType
<1>1. Init => Bits
  <2> SUFFICES ASSUME Init PROVE Bits
    OBVIOUS
  <2>1. nvs = NoImage \/ Typed(nvs)
    BY StoredAssumption DEF Init
  <2>2. Typed(<<>>)
    BY DEF Typed
  <2> QED
    BY <2>1, <2>2 DEF Init, Bits, BitsHaveType, TextsTyped
<1>2. Spec => []Typing
  BY TypesInitially, TypesKept, PTL DEF Spec
<1>3. Bits => BitsHaveType
  BY DEF Bits
<1> QED
  BY <1>1, <1>2, <1>3, BoundAlways, BitsKept, PTL DEF Spec

-----------------------------------------------------------------------------
\* Implementing TagTable. A text is compared by its definitions, so first what these are for
\* the texts and tables that the operators of the registry build.

LEMMA DefinitionsOfText ==
  ASSUME NEW text \in Seq(Entry)
  PROVE  /\ Len(Definitions(text)) = Len(text)
         /\ \A i \in 1..Len(text) : Definitions(text)[i] = Definition(text[i])
         /\ Promise!NamesIn(Definitions(text)) = NamesOf(text)
<1> DEFINE D == [name: Names \cup {BadName}, type: Types, writable: BOOLEAN, visible: BOOLEAN]
<1>1. ASSUME NEW i \in 1..Len(text) PROVE Definition(text[i]) \in D
  <2>1. text[i] \in Entry
    OBVIOUS
  <2> QED
    BY <2>1 DEF Definition, Entry
<1>2. Definitions(text) \in Seq(D)
  BY <1>1 DEF Definitions
<1>3. Len(Definitions(text)) = Len(text)
  BY <1>2 DEF Definitions
<1>4. \A i \in 1..Len(text) : Definitions(text)[i] = Definition(text[i])
  BY DEF Definitions
<1>5. \A i \in 1..Len(text) : Definition(text[i]).name = text[i].name
  BY DEF Definition
<1> QED
  BY <1>3, <1>4, <1>5 DEF Promise!NamesIn, NamesOf

LEMMA TablesAreTexts == \A tags : tags \in Seq(Tag) => tags \in Seq(Entry)
<1>1. Tag \subseteq Entry
  BY DEF Tag, Entry
<1> QED
  BY <1>1

LEMMA SameText ==
  ASSUME NEW new \in Seq(Entry), NEW old \in Seq(Entry), SameDefinitions(new, old)
  PROVE  Definitions(new) = Definitions(old)
BY DEF SameDefinitions, Definitions

LEMMA AcceptedIsLegal ==
  ASSUME NEW text \in Seq(Entry), Accepts(text)
  PROVE  Promise!Legal(Definitions(text))
<1>1. \A i \in 1..Len(text) : Definitions(text)[i] = Definition(text[i])
  BY DefinitionsOfText
<1>2. ASSUME NEW i \in 1..Len(text) PROVE Definitions(text)[i].name = text[i].name
  <2>1. Definition(text[i]).name = text[i].name
    BY DEF Definition
  <2> QED
    BY <1>1, <2>1
<1> QED
  BY <1>2, DefinitionsOfText DEF Promise!Legal, Accepts, Distinct

LEMMA CompletionIsWithStart ==
  ASSUME NEW tags \in Seq(Tag), Len(tags) <= MaxTags
  PROVE  Promise!Completed(Definitions(tags)) = Definitions(WithStart(tags))
<1>1. tags \in Seq(Entry) /\ WithStart(tags) \in Seq(Entry)
  BY TablesAreTexts, WithStartExtends
<1>2. Definition(StartTag).name = Start
  BY DEF Definition, StartTag
<1>3. CASE Start \in NamesOf(tags) \/ Len(tags) = MaxTags
  BY <1>1, <1>2, <1>3, DefinitionsOfText DEF Promise!Completed, WithStart
<1>4. CASE Start \notin NamesOf(tags) /\ Len(tags) # MaxTags
  <2>1. WithStart(tags) = Append(tags, StartTag)
    BY <1>4 DEF WithStart
  <2>2. Promise!Completed(Definitions(tags)) = Append(Definitions(tags), Definition(StartTag))
    BY <1>1, <1>2, <1>4, DefinitionsOfText DEF Promise!Completed
  <2>3. Definitions(Append(tags, StartTag)) = Append(Definitions(tags), Definition(StartTag))
    BY DEF Definitions
  <2> QED
    BY <2>1, <2>2, <2>3
<1> QED
  BY <1>3, <1>4

\* What TagTable sees of a state.
InForce == Definitions(table)
Image   == {Definitions(s) : s \in {nvs} \ {NoImage}}
Waiting == [x \in Texts |-> Definitions(input[x])]

LEMMA WaitingFor ==
  ASSUME TypeOK, NEW x \in Texts, NEW text, input' = [input EXCEPT ![x] = text]
  PROVE  Waiting' = [Waiting EXCEPT ![x] = Definitions(text)]
BY DEF Waiting, TypeOK

LEMMA NothingWaits == Definitions(<<>>) = <<>>
BY DEF Definitions

\* Values are invisible.
LEMMA ValuesInvisible ==
  ASSUME Typing, WriteSet \/ ScanWrite
  PROVE  InForce' = InForce
<1>1. table \in Seq(Tag) /\ TypeOK /\ Running
  BY DEF Typing, TypeOK
<1>2. table' \in Seq(Tag) /\ SameDefinitions(table', table)
  BY <1>1, WriteSetsValues, ScanSetsValues DEF SameDefinitions
<1> QED
  BY <1>1, <1>2, SameText, TablesAreTexts DEF InForce

Unseen == UNCHANGED <<InForce, Image, Waiting, held, loaded>>

\* The calls, the requests, the programs: all that TagTable does not see.
Hidden ==
  \/ \E t \in Tasks : CreateMutex(t) \/ AlreadyLoaded(t) \/ CallRead(t) \/ Read(t)
  \/ PlcWrite \/ WriteGet \/ SetMode \/ CallRegister \/ Register \/ Discard
  \/ Activate \/ StartScan \/ EndScan \/ UNCHANGED vars

LEMMA HiddenUnseen ==
  ASSUME Hidden
  PROVE  Unseen
<1>1. UNCHANGED <<table, nvs, input, held, loaded>>
  BY DEF Hidden, vars, tableVars, CreateMutex, AlreadyLoaded, CallRead, Call, Read, PlcWrite,
         WriteGet, SetMode, CallRegister, Register, Discard, Activate, StartScan, EndScan
<1> QED
  BY <1>1 DEF Unseen, InForce, Image, Waiting

LEMMA WritesUnseen ==
  ASSUME Typing, WriteSet \/ ScanWrite
  PROVE  Unseen
<1>1. UNCHANGED <<nvs, input, held, loaded>>
  BY DEF WriteSet, ScanWrite
<1> QED
  BY <1>1, ValuesInvisible DEF Unseen, Image, Waiting

LEMMA LoadReplaces ==
  ASSUME Typing, NEW t, NEW from, NEW to, NEW x \in Texts, Load(t, x, from, to)
  PROVE  Promise!Replace
<1>1. input[x] \in Seq(Entry) /\ TypeOK
  BY DEF Typing, TypeOK
<1>2. Promise!Legal(Waiting[x]) /\ InForce' = Waiting[x]
  BY <1>1, AcceptedIsLegal DEF Load, Replace, Waiting, InForce
<1>3. Waiting' = [Waiting EXCEPT ![x] = <<>>]
  BY <1>1, WaitingFor, NothingWaits DEF Load, Forget
<1>4. ~held /\ held' = TRUE /\ UNCHANGED <<Image, loaded>>
  BY DEF Load, Image
<1> QED
  BY <1>2, <1>3, <1>4 DEF Promise!Replace, InForce, Image, Waiting

LEMMA RefusalDrops ==
  ASSUME Typing, NEW t, NEW from, NEW to, NEW x \in Texts, Refused(t, x, from, to)
  PROVE  Promise!Drop
<1>1. Waiting' = [Waiting EXCEPT ![x] = <<>>]
  BY WaitingFor, NothingWaits DEF Refused, Forget, Typing
<1>2. UNCHANGED <<InForce, Image, held, loaded>>
  BY DEF Refused, tableVars, InForce, Image
<1> QED
  BY <1>1, <1>2 DEF Promise!Drop, InForce, Image, Waiting

LEMMA SaveStores ==
  ASSUME Typing, held, NEW t, NEW from, NEW to, NEW x,
         Saved(t, x, from, to) \/ NotSaved(t, from, to)
  PROVE  Promise!Store
<1>1. UNCHANGED <<InForce, Waiting, loaded>> /\ held' = FALSE
  BY DEF Saved, NotSaved, tableVars, InForce, Waiting
<1>2. CASE NotSaved(t, from, to)
  <2>1. Image' = Image
    BY <1>2 DEF NotSaved, Image
  <2> QED
    BY <1>1, <2>1 DEF Promise!Store, InForce, Image, Waiting
<1>3. CASE Saved(t, x, from, to)
  <2>1. table \in Seq(Tag) /\ nvs' = TextOf(table)
    BY <1>3 DEF Saved, Typing, TypeOK
  <2>2. TextOf(table) \in Seq(Tag) /\ SameDefinitions(TextOf(table), table)
    BY <2>1, TextOfTable DEF SameDefinitions
  <2>3. nvs' # NoImage /\ Definitions(nvs') = InForce
    BY <2>1, <2>2, SameText, TablesAreTexts, NoImageAssumption DEF InForce
  <2>4. Image' = {InForce}
    BY <2>3 DEF Image
  <2> QED
    BY <1>1, <2>4 DEF Promise!Store, InForce, Image, Waiting
<1> QED
  BY <1>2, <1>3

LEMMA FirstUseFinds ==
  ASSUME Typing, NEW t \in Tasks, FindImage(t)
  PROVE  Promise!Find
<1>1. nvs \in Seq(Tag) /\ nvs # NoImage /\ t \in Texts /\ TypeOK
  BY DEF FindImage, Typing, TypeOK, Texts
<1>2. Definitions(Restored(nvs)) = Definitions(nvs)
  BY <1>1, RestoredTable, SameText, TablesAreTexts DEF SameDefinitions
<1>3. Waiting' = [Waiting EXCEPT ![t] = Definitions(nvs)]
  BY <1>1, <1>2, WaitingFor DEF FindImage
<1>4. Definitions(nvs) \in Image
  BY <1>1 DEF Image
<1>5. /\ ~loaded /\ ~held /\ InForce' = Definitions(Defaults)
      /\ UNCHANGED <<Image, held, loaded>>
  BY DEF FindImage, Replace, InForce, Image
<1> QED
  BY <1>1, <1>3, <1>4, <1>5 DEF Promise!Find, InForce, Image, Waiting

LEMMA FirstUseSupplies ==
  ASSUME NEW t \in Tasks, NoImageFound(t)
  PROVE  Promise!Supply
<1>1. InForce' = Promise!Completed(Definitions(Defaults))
  BY DefaultsAreTable, CompletionIsWithStart DEF NoImageFound, Replace, InForce
<1>2. ~held /\ ~loaded /\ loaded' = TRUE /\ UNCHANGED <<Image, Waiting, held>>
  BY DEF NoImageFound, Image, Waiting
<1> QED
  BY <1>1, <1>2 DEF Promise!Supply, InForce, Image, Waiting

LEMMA FinishCompletes ==
  ASSUME Typing, NEW t \in Tasks, Finish(t)
  PROVE  Promise!Complete
<1>1. table \in Seq(Tag) /\ Len(table) <= MaxTags
  BY DEF Typing, TypeOK
<1>2. InForce' = Promise!Completed(InForce)
  BY <1>1, CompletionIsWithStart DEF Finish, InForce
<1>3. ~held /\ loaded' = TRUE /\ UNCHANGED <<Image, Waiting, held>>
  BY DEF Finish, Image, Waiting
<1> QED
  BY <1>2, <1>3 DEF Promise!Complete, InForce, Image, Waiting

LEMMA PostReceives ==
  ASSUME Typing, PostTags
  PROVE  Promise!Receive
<1>1. PICK p \in Posts : input' = [input EXCEPT !["body"] = p]
  BY DEF PostTags
<1>2. Waiting' = [Waiting EXCEPT !["body"] = Definitions(p)] /\ "body" \in Texts
  BY <1>1, WaitingFor DEF Typing, Texts
<1>3. UNCHANGED <<InForce, Image, held, loaded>>
  BY DEF PostTags, Call, tableVars, InForce, Image
<1> QED
  BY <1>1, <1>2, <1>3 DEF Promise!Receive, InForce, Image, Waiting

LEMMA RebootRestarts ==
  ASSUME Reboot
  PROVE  Promise!Restart
<1>1. InForce' = <<>> /\ Waiting' = [x \in Texts |-> <<>>]
  BY NothingWaits DEF Reboot, InForce, Waiting
<1>2. held' = FALSE /\ loaded' = FALSE /\ Image' \in {Image, {}}
  BY DEF Reboot, Image
<1> QED
  BY <1>1, <1>2 DEF Promise!Restart, Promise!Nothing, InForce, Image, Waiting

\* Only a task that has replaced the table saves it, and until it has it holds the mutex.
Saves(t) == pc[t] \in {"restoreSave", "loadSave"}
Saver ==
  /\ \A t \in Tasks : Saves(t) => held
  /\ \A t, u \in Tasks : Saves(t) /\ Saves(u) => t = u

LEMMA MovesBesidesSaves ==
  ASSUME Typing, [Next]_vars
  PROVE  \/ held' = held /\ \A t \in Tasks : Saves(t)' => Saves(t)
         \/ \E t \in Tasks, next \in Pcs : ~held /\ held' = TRUE /\ Goto(t, next)
         \/ \E t \in Tasks, next \in Pcs \ {"restoreSave", "loadSave"} :
              Saves(t) /\ Goto(t, next)
         \/ pc' = [t \in Tasks |-> "idle"]
<1>0. pc \in [Tasks -> Pcs] /\ \A t \in Tasks : pc[t] \in Initialising => op[t] \in Ops
  BY DEF Typing, TypeOK, Calling
<1>1. ASSUME NEW t \in Tasks, NEW next \in Pcs \ {"restoreSave", "loadSave"}, Goto(t, next)
      PROVE  \A u \in Tasks : Saves(u)' => Saves(u)
  BY <1>0, <1>1 DEF Goto, Saves
<1>2. ASSUME NEW t \in Tasks, pc[t] \in Initialising, Enter(t)
      PROVE  \A u \in Tasks : Saves(u)' => Saves(u)
  <2>1. op[t] \in Pcs \ {"restoreSave", "loadSave"}
    BY <1>0, <1>2 DEF Pcs, Ops
  <2> QED
    BY <1>1, <1>2, <2>1 DEF Enter
<1>3. ASSUME NEW t \in Tasks, NEW section \in Ops, Call(t, section)
      PROVE  held' = held /\ \A u \in Tasks : Saves(u)' => Saves(u)
  <2>1. section \in Pcs \ {"restoreSave", "loadSave"} /\ "init" \in Pcs
    BY DEF Pcs, Ops
  <2> QED
    BY <1>1, <1>3, <2>1 DEF Call
<1>4. CASE \E t \in Tasks : FirstUse(t)
  <2>1. PICK t \in Tasks : FirstUse(t)
    BY <1>4
  <2>2. CASE CreateMutex(t) \/ AlreadyLoaded(t) \/ FindImage(t) \/ NoImageFound(t) \/ Finish(t)
    BY <1>1, <1>2, <2>2
       DEF CreateMutex, AlreadyLoaded, FindImage, NoImageFound, Finish, Initialising, Pcs
  <2>3. CASE LoadJson(t, t, "restore", "restoreSave", "finish")
    BY <1>1, <2>3 DEF LoadJson, Refused, Load, Saved, NotSaved, Saves, Pcs
  <2> QED
    BY <2>1, <2>2, <2>3 DEF FirstUse
<1>5. CASE LoadJson("httpd", "body", "parse", "loadSave", "idle")
  BY <1>1, <1>5 DEF LoadJson, Refused, Load, Saved, NotSaved, Saves, Pcs, Tasks
<1>6. CASE PostTags \/ PlcWrite \/ CallRegister \/ \E t \in {"httpd", "cache"} : CallRead(t)
  BY <1>3, <1>6 DEF PostTags, PlcWrite, CallRegister, CallRead, Tasks, Ops
<1>7. CASE WriteGet \/ WriteSet \/ Register \/ \E t \in {"httpd", "cache"} : Read(t)
  BY <1>1, <1>7 DEF WriteGet, WriteSet, Register, Read, Tasks, Pcs
<1>8. CASE SetMode \/ Discard \/ Script \/ UNCHANGED vars
  BY <1>8 DEF SetMode, Discard, Script, Activate, StartScan, ScanWrite, EndScan, vars, Saves
<1>9. CASE Reboot
  BY <1>9 DEF Reboot
<1> QED
  BY <1>4, <1>5, <1>6, <1>7, <1>8, <1>9 DEF Next, Httpd

LEMMA SaverAlways == Spec => []Saver
<1>1. Init => Saver
  BY DEF Init, Saver, Saves
<1>2. Typing /\ Saver /\ [Next]_vars => Saver'
  <2> SUFFICES ASSUME Typing, Saver, [Next]_vars PROVE Saver'
    OBVIOUS
  <2>0. pc \in [Tasks -> Pcs] /\ held \in BOOLEAN
    BY DEF Typing, TypeOK
  <2>1. CASE held' = held /\ \A t \in Tasks : Saves(t)' => Saves(t)
    BY <2>1 DEF Saver
  <2>2. CASE \E t \in Tasks, next \in Pcs : ~held /\ held' = TRUE /\ Goto(t, next)
    BY <2>0, <2>2 DEF Saver, Saves, Goto
  <2>3. CASE \E t \in Tasks, next \in Pcs \ {"restoreSave", "loadSave"} :
               Saves(t) /\ Goto(t, next)
    <3>1. \A t \in Tasks : ~Saves(t)'
      BY <2>0, <2>3 DEF Saver, Saves, Goto
    <3> QED
      BY <3>1 DEF Saver
  <2>4. CASE pc' = [t \in Tasks |-> "idle"]
    BY <2>4 DEF Saver, Saves
  <2> QED
    BY <2>1, <2>2, <2>3, <2>4, MovesBesidesSaves
<1>3. Spec => []Typing
  BY TypesInitially, TypesKept, PTL DEF Spec
<1> QED
  BY <1>1, <1>2, <1>3, PTL DEF Spec

LEMMA LoadImplements ==
  ASSUME Typing, Saver, NEW t \in Tasks, NEW x \in Texts, NEW from, NEW to,
         NEW save \in {"restoreSave", "loadSave"}, LoadJson(t, x, from, save, to)
  PROVE  Promise!Next
<1>1. CASE Refused(t, x, from, to)
  BY <1>1, RefusalDrops DEF Promise!Next
<1>2. CASE Load(t, x, from, save)
  BY <1>2, LoadReplaces DEF Promise!Next
<1>3. CASE Saved(t, x, save, to) \/ NotSaved(t, save, to)
  <2>1. held
    BY <1>3 DEF Saved, NotSaved, Saver, Saves
  <2> QED
    BY <1>3, <2>1, SaveStores DEF Promise!Next
<1> QED
  BY <1>1, <1>2, <1>3 DEF LoadJson

\* The registry implements TagTable, for every number of slots and all texts: no interleaving
\* of first callers, uploads, saves, writes and resets changes a definition in another way
\* than by a whole legal text, or stores anything but the tags in force.
THEOREM TableRefines == Spec => KeepsTable
<1>1. Init => Promise!Init
  <2> SUFFICES ASSUME Init PROVE Promise!Init
    OBVIOUS
  <2>1. InForce = <<>> /\ Waiting = [x \in Texts |-> <<>>]
    BY NothingWaits DEF Init, InForce, Waiting
  <2>2. \E nvs0 \in Stored : Image = {Definitions(s) : s \in {nvs0} \ {NoImage}}
    BY DEF Init, Image
  <2>3. held = FALSE /\ loaded = FALSE
    BY DEF Init
  <2> QED
    BY <2>1, <2>2, <2>3 DEF Promise!Init, Promise!Nothing, InForce, Image, Waiting
<1>2. Typing /\ Saver /\ [Next]_vars => [Promise!Next]_(Promise!table)
  <2> SUFFICES ASSUME Typing, Saver, [Next]_vars PROVE Promise!Next \/ Unseen
    BY DEF Promise!table, Unseen, InForce, Image, Waiting
  <2>1. CASE \E t \in Tasks : FirstUse(t)
    <3>1. PICK t \in Tasks : FirstUse(t)
      BY <2>1
    <3>2. CASE FindImage(t) \/ NoImageFound(t) \/ Finish(t)
      BY <3>2, FirstUseFinds, FirstUseSupplies, FinishCompletes DEF Promise!Next
    <3>3. CASE LoadJson(t, t, "restore", "restoreSave", "finish")
      BY <3>3, LoadImplements DEF Texts
    <3>4. CASE CreateMutex(t) \/ AlreadyLoaded(t)
      BY <3>4, HiddenUnseen DEF Hidden
    <3> QED
      BY <3>1, <3>2, <3>3, <3>4 DEF FirstUse
  <2>2. CASE LoadJson("httpd", "body", "parse", "loadSave", "idle")
    BY <2>2, LoadImplements DEF Tasks, Texts
  <2>3. CASE PostTags \/ Reboot
    BY <2>3, PostReceives, RebootRestarts DEF Promise!Next
  <2>4. CASE WriteSet \/ ScanWrite
    BY <2>4, WritesUnseen
  <2>5. CASE Hidden
    BY <2>5, HiddenUnseen
  <2> QED
    BY <2>1, <2>2, <2>3, <2>4, <2>5 DEF Next, Httpd, Script, Hidden, Tasks
<1>3. Spec => []Typing
  BY TypesInitially, TypesKept, PTL DEF Spec
<1> QED
  BY <1>1, <1>2, <1>3, SaverAlways, PTL DEF Spec, KeepsTable, Promise!Spec

-----------------------------------------------------------------------------
\* What was answered OK. An initialisation that is still to load, or to save, the stored text
\* has the answered one in its hands, and no other upload is under way.
Kept ==
  \A text \in answered : \A t \in Tasks :
    /\ pc[t] = "restore" => Definitions(input[t]) = text
    /\ pc[t] = "restoreSave" => Definitions(table) = text
    /\ pc[t] # "loadSave"

OkInv == OkIsStored /\ Kept

\* Steps that bring no task closer to a load or a save of the table.
Loading == {"restore", "restoreSave", "loadSave"}
Calm == \A u \in Tasks : pc'[u] \in Loading => pc'[u] = pc[u] /\ input'[u] = input[u]

LEMMA MoveIsCalm ==
  ASSUME Typing, NEW t \in Tasks, NEW next, next \notin Loading, Goto(t, next),
         \A u \in Tasks \ {t} : input'[u] = input[u]
  PROVE  Calm
BY DEF Typing, TypeOK, Goto, Calm

LEMMA CalmKeeps ==
  ASSUME Kept, Calm, answered' \subseteq answered,
         Definitions(table') = Definitions(table) \/ (\A t \in Tasks : pc[t] # "restoreSave")
  PROVE  Kept'
BY DEF Kept, Calm, Loading

\* A tag at the end is all that completing a table a second time could add.
LEMMA CompletedOnce ==
  ASSUME NEW text \in Answers, NEW tags \in Seq(Tag), Len(tags) <= MaxTags,
         Definitions(tags) \in {text, Append(text, Definition(StartTag))}
  PROVE  Definitions(WithStart(tags)) \in {text, Append(text, Definition(StartTag))}
<1>1. /\ Definitions(WithStart(tags)) = Promise!Completed(Definitions(tags))
      /\ Definitions(tags) \in Answers
  BY CompletionIsWithStart, DefinitionsOfTable
<1>2. Definition(StartTag).name = Start
  BY DEF Definition, StartTag
<1>3. CASE Definitions(tags) = text
  BY <1>1, <1>3 DEF Promise!Completed
<1>4. CASE Definitions(tags) = Append(text, Definition(StartTag))
  <2>1. /\ Len(text) + 1 \in 1..Len(Definitions(tags))
        /\ Definitions(tags)[Len(text) + 1] = Definition(StartTag)
    BY <1>4 DEF Answers
  <2>2. Definition(StartTag).name \in Promise!NamesIn(Definitions(tags))
    BY <2>1 DEF Promise!NamesIn
  <2> QED
    BY <1>1, <1>4, <2>2 DEF Promise!Completed
<1> QED
  BY <1>3, <1>4

\* Steps that leave the text in NVS and the answer alone; they add the compatibility tag, put
\* the defaults back, load a stored text, or do not change a definition.
LEMMA OkUntouched ==
  ASSUME Typing, OkIsStored, answered' \subseteq answered, nvs' = nvs,
         \/ Definitions(table') = Definitions(table) /\ fromText' = fromText
         \/ table' = WithStart(table) /\ fromText' = fromText
         \/ fromText' = FALSE
         \/ \A text \in answered' : Definitions(table') = text
  PROVE  OkIsStored'
<1> SUFFICES ASSUME NEW text \in answered'
             PROVE  /\ nvs' # NoImage /\ Definitions(nvs') = text
                    /\ fromText' =>
                         Definitions(table') \in {text, Append(text, Definition(StartTag))}
  BY DEF OkIsStored
<1>1. /\ text \in Answers /\ table \in Seq(Tag) /\ Len(table) <= MaxTags
      /\ nvs # NoImage /\ Definitions(nvs) = text
      /\ fromText => Definitions(table) \in {text, Append(text, Definition(StartTag))}
  BY DEF Typing, TypeOK, OkIsStored
<1>2. CASE Definitions(table') = Definitions(table) /\ fromText' = fromText
  BY <1>1, <1>2
<1>3. CASE table' = WithStart(table) /\ fromText' = fromText
  BY <1>1, <1>3, CompletedOnce
<1>4. CASE fromText' = FALSE
  BY <1>1, <1>4
<1>5. CASE \A text0 \in answered' : Definitions(table') = text0
  BY <1>1, <1>5
<1> QED
  BY <1>2, <1>3, <1>4, <1>5

LEMMA OkHidden ==
  ASSUME Typing, OkInv, Hidden \/ PostTags \/ WriteSet \/ ScanWrite
  PROVE  OkInv'
<1>1. answered' = answered /\ nvs' = nvs /\ fromText' = fromText
  BY DEF Hidden, vars, tableVars, CreateMutex, AlreadyLoaded, CallRead, Call, Read, PlcWrite,
         WriteGet, SetMode, CallRegister, Register, Discard, Activate, StartScan, EndScan,
         PostTags, WriteSet, ScanWrite
<1>2. Definitions(table') = Definitions(table)
  <2>1. CASE WriteSet \/ ScanWrite
    BY <2>1, ValuesInvisible DEF InForce
  <2>2. CASE Hidden \/ PostTags
    BY <2>2
       DEF Hidden, vars, tableVars, CreateMutex, AlreadyLoaded, CallRead, Call, Read, PlcWrite,
           WriteGet, SetMode, CallRegister, Register, Discard, Activate, StartScan, EndScan,
           PostTags
  <2> QED
    BY <2>1, <2>2
<1>3. Calm
  <2>0. /\ pc \in [Tasks -> Pcs] /\ input \in [Texts -> Seq(Entry)]
        /\ \A t \in Tasks : pc[t] \in Initialising => op[t] \in Ops
    BY DEF Typing, TypeOK, Calling
  <2>1. \A u \in Tasks : input'[u] = input[u]
    BY <2>0 DEF Hidden, vars, CreateMutex, AlreadyLoaded, CallRead, Call, Read, PlcWrite,
           WriteGet, SetMode, CallRegister, Register, Discard, Activate, StartScan, EndScan,
           PostTags, WriteSet, ScanWrite, Tasks, Texts
  <2>2. ASSUME NEW t \in Tasks, NEW section \in Ops, Call(t, section) PROVE Calm
    <3>1. section \notin Loading /\ "init" \notin Loading
      BY DEF Ops, Loading
    <3> QED
      BY <2>1, <2>2, <3>1, MoveIsCalm DEF Call
  <2>3. ASSUME NEW t \in Tasks, pc[t] \in Initialising, Enter(t) PROVE Calm
    <3>1. op[t] \notin Loading
      BY <2>0, <2>3 DEF Ops, Loading
    <3> QED
      BY <2>1, <2>3, <3>1, MoveIsCalm DEF Enter
  <2>4. CASE \E t \in Tasks : CreateMutex(t) \/ AlreadyLoaded(t)
    BY <2>1, <2>3, <2>4, MoveIsCalm DEF CreateMutex, AlreadyLoaded, Initialising, Loading
  <2>5. CASE PostTags \/ PlcWrite \/ CallRegister \/ \E t \in Tasks : CallRead(t)
    BY <2>2, <2>5 DEF PostTags, PlcWrite, CallRegister, CallRead, Ops, Tasks
  <2>6. CASE WriteGet \/ WriteSet \/ Register \/ \E t \in Tasks : Read(t)
    BY <2>1, <2>6, MoveIsCalm DEF WriteGet, WriteSet, Register, Read, Loading, Tasks
  <2>7. CASE pc' = pc
    BY <2>1, <2>7 DEF Calm
  <2>8. SetMode \/ Discard \/ Activate \/ StartScan \/ ScanWrite \/ EndScan \/ UNCHANGED vars
          => pc' = pc
    BY DEF SetMode, Discard, Activate, StartScan, ScanWrite, EndScan, vars
  <2> QED
    BY <2>4, <2>5, <2>6, <2>7, <2>8 DEF Hidden
<1> QED
  BY <1>1, <1>2, <1>3, OkUntouched, CalmKeeps DEF OkInv

\* The steps of an initialisation but for its load.
LEMMA OkFirstUse ==
  ASSUME Typing, Saver, OkInv, NEW t \in Tasks, FindImage(t) \/ NoImageFound(t) \/ Finish(t)
  PROVE  OkInv'
<1>0. /\ pc \in [Tasks -> Pcs] /\ input \in [Texts -> Seq(Entry)]
      /\ \A u \in Tasks : pc[u] \in Initialising => op[u] \in Ops
  BY DEF Typing, TypeOK, Calling
<1>1. answered' = answered /\ nvs' = nvs /\ \A u \in Tasks : pc[u] # "restoreSave"
  BY DEF FindImage, NoImageFound, Finish, Saver, Saves
<1>2. OkIsStored'
  BY <1>1, OkUntouched DEF FindImage, NoImageFound, Finish, Replace, OkInv
<1>3. CASE NoImageFound(t) \/ Finish(t)
  <2>1. op[t] \notin Loading
    BY <1>0, <1>3 DEF NoImageFound, Finish, Initialising, Ops, Loading
  <2>2. Calm
    BY <1>3, <2>1, MoveIsCalm DEF NoImageFound, Finish, Enter
  <2> QED
    BY <1>1, <1>2, <2>2, CalmKeeps DEF OkInv
<1>4. CASE FindImage(t)
  <2>1. pc' = [pc EXCEPT ![t] = "restore"] /\ input' = [input EXCEPT ![t] = Restored(nvs)]
    BY <1>4 DEF FindImage, Goto
  <2>2. nvs \in Seq(Tag)
    BY <1>4 DEF FindImage, Typing, TypeOK
  <2>3. Definitions(Restored(nvs)) = Definitions(nvs)
    BY <2>2, RestoredTable, SameText, TablesAreTexts DEF SameDefinitions
  <2>4. \A text \in answered : Definitions(nvs) = text
    BY DEF OkInv, OkIsStored
  <2>5. Tasks \subseteq Texts
    BY DEF Texts
  <2>6. Kept'
    BY <1>0, <1>1, <2>1, <2>3, <2>4, <2>5 DEF Kept, OkInv
  <2> QED
    BY <1>2, <2>6 DEF OkInv
<1> QED
  BY <1>3, <1>4

\* plc_tags_load_json of the stored text.
LEMMA OkRestored ==
  ASSUME Typing, Saver, OkInv, NEW t \in Tasks,
         LoadJson(t, t, "restore", "restoreSave", "finish")
  PROVE  OkInv'
<1>0. /\ pc \in [Tasks -> Pcs] /\ input \in [Texts -> Seq(Entry)] /\ table \in Seq(Tag)
      /\ Tasks \subseteq Texts /\ "body" \notin Tasks
      /\ nvs # NoImage => nvs \in Seq(Tag)
  BY DEF Typing, TypeOK, Texts, Tasks
<1>1. CASE Refused(t, t, "restore", "finish")
  <2>1. Calm
    BY <1>0, <1>1, MoveIsCalm DEF Refused, Forget, Loading
  <2> QED
    BY <1>1, <2>1, OkUntouched, CalmKeeps DEF Refused, tableVars, OkInv
<1>2. CASE Load(t, t, "restore", "restoreSave")
  <2>1. /\ pc[t] = "restore" /\ table' = input[t] /\ answered' = answered /\ nvs' = nvs
        /\ pc' = [pc EXCEPT ![t] = "restoreSave"] /\ input' = [input EXCEPT ![t] = <<>>]
        /\ \A u \in Tasks : pc[u] # "restoreSave"
    BY <1>0, <1>2 DEF Load, Replace, Forget, Goto, Saver, Saves
  <2>2. \A text \in answered : Definitions(table') = text
    BY <2>1 DEF OkInv, Kept
  <2>3. Kept'
    BY <1>0, <2>1, <2>2 DEF OkInv, Kept
  <2> QED
    BY <2>1, <2>2, <2>3, OkUntouched DEF OkInv
<1>3. CASE Saved(t, t, "restoreSave", "finish")
  <2>1. /\ pc[t] = "restoreSave" /\ answered' = answered /\ nvs' = TextOf(table)
        /\ UNCHANGED <<table, fromText, input>> /\ Goto(t, "finish")
    BY <1>0, <1>3 DEF Saved
  <2>2. Calm
    BY <2>1, MoveIsCalm DEF Loading
  <2>3. TextOf(table) # NoImage /\ Definitions(TextOf(table)) = Definitions(table)
    BY <1>0, TextOfTable, SameText, TablesAreTexts, NoImageAssumption DEF SameDefinitions
  <2>4. \A text \in answered : Definitions(table) = text
    BY <2>1 DEF OkInv, Kept
  <2>5. OkIsStored'
    BY <2>1, <2>3, <2>4 DEF OkIsStored
  <2> QED
    BY <2>1, <2>2, <2>5, CalmKeeps DEF OkInv
<1>4. CASE NotSaved(t, "restoreSave", "finish")
  <2>1. Calm
    BY <1>4, MoveIsCalm DEF NotSaved, Loading
  <2> QED
    BY <1>4, <2>1, OkUntouched, CalmKeeps DEF NotSaved, tableVars, OkInv
<1> QED
  BY <1>1, <1>2, <1>3, <1>4 DEF LoadJson

\* The same of an upload: it ends what was promised before, and its own answer promises
\* something only if no initialisation is still to load the stored text.
LEMMA OkUploaded ==
  ASSUME Typing, Saver, OkInv, LoadJson("httpd", "body", "parse", "loadSave", "idle")
  PROVE  OkInv'
<1>0. /\ pc \in [Tasks -> Pcs] /\ input \in [Texts -> Seq(Entry)] /\ table \in Seq(Tag)
      /\ "httpd" \in Tasks /\ "body" \notin Tasks /\ Tasks \subseteq Texts
  BY DEF Typing, TypeOK, Texts, Tasks
<1>1. CASE Refused("httpd", "body", "parse", "idle")
  <2>1. Calm
    BY <1>0, <1>1, MoveIsCalm DEF Refused, Forget, Loading
  <2> QED
    BY <1>1, <2>1, OkUntouched, CalmKeeps DEF Refused, tableVars, OkInv
<1>2. CASE Load("httpd", "body", "parse", "loadSave")
  BY <1>2 DEF Load, OkInv, OkIsStored, Kept
<1>3. CASE Saved("httpd", "body", "loadSave", "idle")
  <2>1. /\ pc["httpd"] = "loadSave" /\ nvs' = TextOf(table) /\ table' = table
        /\ pc' = [pc EXCEPT !["httpd"] = "idle"]
        /\ answered' = IF Settled THEN {Definitions(table)} ELSE answered
    BY <1>3 DEF Saved, Goto
  <2>2. answered = {}
    BY <1>0, <2>1 DEF OkInv, Kept
  <2>3. CASE ~Settled
    BY <2>1, <2>2, <2>3 DEF OkInv, OkIsStored, Kept
  <2>4. CASE Settled
    <3>1. TextOf(table) # NoImage /\ Definitions(TextOf(table)) = Definitions(table)
      BY <1>0, TextOfTable, SameText, TablesAreTexts, NoImageAssumption DEF SameDefinitions
    <3>2. OkIsStored'
      BY <2>1, <2>4, <3>1 DEF OkIsStored
    <3>3. \A u \in Tasks : pc[u] # "restore" /\ (u # "httpd" => ~Saves(u))
      BY <1>0, <2>1, <2>4 DEF Settled, Saver, Saves
    <3>4. Kept'
      BY <1>0, <2>1, <3>3 DEF Kept, Saves
    <3> QED
      BY <3>2, <3>4 DEF OkInv
  <2> QED
    BY <2>3, <2>4
<1>4. CASE NotSaved("httpd", "loadSave", "idle")
  <2>1. Calm
    BY <1>0, <1>4, MoveIsCalm DEF NotSaved, Loading
  <2> QED
    BY <1>4, <2>1, OkUntouched, CalmKeeps DEF NotSaved, tableVars, OkInv
<1> QED
  BY <1>1, <1>2, <1>3, <1>4 DEF LoadJson

\* A reset leaves the text that was answered, or NVS is erased and nothing is promised.
LEMMA OkRestarted ==
  ASSUME OkInv, Reboot
  PROVE  OkInv'
BY DEF Reboot, OkInv, OkIsStored, Kept

\* What an upload was answered OK for stays in NVS through resets, and what is loaded from there
\* is that upload: for every number of slots, whatever is uploaded, refused, restored twice or
\* not at all; but for uploads answered during an initialisation, and an erased NVS.
THEOREM AnsweredOkIsStored == Spec => []OkIsStored
<1>1. Init => OkInv
  BY DEF Init, OkInv, OkIsStored, Kept
<1>2. Typing /\ Saver /\ OkInv /\ [Next]_vars => OkInv'
  <2> SUFFICES ASSUME Typing, Saver, OkInv, [Next]_vars PROVE OkInv'
    OBVIOUS
  <2>1. CASE \E t \in Tasks : FirstUse(t)
    BY <2>1, OkHidden, OkFirstUse, OkRestored DEF FirstUse, Hidden
  <2>2. CASE LoadJson("httpd", "body", "parse", "loadSave", "idle")
    BY <2>2, OkUploaded
  <2>3. CASE Reboot
    BY <2>3, OkRestarted
  <2>4. CASE Hidden \/ PostTags \/ WriteSet \/ ScanWrite
    BY <2>4, OkHidden
  <2> QED
    BY <2>1, <2>2, <2>3, <2>4 DEF Next, Httpd, Script, Hidden, Tasks
<1>3. OkInv => OkIsStored
  BY DEF OkInv
<1>4. Spec => []Typing
  BY TypesInitially, TypesKept, PTL DEF Spec
<1> QED
  BY <1>1, <1>2, <1>3, <1>4, SaverAlways, PTL DEF Spec
=============================================================================
