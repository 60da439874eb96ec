------------------------ MODULE HostAttributesProofs ------------------------
(***************************************************************************)
(* A row, the details under it and the log agree on what a host said last. *)
(*                                                                         *)
(* Both loops are folds, over the lines of a report and over the pairs     *)
(* made of them.  Tells says what the two come to, line after line; a      *)
(* report then moves every column from what it was to what the last line   *)
(* with its key says.  The rows alone are not inductive: the history of a  *)
(* host that is gone has to be empty when it comes back (IInv).            *)
(***************************************************************************)
EXTENDS HostAttributes, DataProofs

-----------------------------------------------------------------------------
(* One pair, one field.                                                    *)

(* Whatever a text is, it is parsed to a u32.                              *)
LEMMA Numbers ==
    ASSUME NEW v
    PROVE  ParseU32(v) \in 0..(U32 - 1) /\ ParseF64AsU32(v) \in 0..(U32 - 1)
BY AttributesAssumption DEF ParseU32, ParseF64AsU32

(* What a new host has.                                                    *)
LEMMA DefaultFields ==
    Default \in Fields
BY AttributesAssumption, EmptySeq DEF Default, Fields, Word

(* A pair sets the field of its key and no other.                          *)
LEMMA SetFieldLaws ==
    ASSUME NEW f \in Fields, NEW p \in Pair
    PROVE  /\ SetField(f, p) \in Fields
           /\ \A k \in Field :
                SetField(f, p)[k] = IF p.key = k THEN Parsed(k, p.value) ELSE f[k]
<1> DEFINE v == p.value
<1>1. v \in Word /\ ParseU32(v) \in 0..(U32 - 1) /\ ParseF64AsU32(v) \in 0..(U32 - 1)
  BY Numbers DEF Pair
<1>2. CASE p.key \notin Field
  BY <1>2 DEF SetField
<1>3. CASE p.key = "Name"
  BY <1>1, <1>3 DEF SetField, Field, Fields, Parsed
<1>4. CASE p.key = "MaxJobs"
  BY <1>1, <1>4 DEF SetField, Field, Fields, Parsed
<1>5. CASE p.key = "Speed"
  BY <1>1, <1>5 DEF SetField, Field, Fields, Parsed
<1>6. CASE p.key = "Platform"
  BY <1>1, <1>6 DEF SetField, Field, Fields, Parsed
<1>7. CASE p.key = "NoRemote"
  <2> DEFINE b == Parsed("NoRemote", v)
  <2>1. b \in BOOLEAN
    BY DEF Parsed
  <2>2. SetField(f, p) = [f EXCEPT !["NoRemote"] = b]
    BY <1>7 DEF SetField, Field
  <2> HIDE DEF b
  <2>3. /\ [f EXCEPT !["NoRemote"] = b] \in Fields
        /\ \A k \in Field : [f EXCEPT !["NoRemote"] = b][k] = IF "NoRemote" = k THEN b ELSE f[k]
    BY <2>1 DEF Fields, Field
  <2> QED BY <1>7, <2>2, <2>3 DEF b
<1>8. CASE p.key = "IP"
  BY <1>1, <1>8 DEF SetField, Field, Fields, Parsed
<1> QED BY <1>2, <1>3, <1>4, <1>5, <1>6, <1>7, <1>8 DEF Field

-----------------------------------------------------------------------------
(* The fold over the pairs.                                                *)

Setting == [p \in Fields \X Pair |-> SetField(p[1], p[2])]
FieldsAfter(f, attrs) == Folded(Setting, f, attrs)

(* SetField as a function.                                                 *)
LEMMA SettingIsStep ==
    /\ IsStep(Setting, Fields, Pair)
    /\ \A f \in Fields, p \in Pair : Setting[<<f, p>>] = SetField(f, p)
<1>1. \A f \in Fields, p \in Pair : SetField(f, p) \in Fields
  BY SetFieldLaws
<1> QED BY <1>1 DEF IsStep, Setting

(* The loop of update_attrs is that fold.                                  *)
LEMMA SetFieldFolds ==
    ASSUME NEW f \in Fields, NEW q \in Seq(Pair)
    PROVE  FoldLeft(SetField, f, q) = FieldsAfter(f, q)
<1> DEFINE Value(g, t) ==
             IF t = {} THEN f ELSE SetField(g[t \ {Max(t)}], q[Max(t)])
           Step(g, t) ==
             IF t = {} THEN f ELSE Setting[<<g[t \ {Max(t)}], q[Max(t)]>>]
           Is(g) == g = [t \in SUBSET DOMAIN q |-> Value(g, t)]
           it == CHOOSE g : Is(g)
<1>1. FoldLeft(SetField, f, q) = it[DOMAIN q]
  BY DEF FoldLeft, MapThenFoldSet
<1>2. PICK g : IsFoldIteration(g, Setting, f, q)
  BY SettingIsStep, FoldExists
<1>3. ASSUME NEW t \in SUBSET DOMAIN q, t # {} PROVE Max(t) \in t /\ q[Max(t)] \in Pair
  <2>1. DOMAIN q = 1..Len(q) /\ Len(q) \in Nat
    OBVIOUS
  <2>2. Max(t) \in t
    BY <1>3, <2>1, MaxOfPlaces
  <2> QED BY <2>1, <2>2
<1>4. ASSUME NEW h, \A t \in SUBSET DOMAIN q : h[t] \in Fields, NEW t \in SUBSET DOMAIN q
      PROVE  Value(h, t) = Step(h, t)
  <2>1. t # {} => h[t \ {Max(t)}] \in Fields /\ q[Max(t)] \in Pair
    BY <1>3, <1>4
  <2> QED BY <2>1, SettingIsStep
<1>5. \A t \in SUBSET DOMAIN q : g[t] \in Fields
  BY <1>2, SettingIsStep, FoldExists
<1>6. Is(g)
  <2>1. g = [t \in SUBSET DOMAIN q |-> Step(g, t)]
    BY <1>2 DEF IsFoldIteration
  <2>2. \A t \in SUBSET DOMAIN q : Value(g, t) = Step(g, t)
    BY <1>4, <1>5
  <2> HIDE DEF Value, Step
  <2> QED BY <2>1, <2>2
<1>7. Is(it)
  <2> HIDE DEF Is
  <2> QED BY <1>6
<1> HIDE DEF it
<1>8. Folds(it, Setting, f, q, Fields)
  BY <1>3, <1>7, SettingIsStep DEF Folds
<1> HIDE DEF Is
<1>9. it[DOMAIN q] = Folded(Setting, f, q)
  BY <1>8, SettingIsStep, FoldMatches
<1> QED BY <1>1, <1>9 DEF FieldsAfter

(* Pair after pair.                                                        *)
LEMMA FieldsAfterLaws ==
    ASSUME NEW f \in Fields
    PROVE  /\ FieldsAfter(f, <<>>) = f
           /\ \A q \in Seq(Pair) :
                /\ FieldsAfter(f, q) \in Fields
                /\ \A p \in Pair :
                     FieldsAfter(f, Append(q, p)) = SetField(FieldsAfter(f, q), p)
<1>1. FieldsAfter(f, <<>>) = f
  BY SettingIsStep, FoldEmpty DEF FieldsAfter
<1>2. \A q \in Seq(Pair) : FieldsAfter(f, q) \in Fields
  BY SettingIsStep, FoldOfRun DEF FieldsAfter
<1>3. \A q \in Seq(Pair), p \in Pair :
        FieldsAfter(f, Append(q, p)) = Setting[<<FieldsAfter(f, q), p>>]
  BY SettingIsStep, FoldAppend DEF FieldsAfter
<1> QED BY <1>1, <1>2, <1>3, SettingIsStep

-----------------------------------------------------------------------------
(* The fold over the lines.                                                *)

Pushing == [p \in Seq(Pair) \X Word |-> PushLine(p[1], p[2])]

(* PushLine as a function.                                                 *)
LEMMA PushingIsStep ==
    /\ IsStep(Pushing, Seq(Pair), Word)
    /\ \A a \in Seq(Pair), l \in Word : Pushing[<<a, l>>] = PushLine(a, l)
<1>1. \A a \in Seq(Pair), l \in Word : PushLine(a, l) \in Seq(Pair)
  <2> TAKE a \in Seq(Pair), l \in Word
  <2>1. CASE Len(l) > 1
    <3>1. l # <<>>
      BY <2>1, EmptySeq
    <3>2. Head(l) \in Part /\ Tail(l) \in Word
      BY <3>1, HeadTailProperties DEF Word
    <3>3. [key |-> Head(l), value |-> Tail(l)] \in Pair
      BY <3>2 DEF Pair
    <3> QED BY <2>1, <3>3, AppendProperties DEF PushLine
  <2>2. CASE ~(Len(l) > 1)
    BY <2>2 DEF PushLine
  <2> QED BY <2>1, <2>2
<1>2. \A p \in Seq(Pair) \X Word : PushLine(p[1], p[2]) \in Seq(Pair)
  <2> TAKE p \in Seq(Pair) \X Word
  <2>1. p[1] \in Seq(Pair) /\ p[2] \in Word
    OBVIOUS
  <2> QED BY <1>1, <2>1
<1> QED BY <1>2, Zenon DEF IsStep, Pushing

(* The loop of parse_stats is a fold of it.                                *)
LEMMA ParseStatsFolds ==
    ASSUME NEW text \in Seq(Word)
    PROVE  parse_stats(text) = Folded(Pushing, <<>>, text)
<1> DEFINE none == <<>>
           Value(g, t) ==
             IF t = {} THEN none ELSE PushLine(g[t \ {Max(t)}], text[Max(t)])
           Step(g, t) ==
             IF t = {} THEN none ELSE Pushing[<<g[t \ {Max(t)}], text[Max(t)]>>]
           Is(g) == g = [t \in SUBSET DOMAIN text |-> Value(g, t)]
           it == CHOOSE g : Is(g)
<1>1. parse_stats(text) = it[DOMAIN text]
  BY DEF parse_stats, FoldLeft, MapThenFoldSet
<1>0. none \in Seq(Pair)
  BY EmptySeq
<1> HIDE DEF none
<1>2. PICK g : IsFoldIteration(g, Pushing, none, text)
  BY <1>0, PushingIsStep, FoldExists
<1>3. ASSUME NEW t \in SUBSET DOMAIN text, t # {} PROVE Max(t) \in t /\ text[Max(t)] \in Word
  <2>1. DOMAIN text = 1..Len(text) /\ Len(text) \in Nat
    OBVIOUS
  <2>2. Max(t) \in t
    BY <1>3, <2>1, MaxOfPlaces
  <2> QED BY <2>1, <2>2
<1>4. ASSUME NEW h, \A t \in SUBSET DOMAIN text : h[t] \in Seq(Pair), NEW t \in SUBSET DOMAIN text
      PROVE  Value(h, t) = Step(h, t)
  <2>1. t # {} => h[t \ {Max(t)}] \in Seq(Pair) /\ text[Max(t)] \in Word
    BY <1>3, <1>4
  <2> QED BY <2>1, PushingIsStep
<1>5. \A t \in SUBSET DOMAIN text : g[t] \in Seq(Pair)
  BY <1>0, <1>2, PushingIsStep, FoldExists
<1>6. Is(g)
  <2>1. g = [t \in SUBSET DOMAIN text |-> Step(g, t)]
    BY <1>2 DEF IsFoldIteration
  <2>2. \A t \in SUBSET DOMAIN text : Value(g, t) = Step(g, t)
    BY <1>4, <1>5
  <2> HIDE DEF Value, Step
  <2> QED BY <2>1, <2>2
<1>7. Is(it)
  <2> HIDE DEF Is
  <2> QED BY <1>6
<1> HIDE DEF it
<1>8. Folds(it, Pushing, none, text, Seq(Pair))
  BY <1>3, <1>7, PushingIsStep DEF Folds
<1> HIDE DEF Is
<1>9. it[DOMAIN text] = Folded(Pushing, none, text)
  BY <1>0, <1>8, PushingIsStep, FoldMatches
<1> QED BY <1>1, <1>9 DEF none

-----------------------------------------------------------------------------
(* What the folds come to.                                                 *)

(* The last pair with a column's key is what that column shows.            *)
Explains(f, attrs) ==
    \A i \in DOMAIN attrs :
        attrs[i].key \in Field /\ (\A j \in DOMAIN attrs : j > i => attrs[j].key # attrs[i].key)
            => f[attrs[i].key] = Parsed(attrs[i].key, attrs[i].value)

(* The list explains what it was folded to.                                *)
LEMMA ListExplainsFields ==
    ASSUME NEW f \in Fields, NEW attrs \in Seq(Pair)
    PROVE  Explains(FieldsAfter(f, attrs), attrs)
<1> DEFINE T == {q \in Seq(Pair) : Explains(FieldsAfter(f, q), q)}
<1>1. <<>> \in T
  BY EmptySeq DEF Explains
<1>2. ASSUME NEW q \in T, NEW p \in Pair PROVE Append(q, p) \in T
  <2> DEFINE r == Append(q, p)
             g == FieldsAfter(f, q)
  <2>1. /\ q \in Seq(Pair) /\ Explains(g, q) /\ g \in Fields
        /\ FieldsAfter(f, r) = SetField(g, p)
    BY FieldsAfterLaws
  <2>2. /\ r \in Seq(Pair) /\ Len(q) \in Nat /\ DOMAIN q = 1..Len(q)
        /\ DOMAIN r = 1..(Len(q) + 1)
        /\ r[Len(q) + 1] = p /\ \A i \in DOMAIN q : r[i] = q[i] /\ q[i] \in Pair
    BY <2>1, AppendProperties, LenProperties
  <2> HIDE DEF r, g
  <2>3. ASSUME NEW i \in DOMAIN r, r[i].key \in Field,
               \A j \in DOMAIN r : j > i => r[j].key # r[i].key
        PROVE  SetField(g, p)[r[i].key] = Parsed(r[i].key, r[i].value)
    <3>1. CASE i = Len(q) + 1
      BY <2>1, <2>2, <2>3, <3>1, SetFieldLaws
    <3>2. CASE i \in DOMAIN q
      <4>1. p.key # q[i].key /\ q[i].key \in Field /\ r[i] = q[i]
        BY <2>2, <2>3, <3>2
      <4>2. \A j \in DOMAIN q : j > i => q[j].key # q[i].key
        BY <2>2, <2>3, <3>2
      <4>3. g[q[i].key] = Parsed(q[i].key, q[i].value)
        BY <2>1, <3>2, <4>1, <4>2 DEF Explains
      <4>4. SetField(g, p)[q[i].key] = g[q[i].key]
        BY <2>1, <4>1, SetFieldLaws
      <4> QED BY <4>1, <4>3, <4>4
    <3> QED BY <2>2, <3>1, <3>2
  <2>4. Explains(SetField(g, p), r)
    BY <2>3 DEF Explains
  <2> QED BY <2>1, <2>2, <2>4 DEF r
<1>3. T = Seq(Pair)
  <2> HIDE DEF T
  <2>1. T \in SUBSET Seq(Pair)
    BY DEF T
  <2> QED BY <1>1, <1>2, <2>1, AppendInduction
<1> QED BY <1>3

(* A line of a report with a colon, under its key.                         *)
Says(l, k) == Len(l) > 1 /\ Head(l) = k

(* What the pairs of a text are, and the fields they make of those before. *)
Tells(f, attrs, text) ==
    /\ attrs \in Seq(Pair)
    /\ \A k : Has(attrs, k) <=> \E i \in DOMAIN text : Says(text[i], k)
    /\ \A i \in DOMAIN attrs : \E j \in DOMAIN text : attrs[i].value = Tail(text[j])
    /\ \A k \in Field :
         /\ ~Has(attrs, k) => FieldsAfter(f, attrs)[k] = f[k]
         /\ \A i \in DOMAIN text :
              Says(text[i], k) /\ (\A j \in DOMAIN text : Says(text[j], k) => j <= i)
                  => FieldsAfter(f, attrs)[k] = Parsed(k, Tail(text[i]))

(* One line more.                                                          *)
LEMMA TellsNextLine ==
    ASSUME NEW f \in Fields, NEW attrs \in Seq(Pair), NEW text \in Seq(Word), NEW l \in Word,
           Tells(f, attrs, text)
    PROVE  Tells(f, PushLine(attrs, l), Append(text, l))
<1> DEFINE r == Append(text, l)
           n == Len(text)
<1>1. /\ n \in Nat /\ DOMAIN text = 1..n /\ DOMAIN r = 1..(n + 1)
      /\ r[n + 1] = l /\ \A i \in DOMAIN text : r[i] = text[i]
  BY AppendProperties, LenProperties
<1> HIDE DEF r, n
<1>2. \A k : (\E i \in DOMAIN r : Says(r[i], k)) <=>
               Says(l, k) \/ \E i \in DOMAIN text : Says(text[i], k)
  <2>1. DOMAIN r = DOMAIN text \cup {n + 1}
    BY <1>1
  <2> QED BY <1>1, <2>1
<1>3. CASE ~(Len(l) > 1)
  <2>1. PushLine(attrs, l) = attrs /\ \A k : ~Says(l, k)
    BY <1>3 DEF PushLine, Says
  <2>2. \A k \in Field, i \in DOMAIN r :
          Says(r[i], k) /\ (\A j \in DOMAIN r : Says(r[j], k) => j <= i)
              => FieldsAfter(f, attrs)[k] = Parsed(k, Tail(r[i]))
    <3> SUFFICES ASSUME NEW k \in Field, NEW i \in DOMAIN r, Says(r[i], k),
                        \A j \in DOMAIN r : Says(r[j], k) => j <= i
                 PROVE  FieldsAfter(f, attrs)[k] = Parsed(k, Tail(r[i]))
      OBVIOUS
    <3>1. i \in DOMAIN text /\ r[i] = text[i]
      BY <1>1, <2>1
    <3>2. \A j \in DOMAIN text : Says(text[j], k) => j <= i
      BY <1>1
    <3> QED BY <3>1, <3>2 DEF Tells
  <2>3. \A i \in DOMAIN attrs : \E j \in DOMAIN r : attrs[i].value = Tail(r[j])
    <3> TAKE i \in DOMAIN attrs
    <3>1. PICK j \in DOMAIN text : attrs[i].value = Tail(text[j])
      BY DEF Tells
    <3> QED BY <1>1, <3>1
  <2> QED BY <1>2, <2>1, <2>2, <2>3 DEF Tells, r
<1>4. CASE Len(l) > 1
  <2> DEFINE p == [key |-> Head(l), value |-> Tail(l)]
             b == Append(attrs, p)
             g == FieldsAfter(f, attrs)
  <2>1. p \in Pair
    <3>1. l # <<>>
      BY <1>4, EmptySeq
    <3>2. Head(l) \in Part /\ Tail(l) \in Word
      BY <3>1, HeadTailProperties DEF Word
    <3> QED BY <3>2 DEF Pair
  <2>2. PushLine(attrs, l) = b /\ \A k : Says(l, k) <=> p.key = k
    BY <1>4 DEF PushLine, Says
  <2>3. /\ b \in Seq(Pair) /\ Len(attrs) \in Nat /\ DOMAIN attrs = 1..Len(attrs)
        /\ DOMAIN b = DOMAIN attrs \cup {Len(attrs) + 1}
        /\ b[Len(attrs) + 1] = p /\ \A i \in DOMAIN attrs : b[i] = attrs[i]
    BY <2>1, AppendProperties, LenProperties
  <2>4. g \in Fields /\ FieldsAfter(f, b) = SetField(g, p)
    BY <2>1, FieldsAfterLaws
  <2>5. p.value = Tail(l)
    OBVIOUS
  <2> HIDE DEF p, b, g
  <2>6. \A k : Has(b, k) <=> p.key = k \/ Has(attrs, k)
    BY <2>3 DEF Has
  <2>7. \A k : Has(b, k) <=> \E i \in DOMAIN r : Says(r[i], k)
    BY <1>2, <2>2, <2>6 DEF Tells
  <2>8. \A i \in DOMAIN b : \E j \in DOMAIN r : b[i].value = Tail(r[j])
    <3> TAKE i \in DOMAIN b
    <3>1. CASE i \in DOMAIN attrs
      <4>1. PICK j \in DOMAIN text : attrs[i].value = Tail(text[j])
        BY <3>1 DEF Tells
      <4>2. j \in DOMAIN r /\ r[j] = text[j] /\ b[i] = attrs[i]
        BY <1>1, <2>3, <3>1
      <4> QED BY <4>1, <4>2
    <3>2. CASE i = Len(attrs) + 1
      <4>1. n + 1 \in DOMAIN r
        BY <1>1
      <4> QED BY <1>1, <2>3, <2>5, <3>2, <4>1
    <3> QED BY <2>3, <3>1, <3>2
  <2>9. ASSUME NEW k \in Field, ~Has(b, k) PROVE SetField(g, p)[k] = f[k]
    <3>1. p.key # k /\ ~Has(attrs, k)
      BY <2>6, <2>9
    <3>2. g[k] = f[k]
      BY <3>1 DEF Tells, g
    <3> QED BY <2>1, <2>4, <3>1, <3>2, SetFieldLaws
  <2>10. ASSUME NEW k \in Field, NEW i \in DOMAIN r, Says(r[i], k),
                \A j \in DOMAIN r : Says(r[j], k) => j <= i
         PROVE  SetField(g, p)[k] = Parsed(k, Tail(r[i]))
    <3>1. CASE i = n + 1
      <4>1. p.key = k /\ r[i] = l
        BY <1>1, <2>2, <2>10, <3>1
      <4> QED BY <2>1, <2>4, <2>5, <4>1, SetFieldLaws
    <3>2. CASE i \in DOMAIN text
      <4>1. n + 1 \in DOMAIN r /\ ~(n + 1 <= i) /\ r[i] = text[i]
        BY <1>1, <3>2
      <4>2. p.key # k
        BY <1>1, <2>2, <2>10, <4>1
      <4>3. \A j \in DOMAIN text : Says(text[j], k) => j <= i
        BY <1>1, <2>10
      <4>4. g[k] = Parsed(k, Tail(text[i]))
        BY <2>10, <3>2, <4>1, <4>3 DEF Tells, g
      <4> QED BY <2>1, <2>4, <4>1, <4>2, <4>4, SetFieldLaws
    <3> QED BY <1>1, <3>1, <3>2
  <2>11. Tells(f, b, r)
    BY <2>3, <2>4, <2>7, <2>8, <2>9, <2>10 DEF Tells
  <2> QED BY <2>2, <2>11 DEF r
<1> QED BY <1>3, <1>4

(* A whole report.                                                         *)
LEMMA ReportTells ==
    ASSUME NEW f \in Fields, NEW text \in Seq(Word)
    PROVE  Tells(f, parse_stats(text), text)
<1> DEFINE none == <<>>
           T == {q \in Seq(Word) : Tells(f, Folded(Pushing, none, q), q)}
<1>0. none \in Seq(Pair) /\ none \in Seq(Word) /\ DOMAIN none = {}
  BY EmptySeq
<1>1. \A k : ~Has(none, k)
  BY DEF Has
<1> HIDE DEF none
<1>2. none \in T
  <2>1. Folded(Pushing, none, <<>>) = none
    BY <1>0, PushingIsStep, FoldEmpty
  <2>2. FieldsAfter(f, none) = f
    BY FieldsAfterLaws DEF none
  <2>3. Tells(f, none, none)
    BY <1>0, <1>1, <2>2 DEF Tells
  <2> QED BY <1>0, <2>1, <2>3 DEF none
<1>3. ASSUME NEW q \in T, NEW l \in Word PROVE Append(q, l) \in T
  <2>1. q \in Seq(Word) /\ Tells(f, Folded(Pushing, none, q), q)
    OBVIOUS
  <2>2. Folded(Pushing, none, q) \in Seq(Pair)
    BY <1>0, <2>1, PushingIsStep, FoldOfRun
  <2>3. Folded(Pushing, none, Append(q, l)) = Pushing[<<Folded(Pushing, none, q), l>>]
    <3> DEFINE V == Seq(Pair)
    <3>1. IsStep(Pushing, V, Word) /\ none \in V
      BY <1>0, PushingIsStep
    <3>2. q \in Seq(Word)
      BY <2>1
    <3> HIDE DEF V, T
    <3> QED BY <3>1, <3>2, FoldAppend
  <2>4. Folded(Pushing, none, Append(q, l)) = PushLine(Folded(Pushing, none, q), l)
    BY <2>2, <2>3, PushingIsStep
  <2>5. Append(q, l) \in Seq(Word)
    BY <2>1, AppendProperties
  <2> QED BY <2>1, <2>2, <2>4, <2>5, TellsNextLine
<1>4. T = Seq(Word)
  <2> HIDE DEF T
  <2>1. T \in SUBSET Seq(Word)
    BY DEF T
  <2>2. <<>> \in T
    BY <1>2 DEF none
  <2> QED BY <1>3, <2>1, <2>2, AppendInduction
<1>5. Tells(f, Folded(Pushing, none, text), text)
  BY <1>4
<1> QED BY <1>5, ParseStatsFolds DEF none

-----------------------------------------------------------------------------
(* Reports and the hosts.                                                  *)

(* The fields a report starts from.                                        *)
FieldsBefore(host) == IF host = Absent THEN Default ELSE host.fields

(* A report is a sequence of lines of words.                               *)
LEMMA ReportIsText == \A text \in Report : text \in Seq(Word)
BY AttributesAssumption DEF Word

(* A report without a name drops its host, any other gives it its fields.  *)
LEMMA ApplyHostStatsLaws ==
    ASSUME NEW host \in Host \cup {Absent}, NEW attrs \in Seq(Pair)
    PROVE  /\ FieldsBefore(host) \in Fields
           /\ ApplyHostStats(host, attrs) \in Host \cup {Absent}
           /\ ApplyHostStats(host, attrs) = Absent <=> ~Has(attrs, "Name")
           /\ Has(attrs, "Name") =>
                /\ ApplyHostStats(host, attrs).fields = FieldsAfter(FieldsBefore(host), attrs)
                /\ ApplyHostStats(host, attrs).attrs = attrs
<1>1. FieldsBefore(host) \in Fields
  BY DefaultFields DEF FieldsBefore, Host
<1>2. CASE ~Has(attrs, "Name")
  BY <1>1, <1>2 DEF ApplyHostStats
<1>3. CASE Has(attrs, "Name")
  <2> DEFINE start == IF host = Absent THEN NewHost ELSE host
             f == FieldsAfter(FieldsBefore(host), attrs)
  <2>1. start.fields = FieldsBefore(host)
    BY DEF NewHost, FieldsBefore
  <2>2. ApplyHostStats(host, attrs) =
          [fields |-> FoldLeft(SetField, start.fields, attrs), attrs |-> attrs]
    BY <1>3 DEF ApplyHostStats, update_attrs
  <2>3. FoldLeft(SetField, FieldsBefore(host), attrs) = f /\ f \in Fields
    BY <1>1, SetFieldFolds, FieldsAfterLaws
  <2>4. FoldLeft(SetField, start.fields, attrs) = f
    BY <2>1, <2>3
  <2> HIDE DEF start, f
  <2>5. ApplyHostStats(host, attrs) = [fields |-> f, attrs |-> attrs]
    BY <2>2, <2>4
  <2>6. [fields |-> f, attrs |-> attrs] \in Host
    BY <2>3 DEF Host
  <2>7. ApplyHostStats(host, attrs) # Absent
    BY <2>5, <2>6, AttributesAssumption
  <2> QED BY <1>1, <1>3, <2>5, <2>6, <2>7 DEF f
<1> QED BY <1>2, <1>3

-----------------------------------------------------------------------------
(* The invariant: besides the two properties, that nothing is remembered   *)
(* of a host that is gone, and what the list says of the fields.           *)
IInv ==
    /\ TypeOK
    /\ RowIsLatestWord
    /\ last = [h \in HostId |-> last[h]]
    /\ \A h \in HostId : hosts[h] = Absent => DOMAIN last[h] = {}
    /\ \A h \in HostId : hosts[h] # Absent => Explains(hosts[h].fields, hosts[h].attrs)

(* No hosts yet, or none any more.                                         *)
LEMMA NoHosts ==
    ASSUME hosts' = [h \in HostId |-> Absent], last' = [h \in HostId |-> <<>>]
    PROVE  IInv'
<1>1. \A h \in HostId : hosts'[h] = Absent /\ DOMAIN last'[h] = {}
  BY EmptySeq
<1>2. TypeOK'
  BY <1>1 DEF TypeOK
<1> QED BY <1>1, <1>2 DEF IInv, RowIsLatestWord

(* No report yet.                                                          *)
LEMMA InitInv == Init => IInv
<1> SUFFICES ASSUME Init PROVE IInv
  OBVIOUS
<1>1. \A h \in HostId : hosts[h] = Absent /\ DOMAIN last[h] = {}
  BY EmptySeq DEF Init
<1>2. TypeOK
  BY <1>1 DEF TypeOK, Init
<1> QED BY <1>1, <1>2 DEF IInv, RowIsLatestWord, Init

(* A report: its pairs explain the new fields, and each field is what the  *)
(* last line with its key says or, without one, what it was.               *)
LEMMA HostStatsInv ==
    ASSUME IInv, NEW h \in HostId, NEW text \in Report, HostStats(h, text)
    PROVE  IInv'
<1> DEFINE attrs == parse_stats(text)
           lines(k) == {i \in DOMAIN text : Len(text[i]) > 1 /\ Head(text[i]) = k}
           f == FieldsBefore(hosts[h])
           next == ApplyHostStats(hosts[h], attrs)
           keys == {k \in Field : lines(k) # {}} \cup DOMAIN last[h]
           word == [k \in keys |->
                      IF lines(k) # {} THEN Tail(text[Max(lines(k))]) ELSE last[h][k]]
           said == IF lines("Name") = {} THEN <<>> ELSE word
<1>1. hosts[h] \in Host \cup {Absent} /\ text \in Seq(Word) /\ f \in Fields
  BY ReportIsText, DefaultFields DEF IInv, TypeOK, FieldsBefore, Host
<1>2. Tells(f, attrs, text)
  BY <1>1, ReportTells
<1>3. attrs \in Seq(Pair) /\ \A k : Has(attrs, k) <=> lines(k) # {}
  BY <1>2 DEF Tells, Says
<1>4. \A k : lines(k) # {} =>
        /\ Max(lines(k)) \in DOMAIN text
        /\ Says(text[Max(lines(k))], k)
        /\ \A j \in DOMAIN text : Says(text[j], k) => j <= Max(lines(k))
  <2> SUFFICES ASSUME NEW k, lines(k) # {}
               PROVE  /\ Max(lines(k)) \in lines(k)
                      /\ \A j \in lines(k) : j <= Max(lines(k))
    BY DEF Says
  <2> DEFINE s == lines(k)
  <2>1. s \in SUBSET (1..Len(text)) /\ s # {} /\ Len(text) \in Nat
    BY <1>1, LenProperties
  <2> HIDE DEF s
  <2>2. Max(s) \in s /\ \A j \in s : j <= Max(s)
    BY <2>1, MaxOfPlaces
  <2> QED BY <2>2 DEF s
<1>5. /\ hosts' = [hosts EXCEPT ![h] = next]
      /\ last' = [last EXCEPT ![h] = said]
  BY DEF HostStats
<1>6. /\ next \in Host \cup {Absent}
      /\ next = Absent <=> lines("Name") = {}
      /\ lines("Name") # {} => next.fields = FieldsAfter(f, attrs) /\ next.attrs = attrs
  BY <1>1, <1>3, ApplyHostStatsLaws
<1>7. DOMAIN said \subseteq Field /\ (next = Absent => DOMAIN said = {})
  <2>1. DOMAIN last[h] \subseteq Field
    BY DEF IInv, TypeOK
  <2>2. DOMAIN word \subseteq Field
    BY <2>1
  <2> HIDE DEF word
  <2> QED BY <1>6, <2>2, EmptySeq
<1>8. ASSUME next # Absent, NEW k \in Field
      PROVE  next.fields[k] = IF k \in DOMAIN said THEN Parsed(k, said[k]) ELSE Default[k]
  <2>1. lines("Name") # {} /\ said = word /\ next.fields = FieldsAfter(f, attrs)
    BY <1>6, <1>8
  <2>2. CASE lines(k) # {}
    <3>1. k \in keys /\ word[k] = Tail(text[Max(lines(k))])
      BY <2>2
    <3>2. FieldsAfter(f, attrs)[k] = Parsed(k, Tail(text[Max(lines(k))]))
      BY <1>2, <1>4, <2>2 DEF Tells
    <3> HIDE DEF lines, attrs, keys, next, f
    <3> QED BY <2>1, <3>1, <3>2
  <2>3. CASE lines(k) = {}
    <3>1. FieldsAfter(f, attrs)[k] = f[k]
      BY <1>2, <1>3, <2>3 DEF Tells
    <3>2. k \in keys <=> k \in DOMAIN last[h]
      BY <2>3
    <3>3. k \in keys => word[k] = last[h][k]
      BY <2>3
    <3>4. f[k] = IF k \in DOMAIN last[h] THEN Parsed(k, last[h][k]) ELSE Default[k]
      <4>1. CASE hosts[h] = Absent
        BY <4>1 DEF IInv, FieldsBefore
      <4>2. CASE hosts[h] # Absent
        BY <4>2 DEF IInv, RowIsLatestWord, FieldsBefore
      <4> QED BY <4>1, <4>2
    <3>5. DOMAIN word = keys
      OBVIOUS
    <3> HIDE DEF lines, attrs, keys, word, next, f
    <3> QED BY <2>1, <3>1, <3>2, <3>3, <3>4, <3>5
  <2> QED BY <2>2, <2>3
<1>9. next # Absent => Explains(next.fields, next.attrs)
  BY <1>1, <1>3, <1>6, ListExplainsFields
<1> HIDE DEF attrs, lines, f, next, word, said, keys
<1>10. /\ hosts' \in [HostId -> Host \cup {Absent}]
       /\ hosts'[h] = next /\ last'[h] = said
       /\ \A g \in HostId \ {h} : hosts'[g] = hosts[g] /\ last'[g] = last[g]
       /\ last' = [g \in HostId |-> last'[g]]
  BY <1>5, <1>6 DEF IInv, TypeOK
<1>11. TypeOK'
  BY <1>7, <1>10 DEF IInv, TypeOK
<1>12. RowIsLatestWord'
  <2> SUFFICES ASSUME NEW g \in HostId, hosts'[g] # Absent, NEW k \in Field
               PROVE  hosts'[g].fields[k] =
                        IF k \in DOMAIN last'[g] THEN Parsed(k, last'[g][k]) ELSE Default[k]
    BY DEF RowIsLatestWord
  <2>1. CASE g = h
    BY <1>8, <1>10, <2>1
  <2>2. CASE g # h
    BY <1>10, <2>2 DEF IInv, RowIsLatestWord
  <2> QED BY <2>1, <2>2
<1>13. \A g \in HostId : /\ hosts'[g] = Absent => DOMAIN last'[g] = {}
                         /\ hosts'[g] # Absent => Explains(hosts'[g].fields, hosts'[g].attrs)
  BY <1>7, <1>9, <1>10 DEF IInv
<1> QED BY <1>10, <1>11, <1>12, <1>13 DEF IInv

(* Every step.                                                             *)
LEMMA NextInv == IInv /\ [Next]_vars => IInv'
<1> SUFFICES ASSUME IInv, [Next]_vars PROVE IInv'
  OBVIOUS
<1>1. ASSUME NEW h \in HostId, NEW text \in Report, HostStats(h, text) PROVE IInv'
  BY <1>1, HostStatsInv
<1>2. CASE Disconnected
  BY <1>2, NoHosts DEF Disconnected
<1>3. CASE UNCHANGED vars
  BY <1>3 DEF vars, IInv, TypeOK, RowIsLatestWord
<1> QED BY <1>1, <1>2, <1>3 DEF Next

-----------------------------------------------------------------------------
(* The numbers of a row are u32, whatever a report says.                   *)
THEOREM RowsTyped == Spec => []TypeOK
<1>1. IInv => TypeOK
  BY DEF IInv
<1> QED BY <1>1, InitInv, NextInv, PTL DEF Spec

(* Every column says what the host said last in that respect, since it     *)
(* came, for any reports.                                                  *)
THEOREM RowsAreCurrent == Spec => []RowIsLatestWord
<1>1. IInv => RowIsLatestWord
  BY DEF IInv
<1> QED BY <1>1, InitInv, NextInv, PTL DEF Spec

(* The details under a row do not contradict it.                           *)
THEOREM DetailsAgree == Spec => []DetailsExplainRow
<1>1. IInv => DetailsExplainRow
  <2> SUFFICES ASSUME IInv, NEW h \in HostId, hosts[h] # Absent,
                      NEW i \in DOMAIN hosts[h].attrs,
                      hosts[h].attrs[i].key \in Field,
                      ~Has(SubSeq(hosts[h].attrs, i + 1, Len(hosts[h].attrs)),
                           hosts[h].attrs[i].key)
               PROVE  hosts[h].fields[hosts[h].attrs[i].key] =
                        Parsed(hosts[h].attrs[i].key, hosts[h].attrs[i].value)
    BY DEF DetailsExplainRow
  <2> DEFINE q == hosts[h].attrs
             rest == SubSeq(q, i + 1, Len(q))
  <2>1. q \in Seq(Pair) /\ Explains(hosts[h].fields, q)
    BY DEF IInv, TypeOK, Host
  <2> HIDE DEF q
  <2>2. Len(q) \in Nat /\ DOMAIN q = 1..Len(q) /\ i \in DOMAIN q
    BY <2>1, LenProperties DEF q
  <2>3. ASSUME NEW j \in DOMAIN q, j > i PROVE q[j].key # q[i].key
    <3>1. \A n \in (i + 1)..Len(q) : q[n] \in Pair
      BY <2>1, <2>2
    <3>2. /\ rest \in Seq(Pair)
          /\ Len(rest) = IF i + 1 <= Len(q) THEN Len(q) - (i + 1) + 1 ELSE 0
          /\ \A n \in 1..(Len(q) - (i + 1) + 1) : rest[n] = q[(i + 1) + n - 1]
      BY <2>2, <3>1, SubSeqProperties
    <3> HIDE DEF rest
    <3>3. DOMAIN rest = 1..Len(rest)
      BY <3>2, LenProperties
    <3> DEFINE n == j - i
    <3>4. n \in 1..(Len(q) - (i + 1) + 1) /\ (i + 1) + n - 1 = j /\ i + 1 <= Len(q)
      <4>1. i \in 1..Len(q) /\ j \in 1..Len(q) /\ j > i /\ Len(q) \in Nat
        BY <2>2, <2>3
      <4> QED BY ONLY <4>1
    <3> HIDE DEF n
    <3>5. n \in DOMAIN rest /\ rest[n] = q[j]
      BY <2>2, <3>2, <3>3, <3>4
    <3> QED BY <3>5 DEF Has, rest, q
  <2> QED BY <2>1, <2>2, <2>3 DEF Explains, q
<1> QED BY <1>1, InitInv, NextInv, PTL DEF Spec

(* The log has no name for a host exactly if the host is taken off the     *)
(* table, as long as no host is called what the log says then.             *)
THEOREM LogAgrees ==
    ASSUME \A text \in Report : \A i \in DOMAIN text : Tail(text[i]) # Unnamed
    PROVE  Spec => LogTellsWhoIsGone
<1>1. IInv /\ [Next]_vars =>
        [log' # log => (log'[1].name = Unnamed <=> hosts'[log'[1].host] = Absent)]_vars
  <2> SUFFICES ASSUME IInv, NEW h \in HostId, NEW text \in Report, HostStats(h, text)
               PROVE  log'[1].name = Unnamed <=> hosts'[log'[1].host] = Absent
    BY DEF Next, Disconnected
  <2> DEFINE attrs == parse_stats(text)
             names == {i \in DOMAIN attrs : attrs[i].key = "Name"}
  <2>1. /\ hosts[h] \in Host \cup {Absent} /\ text \in Seq(Word)
        /\ FieldsBefore(hosts[h]) \in Fields
    BY ReportIsText, DefaultFields DEF IInv, TypeOK, FieldsBefore, Host
  <2>2. attrs \in Seq(Pair) /\ \A i \in DOMAIN attrs : attrs[i].value # Unnamed
    <3>1. Tells(FieldsBefore(hosts[h]), attrs, text)
      BY <2>1, ReportTells
    <3> HIDE DEF attrs
    <3>2. attrs \in Seq(Pair) /\ \A i \in DOMAIN attrs :
                                   \E j \in DOMAIN text : attrs[i].value = Tail(text[j])
      BY <3>1 DEF Tells
    <3> QED BY <3>2
  <2>3. log' = <<format_log(h, attrs)>> /\ hosts'[h] = ApplyHostStats(hosts[h], attrs)
    BY DEF HostStats, IInv, TypeOK
  <2> HIDE DEF attrs
  <2>4. hosts'[h] = Absent <=> ~Has(attrs, "Name")
    BY <2>1, <2>2, <2>3, ApplyHostStatsLaws
  <2>5. Has(attrs, "Name") => Min(names) \in DOMAIN attrs
    <3> SUFFICES ASSUME Has(attrs, "Name") PROVE Min(names) \in names
      OBVIOUS
    <3>1. names # {} /\ names \in SUBSET Nat
      BY <2>2, LenProperties DEF Has
    <3> HIDE DEF names
    <3>2. \E n \in names : \A m \in names : n <= m
      BY <3>1, LeastNumber
    <3> QED BY <3>2 DEF Min
  <2>6. log'[1] = format_log(h, attrs)
    BY <2>3
  <2>7. format_log(h, attrs).host = h
    BY DEF format_log
  <2>8. format_log(h, attrs).name = Unnamed <=> ~Has(attrs, "Name")
    BY <2>2, <2>5 DEF format_log
  <2> QED BY <2>4, <2>6, <2>7, <2>8
<1> QED BY <1>1, InitInv, NextInv, PTL DEF Spec, LogTellsWhoIsGone
=============================================================================
