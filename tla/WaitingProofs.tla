---------------------------- MODULE WaitingProofs ----------------------------
(***************************************************************************)
(* Theorems about the modules MCWaiting puts together: ToolCommand, that   *)
(* what is sent for a parameter has the types and is among the values its  *)
(* schema names, for every schema and every text of the module, and that a *)
(* command calls its tool once, and sends a session only where one         *)
(* belongs; and the lock, whose own theorems (InstallLockProofs) are taken *)
(* into the composition.                                                   *)
(***************************************************************************)
EXTENDS MCWaiting, InstallLockProofs

-----------------------------------------------------------------------------
(***************************************************************************)
(* The tools: values and the schemas they are made for                     *)
(***************************************************************************)

LEMMA LeafForm ==
  ASSUME NEW l \in Tools!Leaves
  PROVE  /\ l.form = "plain"
         /\ l.type \in {"null", "boolean", "string", "integer", "number", "object", Tools!Unset}
         /\ \E t : Tools!LeafShape(l) = Tools!One(t)
         /\ l.type \in Tools!Scalars => Tools!LeafShape(l) = Tools!One(l.type)
         /\ l.type \notin Tools!Scalars \cup {Tools!Unset} =>
              Tools!LeafShape(l) \in {Tools!One("null"), Tools!One("json")}
<1>1. /\ l.form = "plain"
      /\ l.type \in {"null", "boolean", "string", "integer", "number", "object", Tools!Unset}
  BY DEF Tools!Leaves, Tools!Plain, Tools!WithEnum, Tools!Unset
<1>2. \E t : Tools!LeafShape(l) = Tools!One(t)
  BY DEF Tools!LeafShape
<1>3. l.type \in Tools!Scalars => Tools!LeafShape(l) = Tools!One(l.type)
  BY DEF Tools!LeafShape, Tools!Scalars, Tools!Unset
<1>4. l.type \notin Tools!Scalars \cup {Tools!Unset} =>
        Tools!LeafShape(l) \in {Tools!One("null"), Tools!One("json")}
  BY <1>1 DEF Tools!LeafShape
<1> QED
  BY <1>1, <1>2, <1>3, <1>4

\* What parse_scalar_value accepts for a type is sent as a value of it
LEMMA ParsedType ==
  ASSUME NEW text \in Tools!Texts, NEW t \in Tools!Scalars, NEW E,
         Tools!Accepts(t, E, text)
  PROVE  LET v == Tools!Parsed(t, text)
         IN v.type = t \/ (t = "number" /\ v.type = "integer")
<1>1. CASE t = "string"
  BY <1>1 DEF Tools!Parsed, Tools!String
<1>2. CASE t = "boolean"
  BY <1>2 DEF Tools!Accepts, Tools!Parsed, Tools!Json
<1>3. CASE t = "integer"
  BY <1>3 DEF Tools!Accepts, Tools!Parsed
<1>4. CASE t = "number"
  BY <1>4 DEF Tools!Accepts, Tools!Parsed
<1> QED
  BY <1>1, <1>2, <1>3, <1>4 DEF Tools!Scalars

LEMMA LeafValue ==
  ASSUME NEW l \in Tools!Leaves, NEW text \in Tools!Texts, NEW t \in Tools!Scalars,
         Tools!LeafShape(l) = Tools!One(t), ~Tools!LeafHides(l),
         Tools!Accepts(t, l.enum, text)
  PROVE  Tools!LeafFits(Tools!Parsed(t, text), l)
<1> DEFINE v == Tools!Parsed(t, text)
<1>1. l.enum # {} => v \in l.enum
  BY DEF Tools!LeafHides, Tools!Accepts
<1>2. l.type \in {t, Tools!Unset}
  <2>1. CASE l.type \in Tools!Scalars
    BY <2>1, LeafForm DEF Tools!One
  <2>2. CASE l.type \notin Tools!Scalars \cup {Tools!Unset}
    BY <2>2, LeafForm DEF Tools!One, Tools!Scalars
  <2> QED
    BY <2>1, <2>2
<1>3. v.type = t \/ (t = "number" /\ v.type = "integer")
  BY ParsedType
<1> QED
  BY <1>1, <1>2, <1>3 DEF Tools!LeafFits

\* A leaf, and a reference to one, has the leaf's kind and allows what it allows
LEMMA LeafAsSchema ==
  ASSUME NEW l \in Tools!Leaves, NEW s, s = l \/ s = Tools!Ref(l)
  PROVE  /\ Tools!Resolve(s) = l
         /\ Tools!PartShape(s) = Tools!LeafShape(l)
         /\ Tools!Shape(s) = Tools!LeafShape(l)
         /\ Tools!PartHides(s) = Tools!LeafHides(l)
         /\ Tools!HidesEnum(s) = Tools!LeafHides(l)
         /\ \A v : /\ Tools!PartFits(v, s) = Tools!LeafFits(v, l)
                   /\ Tools!Fits(v, s) = Tools!LeafFits(v, l)
<1>1. l.form = "plain" /\ Tools!Resolve(s) = l
  BY LeafForm DEF Tools!Resolve, Tools!Ref
<1>2. Tools!PartShape(s) = Tools!LeafShape(l) /\ Tools!Shape(s) = Tools!LeafShape(l)
  BY <1>1 DEF Tools!PartShape, Tools!Shape, Tools!ShapeBy
<1>3. Tools!PartHides(s) = Tools!LeafHides(l) /\ Tools!HidesEnum(s) = Tools!LeafHides(l)
  BY <1>1 DEF Tools!PartHides, Tools!HidesEnum, Tools!HidesBy
<1>4. ASSUME NEW v
      PROVE  /\ Tools!PartFits(v, s) = Tools!LeafFits(v, l)
             /\ Tools!Fits(v, s) = Tools!LeafFits(v, l)
  BY <1>1 DEF Tools!PartFits, Tools!Fits, Tools!FitsBy
<1> QED
  BY <1>1, <1>2, <1>3, <1>4

\* A choice has the shape of one of its parts, if it has one
LEMMA ChoiceShape ==
  ASSUME NEW a, NEW b, NEW x,
         x \notin {Tools!One("null"), Tools!One("json")}
  PROVE  LET s == Tools!AnyOf(a, b)
         IN /\ Tools!Resolve(s) = s /\ DOMAIN s.of = {1, 2}
            /\ Tools!PartShape(s) = x => x \in {Tools!LeafShape(a), Tools!LeafShape(b)}
            /\ Tools!Shape(s) = x => x \in {Tools!PartShape(a), Tools!PartShape(b)}
<1> DEFINE s == Tools!AnyOf(a, b)
           leaves == {Tools!LeafShape(s.of[i]) : i \in DOMAIN s.of} \ {Tools!One("null")}
           parts == {Tools!PartShape(s.of[i]) : i \in DOMAIN s.of} \ {Tools!One("null")}
<1>1. s.form = "anyOf" /\ Tools!Resolve(s) = s
  BY DEF Tools!AnyOf, Tools!Resolve
<1>2. DOMAIN s.of = {1, 2} /\ s.of[1] = a /\ s.of[2] = b
  BY DEF Tools!AnyOf
<1>3. leaves \subseteq {Tools!LeafShape(a), Tools!LeafShape(b)}
  BY <1>2
<1>4. parts \subseteq {Tools!PartShape(a), Tools!PartShape(b)}
  BY <1>2
<1>5. Tools!PartShape(s) \in leaves \cup {Tools!One("null"), Tools!One("json")}
  BY <1>1 DEF Tools!PartShape, Tools!ShapeBy
<1>6. Tools!Shape(s) \in parts \cup {Tools!One("null"), Tools!One("json")}
  BY <1>1 DEF Tools!Shape, Tools!ShapeBy
<1> HIDE DEF leaves, parts, s
<1>7. Tools!PartShape(s) = x => x \in {Tools!LeafShape(a), Tools!LeafShape(b)}
  BY <1>3, <1>5
<1>8. Tools!Shape(s) = x => x \in {Tools!PartShape(a), Tools!PartShape(b)}
  BY <1>4, <1>6
<1> QED
  BY <1>1, <1>2, <1>7, <1>8 DEF s

LEMMA ScalarShapes ==
  ASSUME NEW t \in Tools!Scalars
  PROVE  /\ Tools!One(t) \notin {Tools!One("null"), Tools!One("json")}
         /\ Tools!Many(t) \notin {Tools!One("null"), Tools!One("json")}
         /\ \A u : Tools!Many(t) # Tools!One(u) /\ (Tools!One(t) = Tools!One(u) => t = u)
         /\ \A u : Tools!Many(t) = Tools!Many(u) => t = u
BY DEF Tools!One, Tools!Many, Tools!Scalars

\* An array's item: a leaf, a reference to one, or one that may be null
ItemsOf(l) == {l, Tools!Ref(l), Tools!AnyOf(l, Tools!Plain("null"))}

LEMMA ItemValue ==
  ASSUME NEW l \in Tools!Leaves, NEW x \in ItemsOf(l), NEW t \in Tools!Scalars,
         Tools!PartShape(x) = Tools!One(t), ~Tools!PartHides(x),
         NEW text \in Tools!Texts, Tools!Accepts(t, Tools!EnumOf(Tools!Resolve(x)), text)
  PROVE  Tools!PartFits(Tools!Parsed(t, text), x)
<1> DEFINE null == Tools!Plain("null")
<1>1. CASE x = l \/ x = Tools!Ref(l)
  <2>1. /\ Tools!Resolve(x) = l
        /\ Tools!LeafShape(l) = Tools!One(t)
        /\ ~Tools!LeafHides(l)
        /\ Tools!PartFits(Tools!Parsed(t, text), x)
             = Tools!LeafFits(Tools!Parsed(t, text), l)
    BY <1>1, LeafAsSchema
  <2>2. Tools!EnumOf(l) = l.enum
    BY LeafForm DEF Tools!EnumOf
  <2> QED
    BY <2>1, <2>2, LeafValue
<1>2. CASE x = Tools!AnyOf(l, null)
  <2>1. Tools!LeafShape(null) = Tools!One("null")
    BY DEF Tools!LeafShape, Tools!Plain, Tools!Scalars, Tools!Unset
  <2>2. Tools!LeafShape(l) = Tools!One(t)
    <3>1. Tools!One(t) \notin {Tools!One("null"), Tools!One("json")}
      BY ScalarShapes
    <3>2. Tools!One(t) \in {Tools!LeafShape(l), Tools!LeafShape(null)}
      BY <1>2, <3>1, ChoiceShape
    <3> QED
      BY <2>1, <3>1, <3>2
  <2>3. x.form = "anyOf" /\ Tools!Resolve(x) = x /\ 1 \in DOMAIN x.of /\ x.of[1] = l
    BY <1>2 DEF Tools!AnyOf, Tools!Resolve
  <2>4. l.enum = {}
    BY <2>3, LeafForm, LeafAsSchema DEF Tools!PartHides, Tools!HidesBy
  <2>5. ~Tools!LeafHides(l) /\ Tools!EnumOf(x) = l.enum
    BY <2>3, <2>4 DEF Tools!LeafHides, Tools!EnumOf
  <2>6. Tools!LeafFits(Tools!Parsed(t, text), l)
    BY <2>2, <2>3, <2>5, LeafValue
  <2> QED
    BY <2>3, <2>6 DEF Tools!PartFits, Tools!FitsBy
<1> QED
  BY <1>1, <1>2 DEF ItemsOf

\* An array of items: one kind for all of them, that of the item
LEMMA ArrayAsSchema ==
  ASSUME NEW l \in Tools!Leaves, NEW x \in ItemsOf(l), NEW t \in Tools!Scalars,
         NEW s, s = Tools!ArrayOf(x)
  PROVE  /\ Tools!Resolve(s) = s
         /\ Tools!Items(s) = Tools!Resolve(x)
         /\ Tools!HidesEnum(s) = Tools!PartHides(x)
         /\ \A u : Tools!Shape(s) # Tools!One(u) \/ u = "json"
         /\ Tools!Shape(s) = Tools!Many(t) => Tools!PartShape(x) = Tools!One(t)
         /\ \A v : Tools!Fits(v, s) <=>
                    /\ v.type = "array"
                    /\ \A i \in DOMAIN v.items : Tools!PartFits(v.items[i], x)
<1>1. s.form = "array" /\ s.items = x /\ Tools!Resolve(s) = s
  BY DEF Tools!ArrayOf, Tools!Resolve
<1>2. Tools!Items(s) = Tools!Resolve(x)
  BY <1>1 DEF Tools!Items
<1>3. Tools!HidesEnum(s) = Tools!PartHides(x)
  BY <1>1 DEF Tools!HidesEnum, Tools!HidesBy
<1>4. Tools!Shape(s) = IF ~Tools!PartShape(x).array /\ Tools!PartShape(x).type \in Tools!Scalars
                         THEN Tools!Many(Tools!PartShape(x).type) ELSE Tools!One("json")
  BY <1>1 DEF Tools!Shape, Tools!ShapeBy
<1>5. \A u : Tools!Shape(s) # Tools!One(u) \/ u = "json"
  BY <1>4 DEF Tools!One, Tools!Many
<1>6. \E u : Tools!PartShape(x) \in {Tools!One(u), Tools!Many(u)}
  <2>1. CASE x = l \/ x = Tools!Ref(l)
    BY <2>1, LeafAsSchema, LeafForm
  <2>2. CASE x = Tools!AnyOf(l, Tools!Plain("null"))
    <3>1. Tools!Plain("null") \in Tools!Leaves
      BY DEF Tools!Leaves
    <3>2. PICK u, w : /\ Tools!LeafShape(l) = Tools!One(u)
                      /\ Tools!LeafShape(Tools!Plain("null")) = Tools!One(w)
      BY <3>1, LeafForm
    <3>3. CASE Tools!PartShape(x) \in {Tools!One("null"), Tools!One("json")}
      BY <3>3
    <3>4. CASE Tools!PartShape(x) \notin {Tools!One("null"), Tools!One("json")}
      <4>1. Tools!PartShape(x) \in {Tools!One(u), Tools!One(w)}
        BY <2>2, <3>2, <3>4, ChoiceShape
      <4> QED
        BY <4>1
    <3> QED
      BY <3>3, <3>4
  <2> QED
    BY <2>1, <2>2 DEF ItemsOf
<1>7. Tools!Shape(s) = Tools!Many(t) => Tools!PartShape(x) = Tools!One(t)
  BY <1>4, <1>6 DEF Tools!One, Tools!Many
<1>8. ASSUME NEW v
      PROVE  Tools!Fits(v, s) <=>
               /\ v.type = "array"
               /\ \A i \in DOMAIN v.items : Tools!PartFits(v.items[i], x)
  BY <1>1 DEF Tools!Fits, Tools!FitsBy
<1> QED
  BY <1>1, <1>2, <1>3, <1>5, <1>7, <1>8

LEMMA GivenTexts ==
  ASSUME NEW given \in Tools!Given, NEW i \in DOMAIN given
  PROVE  given[i] \in Tools!Texts
<1>1. "1" \in Tools!Texts
  BY DEF Tools!Texts
<1>2. PICK t \in Tools!Texts : given = <<t>> \/ given = <<"1", t>>
  BY DEF Tools!Given
<1> QED
  BY <1>1, <1>2

\* The three kinds of a parameter
LEMMA ScalarKind ==
  ASSUME NEW s, NEW t \in Tools!Scalars, Tools!Shape(s) = Tools!One(t)
  PROVE  Tools!Kind(s) = [kind |-> "scalar", type |-> t,
                          enum |-> Tools!EnumOf(Tools!Resolve(s))]
BY DEF Tools!Kind, Tools!KindOf, Tools!One

LEMMA ArrayKind ==
  ASSUME NEW s, NEW t, Tools!Shape(s) = Tools!Many(t)
  PROVE  Tools!Kind(s) = [kind |-> "array", type |-> t, enum |-> Tools!EnumOf(Tools!Items(s))]
BY DEF Tools!Kind, Tools!KindOf, Tools!Many

\* The forms of a schema
LEMMA SchemaForms ==
  ASSUME NEW s \in Tools!Schemas
  PROVE  \/ \E l \in Tools!Leaves : s = l \/ s = Tools!Ref(l)
         \/ \E l \in Tools!Leaves : \E x \in ItemsOf(l) : s = Tools!ArrayOf(x)
         \/ \E a, l \in Tools!Leaves : \E b \in {l, Tools!Ref(l), Tools!ArrayOf(l)} :
              s = Tools!AnyOf(a, b)
<1> DEFINE simple == Tools!Leaves \cup {Tools!ArrayOf(l) : l \in Tools!Leaves}
                       \cup {Tools!Ref(l) : l \in Tools!Leaves}
<1>1. CASE s \in simple
  BY <1>1 DEF ItemsOf
<1>2. CASE s \in {Tools!AnyOf(a, b) : a \in Tools!Leaves, b \in simple}
  <2>1. PICK a \in Tools!Leaves, b \in simple : s = Tools!AnyOf(a, b)
    BY <1>2
  <2>2. \E l \in Tools!Leaves : b \in {l, Tools!Ref(l), Tools!ArrayOf(l)}
    BY <2>1
  <2> QED
    BY <2>1, <2>2
<1>3. CASE \/ s \in {Tools!ArrayOf(Tools!Ref(l)) : l \in Tools!Leaves}
           \/ s \in {Tools!ArrayOf(Tools!AnyOf(l, Tools!Plain("null"))) : l \in Tools!Leaves}
  BY <1>3 DEF ItemsOf
<1> QED
  BY <1>1, <1>2, <1>3 DEF Tools!Schemas

\* A choice of a leaf and of a leaf or an array of leaves
LEMMA ChoiceParts ==
  ASSUME NEW a \in Tools!Leaves, NEW l \in Tools!Leaves,
         NEW b \in {l, Tools!Ref(l), Tools!ArrayOf(l)}, NEW s, s = Tools!AnyOf(a, b)
  PROVE  /\ s.form = "anyOf" /\ Tools!Resolve(s) = s /\ DOMAIN s.of = {1, 2}
         /\ s.of[1] = a /\ s.of[2] = b
         /\ \E u : Tools!PartShape(a) = Tools!One(u)
         /\ \E u : Tools!PartShape(b) = Tools!One(u) \/ Tools!PartShape(b) = Tools!Many(u)
<1>1. s.form = "anyOf" /\ Tools!Resolve(s) = s /\ DOMAIN s.of = {1, 2}
  BY DEF Tools!AnyOf, Tools!Resolve
<1>2. s.of[1] = a /\ s.of[2] = b
  BY DEF Tools!AnyOf
<1>3. \E u : Tools!PartShape(a) = Tools!One(u)
  BY LeafAsSchema, LeafForm
<1>4. CASE b = l \/ b = Tools!Ref(l)
  BY <1>1, <1>2, <1>3, <1>4, LeafAsSchema, LeafForm
<1>5. CASE b = Tools!ArrayOf(l)
  <2>1. \E u : Tools!PartShape(b) = Tools!One(u) \/ Tools!PartShape(b) = Tools!Many(u)
    BY <1>5 DEF Tools!PartShape, Tools!ShapeBy, Tools!Resolve, Tools!ArrayOf
  <2> QED
    BY <1>1, <1>2, <1>3, <2>1
<1> QED
  BY <1>4, <1>5

\* A single value for a scalar kind
LEMMA ScalarSound ==
  ASSUME NEW s \in Tools!Schemas, NEW t \in Tools!Scalars, Tools!Shape(s) = Tools!One(t),
         ~Tools!HidesEnum(s), NEW text \in Tools!Texts,
         Tools!Accepts(t, Tools!EnumOf(Tools!Resolve(s)), text)
  PROVE  Tools!Fits(Tools!Parsed(t, text), s)
<1>1. ASSUME NEW l \in Tools!Leaves, s = l \/ s = Tools!Ref(l)
      PROVE  Tools!Fits(Tools!Parsed(t, text), s)
  <2>1. Tools!EnumOf(l) = l.enum
    BY LeafForm DEF Tools!EnumOf
  <2> QED
    BY <1>1, <2>1, LeafAsSchema, LeafValue
<1>2. ASSUME NEW l \in Tools!Leaves, NEW x \in ItemsOf(l), s = Tools!ArrayOf(x)
      PROVE  FALSE
  BY <1>2, ArrayAsSchema, ScalarShapes
<1>3. ASSUME NEW a \in Tools!Leaves, NEW l \in Tools!Leaves,
             NEW b \in {l, Tools!Ref(l), Tools!ArrayOf(l)}, s = Tools!AnyOf(a, b)
      PROVE  Tools!Fits(Tools!Parsed(t, text), s)
  <2>1. Tools!One(t) \in {Tools!PartShape(a), Tools!PartShape(b)}
    BY <1>3, ChoiceShape, ScalarShapes
  <2>2. PICK i \in DOMAIN s.of : Tools!PartShape(s.of[i]) = Tools!One(t)
    BY <1>3, <2>1, ChoiceParts
  <2>3. s.of[i] # Tools!ArrayOf(l)
    <3>1. SUFFICES ASSUME s.of[i] = Tools!ArrayOf(l) PROVE FALSE
      OBVIOUS
    <3>2. PICK u : Tools!PartShape(s.of[i]) \in {Tools!Many(u), Tools!One("json")}
      BY <3>1 DEF Tools!PartShape, Tools!ShapeBy, Tools!Resolve, Tools!ArrayOf
    <3>3. Tools!One(t) # Tools!Many(u) /\ Tools!One(t) # Tools!One("json")
      BY ScalarShapes DEF Tools!One, Tools!Many
    <3> QED
      BY <2>2, <3>2, <3>3
  <2>4. PICK m \in Tools!Leaves : s.of[i] = m \/ s.of[i] = Tools!Ref(m)
    BY <1>3, <2>3, ChoiceParts
  <2>5. Tools!Resolve(s.of[i]) = m /\ Tools!LeafShape(m) = Tools!One(t)
    BY <2>2, <2>4, LeafAsSchema
  <2>6. m.enum = {}
    <3>1. Tools!HidesEnum(s) <=>
            \E j \in DOMAIN s.of :
              LET p == Tools!Resolve(s.of[j])
              IN (p.form = "plain" /\ p.enum # {}) \/ Tools!PartHides(p)
      <4>1. s.form = "anyOf" /\ Tools!Resolve(s) = s
        BY <1>3, ChoiceParts
      <4> QED
        BY <4>1 DEF Tools!HidesEnum, Tools!HidesBy
    <3> QED
      BY <2>5, <3>1, LeafForm
  <2>7. ~Tools!LeafHides(m) /\ Tools!EnumOf(Tools!Resolve(s)) = m.enum
    BY <1>3, <2>6, ChoiceParts DEF Tools!LeafHides, Tools!EnumOf
  <2>8. Tools!LeafFits(Tools!Parsed(t, text), m)
    BY <2>5, <2>7, LeafValue
  <2>9. Tools!PartFits(Tools!Parsed(t, text), s.of[i])
    BY <2>4, <2>8, LeafAsSchema
  <2>10. s.form = "anyOf" /\ Tools!Resolve(s) = s
    BY <1>3, ChoiceParts
  <2> QED
    BY <2>9, <2>10 DEF Tools!Fits, Tools!FitsBy
<1> QED
  BY <1>1, <1>2, <1>3, SchemaForms

\* Any number of values for a kind of arrays
LEMMA ArraySound ==
  ASSUME NEW s \in Tools!Schemas, NEW t \in Tools!Scalars, Tools!Shape(s) = Tools!Many(t),
         ~Tools!HidesEnum(s), NEW v, v.type = "array",
         \A i \in DOMAIN v.items :
           \E text \in Tools!Texts : /\ v.items[i] = Tools!Parsed(t, text)
                                   /\ Tools!Accepts(t, Tools!EnumOf(Tools!Items(s)), text)
  PROVE  Tools!Fits(v, s)
<1>1. ASSUME NEW l \in Tools!Leaves, s = l \/ s = Tools!Ref(l)
      PROVE  FALSE
  BY <1>1, LeafAsSchema, LeafForm, ScalarShapes
<1>2. ASSUME NEW l \in Tools!Leaves, NEW x \in ItemsOf(l), s = Tools!ArrayOf(x)
      PROVE  Tools!Fits(v, s)
  <2>1. /\ Tools!Items(s) = Tools!Resolve(x) /\ ~Tools!PartHides(x)
        /\ Tools!PartShape(x) = Tools!One(t)
        /\ Tools!Fits(v, s) <=>
             /\ v.type = "array"
             /\ \A i \in DOMAIN v.items : Tools!PartFits(v.items[i], x)
    BY <1>2, ArrayAsSchema
  <2>2. ASSUME NEW i \in DOMAIN v.items PROVE Tools!PartFits(v.items[i], x)
    BY <2>1, ItemValue
  <2> QED
    BY <2>1, <2>2
<1>3. ASSUME NEW a \in Tools!Leaves, NEW l \in Tools!Leaves,
             NEW b \in {l, Tools!Ref(l), Tools!ArrayOf(l)}, s = Tools!AnyOf(a, b)
      PROVE  Tools!Fits(v, s)
  <2>1. Tools!Many(t) \in {Tools!PartShape(a), Tools!PartShape(b)}
    BY <1>3, ChoiceShape, ScalarShapes
  <2>2. Tools!PartShape(b) = Tools!Many(t)
    BY <1>3, <2>1, ChoiceParts, ScalarShapes
  <2>3. b = Tools!ArrayOf(l)
    BY <2>2, LeafAsSchema, LeafForm, ScalarShapes
  <2>4. b.form = "array" /\ b.items = l /\ Tools!Resolve(b) = b /\ Tools!Resolve(l) = l
    BY <2>3, LeafForm DEF Tools!ArrayOf, Tools!Resolve
  <2>5. Tools!LeafShape(l) = Tools!One(t)
    <3>1. PICK u : Tools!LeafShape(l) = Tools!One(u)
      BY LeafForm
    <3>2. Tools!PartShape(b) \in {Tools!Many(u), Tools!One("json")}
      BY <2>4, <3>1 DEF Tools!PartShape, Tools!ShapeBy, Tools!One
    <3> QED
      BY <2>2, <3>1, <3>2, ScalarShapes
  <2>6. ~Tools!LeafHides(l)
    <3>1. /\ s.form = "anyOf" /\ Tools!Resolve(s) = s
          /\ 2 \in DOMAIN s.of /\ Tools!Resolve(s.of[2]) = b
      BY <1>3, <2>4, ChoiceParts
    <3>2. ~Tools!PartHides(b)
      BY <3>1 DEF Tools!HidesEnum, Tools!HidesBy
    <3> QED
      BY <2>4, <3>2 DEF Tools!PartHides, Tools!HidesBy
  <2>7. Tools!Items(s) = l
    <3> DEFINE First(i) == /\ Tools!PartShape(s.of[i]).array
                           /\ \A j \in 1..(i - 1) : ~Tools!PartShape(s.of[j]).array
    <3>1. ~Tools!PartShape(s.of[1]).array /\ Tools!PartShape(s.of[2]).array
      BY <1>3, <2>2, ChoiceParts DEF Tools!One, Tools!Many
    <3>2. \A i \in DOMAIN s.of : First(i) <=> i = 2
      BY <1>3, <3>1, ChoiceParts
    <3> HIDE DEF First
    <3>3. (CHOOSE i \in DOMAIN s.of : First(i)) = 2
      BY <1>3, <3>2, ChoiceParts
    <3>4. s.form = "anyOf" /\ Tools!Resolve(s) = s /\ s.of[2].items = l
      BY <1>3, <2>4, ChoiceParts
    <3>5. Tools!Items(s) = Tools!Resolve(s.of[CHOOSE i \in DOMAIN s.of : First(i)].items)
      BY <3>4 DEF Tools!Items, First
    <3> QED
      BY <2>4, <3>3, <3>4, <3>5
  <2>8. ASSUME NEW i \in DOMAIN v.items PROVE Tools!LeafFits(v.items[i], l)
    <3>1. Tools!EnumOf(l) = l.enum
      BY LeafForm DEF Tools!EnumOf
    <3> QED
      BY <2>5, <2>6, <2>7, <3>1, LeafValue
  <2>9. Tools!PartFits(v, b)
    BY <2>4, <2>8 DEF Tools!PartFits, Tools!FitsBy
  <2>10. s.form = "anyOf" /\ Tools!Resolve(s) = s /\ 2 \in DOMAIN s.of /\ s.of[2] = b
    BY <1>3, ChoiceParts
  <2> QED
    BY <2>9, <2>10 DEF Tools!Fits, Tools!FitsBy
<1> QED
  BY <1>1, <1>2, <1>3, SchemaForms

\* A schema has one of the shapes, and an array is one of scalars
LEMMA SchemaShape ==
  ASSUME NEW s \in Tools!Schemas
  PROVE  \/ \E u : Tools!Shape(s) = Tools!One(u)
         \/ \E t \in Tools!Scalars : Tools!Shape(s) = Tools!Many(t)
<1>1. ASSUME NEW x, x.form = "array", Tools!Resolve(x) = x
      PROVE  \/ \E t \in Tools!Scalars : Tools!Shape(x) = Tools!Many(t)
             \/ Tools!Shape(x) = Tools!One("json")
  BY <1>1 DEF Tools!Shape, Tools!ShapeBy
<1>2. ASSUME NEW l \in Tools!Leaves, s = l \/ s = Tools!Ref(l)
      PROVE  \E u : Tools!Shape(s) = Tools!One(u)
  BY <1>2, LeafAsSchema, LeafForm
<1>3. ASSUME NEW x, s = Tools!ArrayOf(x)
      PROVE  \/ \E u : Tools!Shape(s) = Tools!One(u)
             \/ \E t \in Tools!Scalars : Tools!Shape(s) = Tools!Many(t)
  BY <1>1, <1>3 DEF Tools!ArrayOf, Tools!Resolve
<1>4. ASSUME NEW a \in Tools!Leaves, NEW l \in Tools!Leaves,
             NEW b \in {l, Tools!Ref(l), Tools!ArrayOf(l)}, s = Tools!AnyOf(a, b)
      PROVE  \/ \E u : Tools!Shape(s) = Tools!One(u)
             \/ \E t \in Tools!Scalars : Tools!Shape(s) = Tools!Many(t)
  <2>1. CASE Tools!Shape(s) \in {Tools!One("null"), Tools!One("json")}
    BY <2>1
  <2>2. CASE Tools!Shape(s) \notin {Tools!One("null"), Tools!One("json")}
    <3>1. Tools!Shape(s) \in {Tools!PartShape(a), Tools!PartShape(b)}
      BY <1>4, <2>2, ChoiceShape
    <3>2. \E u : Tools!PartShape(a) = Tools!One(u)
      BY LeafAsSchema, LeafForm
    <3>3. \/ \E u : Tools!PartShape(b) = Tools!One(u)
          \/ \E t \in Tools!Scalars : Tools!PartShape(b) = Tools!Many(t)
      <4>1. CASE b = l \/ b = Tools!Ref(l)
        BY <4>1, LeafAsSchema, LeafForm
      <4>2. CASE b = Tools!ArrayOf(l)
        BY <4>2 DEF Tools!PartShape, Tools!ShapeBy, Tools!Resolve, Tools!ArrayOf
      <4> QED
        BY <4>1, <4>2
    <3> QED
      BY <3>1, <3>2, <3>3
  <2> QED
    BY <2>1, <2>2
<1> QED
  BY <1>2, <1>3, <1>4, SchemaForms

\* Whatever the flags of a parameter accept is sent as a value its schema allows
LEMMA ValueFits ==
  ASSUME NEW s \in Tools!Schemas, NEW given \in Tools!Given,
         Tools!Kind(s).kind # "json", ~Tools!HidesEnum(s),
         Tools!Accepted(Tools!Kind(s), given)
  PROVE  Tools!Fits(Tools!Value(Tools!Kind(s), given), s)
<1> DEFINE k == Tools!Kind(s)
<1>1. ASSUME NEW t \in Tools!Scalars, Tools!Shape(s) = Tools!One(t)
      PROVE  Tools!Fits(Tools!Value(k, given), s)
  <2>1. k = [kind |-> "scalar", type |-> t, enum |-> Tools!EnumOf(Tools!Resolve(s))]
    BY <1>1, ScalarKind
  <2>2. Tools!Accepts(t, Tools!EnumOf(Tools!Resolve(s)), given[1])
    BY <2>1 DEF Tools!Accepted
  <2>3. Tools!Value(k, given) = Tools!Parsed(t, given[1])
    BY <2>1 DEF Tools!Value
  <2>4. given[1] \in Tools!Texts
    BY GivenTexts DEF Tools!Given
  <2> QED
    BY <1>1, <2>2, <2>3, <2>4, ScalarSound
<1>2. ASSUME NEW t \in Tools!Scalars, Tools!Shape(s) = Tools!Many(t)
      PROVE  Tools!Fits(Tools!Value(k, given), s)
  <2>1. k = [kind |-> "array", type |-> t, enum |-> Tools!EnumOf(Tools!Items(s))]
    BY <1>2, ArrayKind
  <2>2. \A i \in DOMAIN given : Tools!Accepts(t, Tools!EnumOf(Tools!Items(s)), given[i])
    BY <2>1 DEF Tools!Accepted
  <2>3. Tools!Value(k, given)
          = [type |-> "array", items |-> [i \in DOMAIN given |-> Tools!Parsed(t, given[i])]]
    BY <2>1 DEF Tools!Value
  <2>4. \A i \in DOMAIN given : given[i] \in Tools!Texts
    BY GivenTexts
  <2> DEFINE v == Tools!Value(k, given)
  <2>5. v.type = "array" /\ DOMAIN v.items = DOMAIN given
        /\ \A i \in DOMAIN given : v.items[i] = Tools!Parsed(t, given[i])
    BY <2>3
  <2> HIDE DEF v
  <2>6. \A i \in DOMAIN v.items :
          \E text \in Tools!Texts : /\ v.items[i] = Tools!Parsed(t, text)
                                  /\ Tools!Accepts(t, Tools!EnumOf(Tools!Items(s)), text)
    BY <2>2, <2>4, <2>5
  <2>7. Tools!Fits(v, s)
    BY <1>2, <2>5, <2>6, ArraySound
  <2> QED
    BY <2>7 DEF v
<1>3. ASSUME NEW u, u \notin Tools!Scalars, Tools!Shape(s) = Tools!One(u)
      PROVE  FALSE
  BY <1>3 DEF Tools!Kind, Tools!KindOf, Tools!One
<1> QED
  BY <1>1, <1>2, <1>3, SchemaShape

-----------------------------------------------------------------------------
(***************************************************************************)
(* The tools: one command                                                  *)
(***************************************************************************)

CallLines == {"call", "call with json"}

\* Only a command that calls the tool gets to its arguments, and it has run the
\* tool once when it has printed an answer
CallsOnce ==
  /\ toolOutcome = "running" <=> toolStep # "end"
  /\ toolStep = "extensions" => line \notin CallLines
  /\ toolStep \in {"arguments", "call"} => line \in CallLines
  /\ toolStep # "end" => ran = 0
  /\ toolStep \notin {"call", "end"} => sent = Tools!NotSent
  /\ ran \in 0..1
  /\ ran > 0 \/ sent # Tools!NotSent => line \in CallLines
  /\ toolOutcome = "printed" /\ line \in CallLines => ran = 1

\* What was sent for a parameter was accepted for it
SentAccepted ==
  \/ sent \in {Tools!NotSent, Tools!Whole}
  \/ /\ schema \in Tools!Schemas /\ texts \in Tools!Given
     /\ Tools!Accepted(Tools!Kind(schema), texts)
     /\ sent = Tools!Value(Tools!Kind(schema), texts)

\* A session goes with the requests of bl alone, for an organisation
RightTarget ==
  target.session # Tools!NoKey => env.bl /\ env.org /\ ~Tools!ProxyAuth(env)

ToolInv == Tools!ToolTypeOK /\ CallsOnce /\ SentAccepted /\ RightTarget

LEMMA TargetForm ==
  ASSUME env \in Tools!Environments
  PROVE  LET g == Tools!Target(env)
         IN /\ g.base \in Tools!Bases /\ g.session \in {stored, Tools!NoKey}
            /\ g.session # Tools!NoKey => env.bl /\ ~Tools!ProxyAuth(env)
<1>1. Tools!Base(env) \in Tools!Hosts
  BY DEF Tools!Base, Tools!Environments, Tools!Hosts, Tools!Unset
<1>2. ASSUME NEW o \in BOOLEAN PROVE Tools!Routed(Tools!Base(env), o) \in Tools!Bases
  <2>1. (o /\ Tools!Base(env) = "builderlab") \in BOOLEAN
    OBVIOUS
  <2> QED
    BY <1>1, <2>1, Zenon DEF Tools!Routed, Tools!Bases
<1>3. env.org \in BOOLEAN
  BY DEF Tools!Environments
<1>4. Tools!Session(env) \in {stored, Tools!NoKey}
  BY Zenon DEF Tools!Session
<1>5. CASE ~env.bl \/ Tools!ProxyAuth(env)
  <2>1. Tools!Target(env)
          = [base |-> Tools!Routed(Tools!Base(env), FALSE), session |-> Tools!NoKey]
    BY <1>5, Zenon DEF Tools!Target
  <2>2. Tools!Routed(Tools!Base(env), FALSE) \in Tools!Bases
    BY <1>2
  <2>3. /\ Tools!Target(env).base = Tools!Routed(Tools!Base(env), FALSE)
        /\ Tools!Target(env).session = Tools!NoKey
    BY <2>1
  <2> QED
    BY <2>2, <2>3, Zenon
<1>6. CASE ~(~env.bl \/ Tools!ProxyAuth(env))
  <2>1. Tools!Target(env)
          = [base |-> Tools!Routed(Tools!Base(env), env.org), session |-> Tools!Session(env)]
    BY <1>6, Zenon DEF Tools!Target
  <2> QED
    BY <1>2, <1>3, <1>4, <1>6, <2>1
<1> QED
  BY <1>5, <1>6

LEMMA ToolInit == Tools!ToolInit => ToolInv
<1> SUFFICES ASSUME Tools!ToolInit PROVE ToolInv
  OBVIOUS
<1>1. stored \in Tools!Keys \cup {Tools!NoKey}
  <2>1. Tools!Base(env) \in Tools!Hosts
    BY DEF Tools!ToolInit, Tools!Base, Tools!Environments, Tools!Hosts, Tools!Unset
  <2>2. Tools!ToolsPath(env) \in Tools!Paths /\ Tools!LoginPath(env) \in Tools!Paths
    BY DEF Tools!ToolInit, Tools!ToolsPath, Tools!LoginPath, Tools!Environments, Tools!Paths,
           Tools!Unset
  <2>3. ASSUME NEW h \in Tools!Hosts, NEW o PROVE Tools!Routed(h, o) \in Tools!Bases
    <3>1. (o /\ h = "builderlab") \in BOOLEAN
      OBVIOUS
    <3> QED
      BY <3>1, Zenon DEF Tools!Routed, Tools!Bases
  <2>4. Tools!LoginKey(env) \in Tools!Keys
    BY <2>1, <2>2, <2>3 DEF Tools!LoginKey, Tools!Keys
  <2>5. /\ Tools!Routed("builderlab", FALSE) \in Tools!Bases
        /\ \A key \in Tools!Keys : /\ \A p \in Tools!Paths : [key EXCEPT !.path = p] \in Tools!Keys
                                   /\ \A b \in Tools!Bases : [key EXCEPT !.base = b] \in Tools!Keys
    BY <2>3 DEF Tools!Keys, Tools!Hosts
  <2> QED
    BY <2>2, <2>4, <2>5 DEF Tools!ToolInit
<1>2. Tools!ToolTypeOK
  BY <1>1 DEF Tools!ToolInit, Tools!ToolTypeOK, Tools!Outcomes
<1>3. CallsOnce /\ SentAccepted /\ RightTarget
  BY DEF Tools!ToolInit, CallsOnce, SentAccepted, RightTarget, Tools!NoTarget
<1> QED
  BY <1>2, <1>3 DEF ToolInv

LEMMA PlainInputs ==
  /\ Tools!Plain("string") \in Tools!Schemas /\ Tools!Plain("object") \in Tools!Schemas
  /\ <<"word">> \in Tools!Given /\ <<"{}">> \in Tools!Given
  /\ \A x \in {<<Tools!Plain("string"), <<"word">>>>, <<Tools!Plain("object"), <<"{}">>>>} :
       x[1] \in Tools!Schemas /\ x[2] \in Tools!Given
<1>1. \A l \in Tools!Leaves : l \in Tools!Schemas
  BY DEF Tools!Schemas
<1>2. Tools!Plain("string") \in Tools!Leaves /\ Tools!Plain("object") \in Tools!Leaves
  BY DEF Tools!Leaves
<1>3. <<"word">> \in Tools!Given /\ <<"{}">> \in Tools!Given
  BY DEF Tools!Given, Tools!Texts
<1>4. ASSUME NEW s \in Tools!Schemas, NEW given \in Tools!Given, NEW x, x = <<s, given>>
      PROVE  x[1] \in Tools!Schemas /\ x[2] \in Tools!Given
  BY <1>4
<1>5. Tools!Plain("string") \in Tools!Schemas /\ Tools!Plain("object") \in Tools!Schemas
  BY <1>1, <1>2
<1> QED
  BY <1>3, <1>4, <1>5

LEMMA CallStep == ToolInv /\ Tools!Call => ToolInv'
<1> SUFFICES ASSUME ToolInv, Tools!Call PROVE ToolInv'
  OBVIOUS
<1>1. ran = 0 /\ line \in CallLines
  BY DEF Tools!Call, ToolInv, CallsOnce
<1>2. UNCHANGED <<line, env, stored, target, extension, schema, texts, sent>>
  BY Zenon DEF Tools!Call
<1>3. /\ toolStep' = "end"
      /\ \/ toolOutcome' \in {"printed", "tool error"} /\ ran' = ran + 1
         \/ toolOutcome' \in {"tool error", "failed"} /\ ran' \in {ran, ran + 1}
  BY Zenon DEF Tools!Call, Tools!End
<1>4. ran' \in {0, 1} /\ (toolOutcome' = "printed" => ran' = 1)
  <2>1. 0 + 1 = 1 /\ 0 # 1
    OBVIOUS
  <2>2. "tool error" # "printed" /\ "failed" # "printed"
    OBVIOUS
  <2> QED
    BY <1>1, <1>3, <2>1, <2>2, Zenon
<1>5. {0, 1} = 0..1 /\ {0, 1} \subseteq 0..2
  OBVIOUS
<1>6. Tools!ToolTypeOK'
  BY <1>2, <1>3, <1>4, <1>5 DEF ToolInv, Tools!ToolTypeOK, Tools!Outcomes
<1>7. CallsOnce'
  BY <1>1, <1>2, <1>3, <1>4, <1>5 DEF ToolInv, CallsOnce
<1>8. SentAccepted' /\ RightTarget'
  BY <1>2 DEF ToolInv, SentAccepted, RightTarget
<1> QED
  BY <1>6, <1>7, <1>8 DEF ToolInv

LEMMA ToolStep == ToolInv /\ [Tools!ToolNext]_toolVars => ToolInv'
<1> SUFFICES ASSUME ToolInv, [Tools!ToolNext]_toolVars PROVE ToolInv'
  OBVIOUS
<1> USE DEF ToolInv, CallsOnce, SentAccepted, RightTarget, CallLines, Tools!ToolTypeOK,
            Tools!Outcomes, Tools!Goto, Tools!End
<1>1. CASE Tools!Begin
  <2>1. target' = target \/ target' = Tools!Target(env)
    BY <1>1 DEF Tools!Begin
  <2>2. RightTarget' /\ (target' = target \/ (target'.base \in Tools!Bases
                                           /\ target'.session \in {stored, Tools!NoKey}))
    <3>1. CASE target' = target
      BY <1>1, <3>1 DEF Tools!Begin
    <3>2. CASE target' # target
      <4>1. /\ Tools!NeedsBackend /\ target' = Tools!Target(env) /\ env' = env
            /\ ~(env.bl /\ ~Tools!ProxyAuth(env) /\ ~env.org) /\ stored' = stored
        BY <1>1, <3>2 DEF Tools!Begin
      <4>2. Tools!ProxyAuth(env)' = Tools!ProxyAuth(env)
        BY <4>1 DEF Tools!ProxyAuth, Tools!Base
      <4> QED
        BY <4>1, <4>2, TargetForm
    <3> QED
      BY <3>1, <3>2
  <2>3. CASE Tools!NeedsBackend /\ env.bl /\ ~Tools!ProxyAuth(env) /\ ~env.org
    BY <1>1, <2>2, <2>3 DEF Tools!Begin
  <2>4. CASE ~(Tools!NeedsBackend /\ env.bl /\ ~Tools!ProxyAuth(env) /\ ~env.org)
    <3>1. Tools!FirstStep
      BY <1>1, <2>4 DEF Tools!Begin
    <3>2. \/ toolStep' = "end" /\ toolOutcome' = "failed"
          \/ toolStep' = "end" /\ toolOutcome' = "printed" /\ line \notin CallLines
          \/ toolStep' = "tools" /\ toolOutcome' = toolOutcome
          \/ toolStep' = "extensions" /\ toolOutcome' = toolOutcome /\ line \notin CallLines
      BY <3>1 DEF Tools!FirstStep, Tools!OfExtension, Tools!Lines
    <3> QED
      BY <1>1, <2>2, <3>2 DEF Tools!Begin
  <2> QED
    BY <2>3, <2>4
<1>2. CASE Tools!ListExtensions
  BY <1>2 DEF Tools!ListExtensions
<1>3. CASE Tools!ListTools
  BY <1>3 DEF Tools!ListTools
<1>4. CASE Tools!Known
  BY <1>4 DEF Tools!Known
<1>5. ASSUME NEW input \in Tools!Inputs, Tools!Arguments(input[1], input[2])
      PROVE  ToolInv'
  <2>1. input[1] \in Tools!Schemas /\ input[2] \in Tools!Given
    <3>1. Tools!Plain("string") \in Tools!Schemas /\ Tools!Plain("object") \in Tools!Schemas
      BY PlainInputs
    <3>2. <<"word">> \in Tools!Given /\ <<"{}">> \in Tools!Given
      BY PlainInputs
    <3>3. input \in (Tools!Schemas \X Tools!Given)
                      \cup {<<Tools!Plain("string"), <<"word">>>>, <<Tools!Plain("object"), <<"{}">>>>}
      BY <1>5, Zenon DEF Tools!Inputs
    <3>4. CASE input \in Tools!Schemas \X Tools!Given
      BY <3>4
    <3>5. CASE input \in {<<Tools!Plain("string"), <<"word">>>>, <<Tools!Plain("object"), <<"{}">>>>}
      BY <3>5, PlainInputs
    <3> QED
      BY <3>3, <3>4, <3>5
  <2>2. SentAccepted'
    <3> DEFINE s == input[1]  given == input[2]
    <3>1. schema' = s /\ texts' = given /\ sent = Tools!NotSent
      BY <1>5 DEF Tools!Arguments
    <3>2. \/ sent' \in {Tools!Whole, Tools!NotSent}
          \/ /\ Tools!Accepted(Tools!Kind(s), given)
             /\ sent' = Tools!Value(Tools!Kind(s), given)
      BY <1>5, <3>1 DEF Tools!Arguments
    <3> HIDE DEF s, given
    <3>3. Tools!Kind(schema)' = Tools!Kind(s) /\ s \in Tools!Schemas /\ given \in Tools!Given
      BY <2>1, <3>1 DEF s, given
    <3> QED
      BY <3>1, <3>2, <3>3
  <2>3. Tools!ToolTypeOK' /\ CallsOnce' /\ RightTarget'
    BY <1>5 DEF Tools!Arguments
  <2> QED
    BY <2>2, <2>3
<1>6. CASE Tools!Call
  BY <1>6, CallStep
<1>7. CASE \E e \in {"ready", "closed", "gone"} : Tools!Connect(e)
  BY <1>7 DEF Tools!Connect
<1>8. CASE UNCHANGED toolVars
  <2>1. Tools!ToolTypeOK'
    BY <1>8 DEF toolVars
  <2>2. CallsOnce' /\ SentAccepted' /\ RightTarget'
    BY <1>8 DEF toolVars
  <2> QED
    BY <2>1, <2>2
<1> QED
  BY <1>1, <1>2, <1>3, <1>4, <1>5, <1>6, <1>7, <1>8 DEF Tools!ToolNext, Tools!toolVars

LEMMA ToolFaithful == ToolInv => OneFaithfulCall
<1> SUFFICES ASSUME ToolInv PROVE OneFaithfulCall
  OBVIOUS
<1>1. ASSUME sent \notin {Tools!NotSent, Tools!Whole}, Tools!Kind(schema).kind # "json",
             ~Tools!HidesEnum(schema)
      PROVE  Tools!Fits(sent, schema)
  BY <1>1, ValueFits DEF ToolInv, SentAccepted
<1>2. ran <= 1
  BY DEF ToolInv, CallsOnce
<1>3. /\ ran > 0 \/ sent # Tools!NotSent => line \in {"call", "call with json"}
      /\ toolOutcome = "printed" /\ line \in {"call", "call with json"} => ran = 1
      /\ target.session # Tools!NoKey => env.bl /\ env.org /\ ~Tools!ProxyAuth(env)
  BY Zenon DEF ToolInv, CallsOnce, RightTarget, CallLines
<1> QED
  BY <1>1, <1>2, <1>3, Zenon DEF ToolInv, OneFaithfulCall, Tools!OneFaithfulCall

-----------------------------------------------------------------------------

\* A scenario moves one module and leaves the others alone
LEMMA ToolsAlone == WaitingSpec => Tools!ToolSpec
<1>1. WaitingInit => Tools!ToolInit
  BY DEF WaitingInit
<1>2. [WaitingNext]_waitingVars => [Tools!ToolNext]_(Tools!toolVars)
  BY DEF WaitingNext, waitingVars, toolVars, Tools!toolVars
<1> QED
  BY <1>1, <1>2, PTL DEF WaitingSpec, Tools!ToolSpec

LEMMA LockAlone == WaitingSpec => Spec
<1>1. WaitingInit => Init
  BY DEF WaitingInit
<1>2. [WaitingNext]_waitingVars => [Next]_lockVars
  BY DEF WaitingNext, waitingVars
<1> QED
  BY <1>1, <1>2, PTL DEF WaitingSpec, Spec

\* Every command of the run calls its tool at most once, with no session but that of
\* bl for an organisation; what it sends for a parameter has the types and is among
\* the values the schema names, whichever way it is built of plain ones, whatever is
\* given for it.  What else a schema may demand is not read, nor in the model.
THEOREM CallIsFaithful == WaitingSpec => []OneFaithfulCall
<1>1. ToolInv /\ [Tools!ToolNext]_(Tools!toolVars) => ToolInv'
  BY ToolStep DEF toolVars, Tools!toolVars
<1>2. Tools!ToolSpec => []ToolInv
  BY ToolInit, <1>1, PTL DEF Tools!ToolSpec
<1> QED
  BY <1>2, ToolsAlone, ToolFaithful, PTL

\* The lock of the run, beside what else waits, excludes as the lock alone does
THEOREM WaitingExclusion == WaitingSpec => [](TypeOK /\ ExclusiveUntilStale)
BY LockAlone, TypeCorrect, ExclusionUntilStale, PTL
=============================================================================
