---------------------------- MODULE ValueObject ----------------------------
(***************************************************************************)
(* The ValueObject base class (domain/value_objects/base.py): __new__       *)
(* refuses the base class and a subclass without fields, and __repr__      *)
(* renders only the fields declared with repr=True.  RawPassword declares   *)
(* its value with repr=False so that a password never reaches a log line    *)
(* through repr().                                                         *)
(*                                                                         *)
(* A class is its name and its dataclass fields in declaration order; a    *)
(* field is its name, its value and its repr flag.  repr() is modelled as   *)
(* the sequence of tokens it prints: the class name, then the rendered     *)
(* values, or name/value pairs, or the "<hidden>" marker.                  *)
(***************************************************************************)
EXTENDS Naturals, Sequences, SequencesExt

CONSTANT MaxFields  \* the most fields a checked value object declares

FieldValues == <<"v1", "v2", "v3", "v4">>

ASSUME MaxFields \in 0 .. Len(FieldValues)

Hidden == "<hidden>"

VARIABLES
  declared, \* the declared fields of the value object's class
  printed   \* what repr() of an instance printed, <<>> before the call

voVars == <<declared, printed>>

\* __new__: the base class and a class without fields cannot be instantiated.
Instantiable(cls, fields) == cls # "ValueObject" /\ fields # <<>>

\* The fields __repr_value renders: those with repr=True
Shown(fields) == SelectSeq(fields, LAMBDA f : f.repr)

\* A printed token: a value alone (name ""), or a name=value pair
Token(n, v) == [name |-> n, value |-> v]

\* A variant whose one-field case renders the first declared field.
ReprValueFirstField(fields) ==
  LET items == Shown(fields) IN
  IF items = <<>> THEN <<Token("", Hidden)>>
  ELSE IF Len(items) = 1 THEN <<Token("", fields[1].value)>>
  ELSE [i \in 1 .. Len(items) |-> Token(items[i].name, items[i].value)]

\* __repr_value: "<hidden>" when no field is shown, the value alone for one
\* shown field, name=value pairs otherwise.
ReprValue(fields) ==
  LET items == Shown(fields) IN
  IF items = <<>> THEN <<Token("", Hidden)>>
  ELSE IF Len(items) = 1 THEN <<Token("", items[1].value)>>
  ELSE [i \in 1 .. Len(items) |-> Token(items[i].name, items[i].value)]

\* __repr__: f"{type(self).__name__}({self.__repr_value()})"
Repr(cls, fields) == <<Token("", cls)>> \o ReprValue(fields)

\* The field values a rendering of a class's fields reveals
Revealed(out) == {out[i].value : i \in 2 .. Len(out)} \ {Hidden}

-----------------------------------------------------------------------------
\* The classes of up to MaxFields fields, each field with a value of its own.
Layouts ==
  {[i \in 1 .. Len(flags) |-> [name |-> i, value |-> FieldValues[i], repr |-> flags[i]]] :
     flags \in BoundedSeq(BOOLEAN, MaxFields)}

VOInit == declared \in Layouts /\ printed = <<>>

\* An instance is created and repr() is called on it (a log line formats it).
ReprCall ==
  /\ printed = <<>>
  /\ Instantiable("C", declared)
  /\ printed' = Repr("C", declared)
  /\ UNCHANGED declared

VONext == ReprCall

(***************************************************************************)
(* The repr policy of the ValueObject docstring: the repr() of any value   *)
(* object reveals the value of every field declared with repr=True and of  *)
(* no field declared with repr=False (the RawPassword value among them),   *)
(* whatever the order the fields are declared in.                          *)
(***************************************************************************)
ReprRevealsExactlyShown ==
  printed # <<>> =>
    Revealed(printed) = {declared[i].value : i \in {j \in 1 .. Len(declared) : declared[j].repr}}
====
