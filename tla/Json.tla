--------------------------------- MODULE Json ---------------------------------
(***************************************************************************)
(* Decoded JSON values, and the Python idioms PySIBS reads them with.  An  *)
(* object is a function from its keys.                                     *)
(***************************************************************************)
EXTENDS Integers, Sequences, TLC

Null == [json |-> "null"]
Str(t) == [json |-> "string", text |-> t]
Num(n) == [json |-> "number", text |-> ToString(n)]
Obj(f) == [json |-> "object", fields |-> f]
Arr(s) == [json |-> "array", items |-> s]

IsStr(v) == v.json = "string"
IsObj(v) == v.json = "object"

Falsy(v) ==
  \/ v \in {Null, Str(""), Num(0), Arr(<<>>)}
  \/ IsObj(v) /\ DOMAIN v.fields = {}

\* data.get(key)
Get(f, k) == IF k \in DOMAIN f THEN f[k] ELSE Null

\* The fields of f, and those of g that f has not (the proofs have no
\* definition of @@).
With(f, g) == [k \in DOMAIN f \cup DOMAIN g |-> IF k \in DOMAIN f THEN f[k] ELSE g[k]]

\* The fields of an object, or of {} in its place.
NoFields == [k \in {} |-> Null]
Fields(v) == IF IsObj(v) THEN v.fields ELSE NoFields

\* a or b
Or(v, w) == IF Falsy(v) THEN w ELSE v

\* The first key whose value is not None.
FirstOf(f, keys) ==
  LET present == SelectSeq(keys, LAMBDA k : Get(f, k) # Null)
  IN  IF present = <<>> THEN Null ELSE Get(f, Head(present))

\* data.get(k1) or data.get(k2) or ...: the last value when all are falsy.
FirstTruthy(f, keys) ==
  LET truthy == SelectSeq(keys, LAMBDA k : ~ Falsy(Get(f, k)))
  IN  Get(f, IF truthy = <<>> THEN keys[Len(keys)] ELSE Head(truthy))

\* str(v); the text of an object or array is of no account here.
None == "None"
IsPlain(v) == v.json \in {"string", "number"}
PyStr(v) == IF IsPlain(v) THEN v.text ELSE "{...}"

StrOrNone(v) == IF v = Null THEN None ELSE PyStr(v)

(***************************************************************************)
(* A set of values that holds, with an object or an array, what is in it.  *)
(***************************************************************************)
Holding(f, values) == \A k \in DOMAIN f : f[k] \in values

IsJson(values) ==
  /\ Null \in values
  /\ \A v \in values :
       /\ IsObj(v) => Holding(v.fields, values)
       /\ v.json = "array" => Holding(v.items, values)

\* What a pydantic field "str | None" takes: a number is not converted.
FitsStr(v) == v = Null \/ IsStr(v)
=============================================================================
