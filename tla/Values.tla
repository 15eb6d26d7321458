------------------------------- MODULE Values -------------------------------
(***************************************************************************)
(* JSON values and the map of a run.  A value is a tuple with its kind in  *)
(* front.  A dotted path is one name.                                      *)
(***************************************************************************)
EXTENDS Naturals, Sequences, FiniteSets

None == "none"
Absent == <<>>

Null == <<"null">>
Bool(b) == <<"bool", b>>
Number(n) == <<"number", n>>
Text(s) == <<"text", s>>
Array(seq) == <<"array", seq>>
Object(fields) == <<"object", fields>>

Is(kind, value) == value[1] = kind

IsTrue(value) == value = Bool(TRUE)

Read(data, key) == IF key \in DOMAIN data THEN data[key] ELSE Null

Write(data, key, value) ==
  [k \in DOMAIN data \cup {key} |-> IF k = key THEN value ELSE data[k]]

Without(data, key) == [k \in DOMAIN data \ {key} |-> data[k]]

\* Two objects as one; the second wins.
Extended(old, new) ==
  [k \in DOMAIN old \cup DOMAIN new |-> IF k \in DOMAIN new THEN new[k] ELSE old[k]]

RangeOf(seq) == {seq[i] : i \in DOMAIN seq}

\* The elements at some positions, in order.
At(seq, positions) ==
  [n \in 1 .. Cardinality(positions) |->
     seq[CHOOSE i \in positions : Cardinality({j \in positions : j <= i}) = n]]
=============================================================================
