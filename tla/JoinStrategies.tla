--------------------------- MODULE JoinStrategies ---------------------------
(***************************************************************************)
(* What a join node makes of its branches.  An input is <<key, value>>,    *)
(* with null for a branch that has written nothing.  Four of the modes are *)
(* strategies: the inputs are validated and normalized, contradictions are *)
(* exposed, an outcome is adjudicated and certified.                       *)
(*                                                                         *)
(* A join has `inputs`, `output` and `mode`, and what its mode reads:      *)
(* required (quorum), identity (dedupe_by_identity; None for the key),     *)
(* strict (contradiction_matrix), fields (proof_carrying_join).            *)
(***************************************************************************)
EXTENDS Values

Strategies ==
  {"dedupe_by_identity", "contradiction_matrix", "minority_report", "proof_carrying_join"}

\* path_get: <<value>>, or Absent.
Field(value, name) ==
  IF Is("object", value) /\ name \in DOMAIN value[2] THEN <<value[2][name]>> ELSE Absent

\* A text that is not blank.
Filled(entry, name) ==
  Field(entry, name) # Absent /\ Is("text", Field(entry, name)[1]) /\ Field(entry, name) # <<Text("")>>

ValuesOf(inputs) == [i \in DOMAIN inputs |-> inputs[i][2]]

Made(value) == [ok |-> TRUE, value |-> value]
Broken == [ok |-> FALSE, value |-> Null]

-----------------------------------------------------------------------------
(* Merges without a strategy. *)

\* The fields of objects, and values that are no object under their key.
MergedObjects(inputs) ==
  LET Part(i) ==
        IF Is("object", inputs[i][2]) THEN inputs[i][2][2]
        ELSE [k \in {inputs[i][1]} |-> inputs[i][2]]
      After[i \in 0 .. Len(inputs)] ==
        IF i = 0 THEN [k \in {} |-> Null] ELSE Extended(After[i - 1], Part(i))
  IN Object(After[Len(inputs)])

KeysDiffer(inputs) == \A i, j \in DOMAIN inputs : i # j => inputs[i][1] # inputs[j][1]

FirstNonNull(inputs) ==
  LET present == {i \in DOMAIN inputs : inputs[i][2] # Null} IN
  inputs[CHOOSE i \in present : \A j \in present : i <= j][2]

Succeeded(value) == IF Is("bool", value) THEN value[2] ELSE Field(value, "success") = <<Bool(TRUE)>>

Approvals(inputs) == Cardinality({i \in DOMAIN inputs : IsTrue(inputs[i][2])})

AllSuccess(inputs) ==
  Object([all_success |-> Bool(\A i \in DOMAIN inputs : Succeeded(inputs[i][2])),
          values |-> Array(ValuesOf(inputs))])

QuorumOf(join, inputs) ==
  Object([met |-> Bool(Approvals(inputs) >= join.required),
          approvals |-> Number(Approvals(inputs)), required |-> Number(join.required)])

Plain(join, inputs) ==
  CASE join.mode = "collect_array" -> Made(Array(ValuesOf(inputs)))
    [] join.mode = "merge_objects" -> Made(MergedObjects(inputs))
    [] join.mode = "collect_object" ->
         IF KeysDiffer(inputs) THEN Made(Object([k \in {inputs[i][1] : i \in DOMAIN inputs} |->
              inputs[CHOOSE i \in DOMAIN inputs : inputs[i][1] = k][2]]))
         ELSE Broken
    [] join.mode = "first_non_null" -> Made(FirstNonNull(inputs))
    [] join.mode = "all_success" -> Made(AllSuccess(inputs))
    [] join.mode = "quorum" -> Made(QuorumOf(join, inputs))

-----------------------------------------------------------------------------
(* The five stages. *)

\* identity_of: a configured identity is a text that is not blank.  Texts are
\* compared as values.
HasIdentity(join, input) ==
  \/ join.identity = None
  \/ Filled(input[2], join.identity)

IdentityOf(join, input) ==
  IF join.identity = None THEN input[1] ELSE Field(input[2], join.identity)[1]

ValidInputs(join, inputs) ==
  join.mode = "dedupe_by_identity" => \A i \in DOMAIN inputs : HasIdentity(join, inputs[i])

\* Deviation: duplicates are told by their wording.
NormalizedByWording(join, inputs) ==
  IF join.mode # "dedupe_by_identity" THEN inputs
  ELSE At(inputs, {i \in DOMAIN inputs : \A j \in 1 .. i - 1 : inputs[j][2] # inputs[i][2]})

\* The first of an identity stays.
Normalized(join, inputs) ==
  IF join.mode # "dedupe_by_identity" THEN inputs
  ELSE At(inputs, {i \in DOMAIN inputs :
         \A j \in 1 .. i - 1 : IdentityOf(join, inputs[j]) # IdentityOf(join, inputs[i])})

\* claim_of: what is no text counts as its rendering.
ClaimOf(claim) ==
  CASE Is("text", claim) -> claim[2]
    [] Is("bool", claim) -> IF claim[2] THEN "true" ELSE "false"
    [] Is("null", claim) -> "null"

\* Claims that are not of one scope and one time are not judged.
Contradict(left, right) ==
  /\ \A name \in {"scope", "time"} :
       Field(left, name) # Absent /\ Field(left, name) = Field(right, name)
  /\ Field(left, "claim") # Absent /\ Field(right, "claim") # Absent
  /\ ClaimOf(Field(left, "claim")[1]) # ClaimOf(Field(right, "claim")[1])

\* Deviation: an artifact is compared with the next one only.
ContradictionsOfNeighbours(join, set) ==
  IF join.mode # "contradiction_matrix" THEN {}
  ELSE {ij \in (DOMAIN set) \X (DOMAIN set) :
          ij[2] = ij[1] + 1 /\ Contradict(set[ij[1]][2], set[ij[2]][2])}

\* Pairs of positions: the order of the report is left out.
Contradictions(join, set) ==
  IF join.mode # "contradiction_matrix" THEN {}
  ELSE {ij \in (DOMAIN set) \X (DOMAIN set) :
          ij[1] < ij[2] /\ Contradict(set[ij[1]][2], set[ij[2]][2])}

Dissents(value) == Field(value, "dissent") = <<Bool(TRUE)>>

\* evidence_valid and checks_valid: a list that is there is not empty and all
\* of its entries are in order.
ListOk(value, name) ==
  Field(value, name) # Absent =>
    Is("array", Field(value, name)[1]) /\ Field(value, name)[1][2] # <<>>

Entries(value, name) ==
  IF Field(value, name) = Absent THEN {} ELSE RangeOf(Field(value, name)[1][2])

Witnessed(entry) == Filled(entry, "witness_id") /\ Filled(entry, "digest")

Passed(entry) == Field(entry, "status") = <<Text("passed")>>

Proven(join, value) ==
  /\ \A name \in join.fields : Field(value, name) # Absent
  /\ ListOk(value, "evidence") /\ \A entry \in Entries(value, "evidence") : Witnessed(entry)
  /\ ListOk(value, "checks") /\ \A entry \in Entries(value, "checks") : Passed(entry)

\* adjudicate: positions that make the value, that are kept as a minority, and
\* that are only named in a note.
Majority(join, set) ==
  CASE join.mode = "minority_report" -> {i \in DOMAIN set : ~Dissents(set[i][2])}
    [] join.mode = "proof_carrying_join" -> {i \in DOMAIN set : Proven(join, set[i][2])}
    [] OTHER -> DOMAIN set

Minority(join, set) ==
  IF join.mode = "minority_report" THEN DOMAIN set \ Majority(join, set) ELSE {}

Noted(join, set) ==
  IF join.mode = "proof_carrying_join" THEN DOMAIN set \ Majority(join, set) ELSE {}

\* adjudicate and certify
Certification(join, set) ==
  IF \/ Noted(join, set) # {}
     \/ join.mode = "contradiction_matrix" /\ join.strict /\ Contradictions(join, set) # {}
  THEN "quarantine" ELSE "pass"

Envelope(join, set) ==
  Object([join |-> Text(join.mode),
          certification |-> Text(Certification(join, set)),
          value |-> Array(ValuesOf(At(set, Majority(join, set)))),
          contradictions |-> <<"pairs", Contradictions(join, set)>>,
          minority_report |-> Array(ValuesOf(At(set, Minority(join, set)))),
          notes |-> <<"keys", {set[i][1] : i \in Noted(join, set)}>>])

Strategy(join, inputs) ==
  IF ValidInputs(join, inputs) THEN Made(Envelope(join, Normalized(join, inputs))) ELSE Broken

-----------------------------------------------------------------------------
(* JoinNode::execute: the inputs, of which one at least is there. *)

InputsOf(join, data) ==
  [i \in DOMAIN join.inputs |-> <<join.inputs[i], Read(data, join.inputs[i])>>]

Joined(join, data) ==
  LET inputs == InputsOf(join, data) IN
  IF \A i \in DOMAIN inputs : inputs[i][2] = Null THEN Broken
  ELSE IF join.mode \in Strategies THEN Strategy(join, inputs)
  ELSE Plain(join, inputs)
=============================================================================
