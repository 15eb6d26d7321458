------------------------------ MODULE Witnesses ------------------------------
(***************************************************************************)
(* Source witnesses: text that a caller captured, stored under an id that  *)
(* is its authentication tag, and evidence documents whose claims are      *)
(* bound to spans of it.  A tag stands for the envelope it was computed    *)
(* from: two envelopes have one tag only when they are equal.  A text is   *)
(* its length in bytes and the offsets at which a character starts or the  *)
(* text ends.  Of a locator, a media type or a time only the class counts, *)
(* and the several codes a capture or a document is refused with are one.  *)
(***************************************************************************)
EXTENDS Integers, Sequences, FiniteSets

CONSTANT
  HasKey  (* AGENT_GRAPH_INTEGRITY_KEY_PATH names a key *)

ASSUME KeyAssumption == HasKey \in BOOLEAN

Absent == "absent"

-----------------------------------------------------------------------------
(* Captures *)

validate_witness_capture(c) ==
  /\ c.locator \notin {"blank", "long", "control"}
  /\ c.content.bytes > 0 /\ ~c.content.large
  /\ c.media /\ c.authority /\ c.time

Tag(c) == [hmac |-> c]

RecordOf(c) == [id |-> Tag(c), capture |-> c, digest |-> Tag(c)]

verify_witness_record(r) ==
  validate_witness_capture(r.capture) /\ r.digest = Tag(r.capture) /\ r.id = Tag(r.capture)

Rows(rows, id) == {r \in rows : r.id = id}

\* Deviation: only rows that are there are looked at.
get_witness_if_there(rows, id) ==
  IF ~HasKey THEN "INTEGRITY_KEY_REQUIRED"
  ELSE IF \E r \in Rows(rows, id) : ~verify_witness_record(r) THEN "WITNESS_INTEGRITY_FAILURE"
  ELSE Absent

\* The outcome of reading one witness: a code, or Absent when it is returned.
get_witness(rows, id) ==
  IF ~HasKey THEN "INTEGRITY_KEY_REQUIRED"
  ELSE IF Rows(rows, id) = {} THEN "WITNESS_NOT_FOUND"
  ELSE IF \E r \in Rows(rows, id) : ~verify_witness_record(r) THEN "WITNESS_INTEGRITY_FAILURE"
  ELSE Absent

\* The tool and the store: a row with this id that is already there stays as it is.
capture_witness(rows, c) ==
  IF validate_witness_capture(c) /\ HasKey /\ Rows(rows, Tag(c)) = {}
    THEN rows \cup {RecordOf(c)}
    ELSE rows

-----------------------------------------------------------------------------
(* Evidence documents *)

(* Of a claim count: it has text, its ids are strings and none is empty, the *)
(* set of its ids, and its span: <<>> or <<start, end>>.                     *)

parse_span(claim) == claim.span # <<>> /\ claim.span[1] < claim.span[2]

SourceOk(source) == source.locator /\ source.type /\ source.witness

ClaimOk(claim) == claim.text /\ claim.wellformed /\ claim.ids # {} /\ parse_span(claim)

validate_research_evidence(doc) ==
  /\ doc.object /\ doc.claims # <<>> /\ doc.sources # <<>>
  /\ \A i \in DOMAIN doc.sources : SourceOk(doc.sources[i])
  /\ \A i \in DOMAIN doc.claims : ClaimOk(doc.claims[i])

InRange(span, content) ==
  /\ span[1] < span[2]
  /\ span[2] <= content.bytes
  /\ {span[1], span[2]} \subseteq content.marks

\* What is wrong with one binding, or Absent.
BindingError(rows, id, span) ==
  IF get_witness(rows, id) # Absent THEN get_witness(rows, id)
  ELSE IF \E r \in Rows(rows, id) : ~InRange(span, r.capture.content) THEN "WITNESS_SPAN_OUT_OF_RANGE"
  ELSE Absent

\* witness_bindings: what every claim is bound to.
witness_bindings(doc) ==
  UNION {{[id |-> id, span |-> doc.claims[i].span] : id \in doc.claims[i].ids} :
           i \in DOMAIN doc.claims}

\* validate_witness_dependencies: the errors it may return, none when it succeeds.
\* The first binding that fails decides; the order of bindings is left open.
validate_witness_dependencies(doc, rows) ==
  IF ~validate_research_evidence(doc) THEN {"WITNESS_EVIDENCE_INVALID"}
  ELSE {BindingError(rows, b.id, b.span) : b \in witness_bindings(doc)} \ {Absent}
=============================================================================
