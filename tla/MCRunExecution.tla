--------------------------- MODULE MCRunExecution ---------------------------
(* A few chains, limits and documents for TLC. *)
EXTENDS RunExecution

Plan(chain, iterations, nodes, clock) ==
  [chain |-> chain, iterations |-> iterations, nodes |-> nodes, clock |-> clock]

Text(bytes, marks) == [bytes |-> bytes, large |-> FALSE, marks |-> marks]

Envelope(locator, text) ==
  [locator |-> locator, content |-> text, media |-> TRUE, authority |-> TRUE, time |-> TRUE]

Long  == Envelope("file", Text(3, {0, 1, 3}))
Short == Envelope("file", Text(2, {0, 1, 2}))
Blank == Envelope("blank", Text(1, {0, 1}))

TwoTexts == {Long, Short, Blank}

Claim(ids, span) == [text |-> TRUE, wellformed |-> TRUE, ids |-> ids, span |-> span]
Document(claims) ==
  [object |-> TRUE, claims |-> claims,
   sources |-> <<[locator |-> TRUE, type |-> TRUE, witness |-> TRUE]>>]

\* Bound to both texts, to the middle of a character, and to nothing.
Answers ==
  {Document(<<Claim({Tag(Long)}, <<1, 3>>), Claim({Tag(Short)}, <<0, 1>>)>>),
   Document(<<Claim({Tag(Long)}, <<0, 2>>)>>),
   Document(<<Claim({}, <<0, 1>>)>>)}

SmallPlans ==
  {Plan(<<"llm", "llm">>, 3, 0, TRUE), Plan(<<"llm", "llm">>, 3, 1, TRUE),
   Plan(<<"llm", "llm">>, 2, 2, FALSE), Plan(<<"llm", "delete">>, 1, 0, FALSE),
   Plan(<<"evidence">>, 1, 0, FALSE), Plan(<<"evidence", "delete">>, 2, 0, FALSE)}
=============================================================================
