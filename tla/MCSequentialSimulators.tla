----------------------- MODULE MCSequentialSimulators ----------------------
(* Every epsilon relation on three states, six four-state automata, every  *)
(* DFA on two states, and what the reader makes of the documents below, on *)
(* every string of up to three bytes, for each simulator.                  *)
EXTENDS AnmlSimulation, MCAutomata

Element(id, symbols, start, activates, reports) ==
  [id |-> id, symbols |-> symbols, start |-> start, activates |-> activates,
   reports |-> reports]

Document(tags, stes) ==
  [tags |-> tags \cup {"anml", "state-transition-element"}, stes |-> stes]

P == <<"p">>
Q == <<"q">>
Port == <<"q", "0">>     (* "q:0" *)

Zero == Class(FALSE, <<<<0, 0>>>>)
One  == Class(FALSE, <<<<1, 1>>>>)

(* p, seeded once or at every byte, leads to q, which reports. *)
TwoElements ==
  {Document({}, <<Element(P, symbols, start, activates, FALSE),
                  Element(Q, One, "none", <<>>, TRUE)>>) :
     symbols \in {Zero, Class(TRUE, <<<<0, 0>>>>), Star},
     start \in {"start-of-data", "all-input"},
     activates \in {<<Q>>, <<P, Port>>}}

OnlyElement(symbols) ==
  Document({}, <<Element(P, symbols, "start-of-data", <<P>>, TRUE)>>)

(* Symbol sets at their limits: every byte by double negation, no byte at  *)
(* all, both items of a class, the range that ends with the last byte; and *)
(* those the reader refuses, or takes for the wildcard.                    *)
SymbolSets ==
  {Class(TRUE, <<>>), Class(TRUE, <<<<0, 1>>>>), Class(FALSE, <<<<1, 1>>, <<0, 0>>>>),
   Class(FALSE, <<<<0, 1>>>>), Class(TRUE, <<<<3, 3>>>>),
   Malformed, Class(FALSE, <<>>), Class(FALSE, <<<<1, 0>>>>),
   Class(FALSE, <<<<2, 2>>>>), Class(FALSE, <<<<3, 3>>>>), Class(FALSE, <<<<0, 3>>>>)}

(* Names that could go to the wrong element, or to none. *)
Named(ids, activates) ==
  Document({}, <<Element(ids[1], Zero, "all-input", activates, FALSE),
                 Element(ids[2], One, "none", <<>>, TRUE),
                 Element(ids[3], Star, "none", <<>>, TRUE)>>)

NamedDocuments ==
  {Named(<<P, Q, Port>>, <<Port>>), Named(<<P, Q, <<"r">>>>, <<Port>>),
   Named(<<P, Q, <<"r">>>>, <<<<"s">>>>), Named(<<P, Q, <<"r">>>>, <<<<"s", "0">>>>),
   Named(<<P, Q, <<"r">>>>, <<NoName>>),
   Named(<<P, Q, Q>>, <<Q>>), Named(<<P, Q, NoName>>, <<Q>>)}

MCDocuments ==
  TwoElements \cup {OnlyElement(s) : s \in SymbolSets} \cup NamedDocuments
    \cup {Document({}, <<>>),
          Document({"counter"}, <<Element(P, Zero, "all-input", <<>>, TRUE)>>)}

MCAutomataSet ==
  FourState \cup EveryClosure \cup TwoStateDfas \cup {load[2] : load \in Loaded}
MCInputs == Strings(3)
=============================================================================
