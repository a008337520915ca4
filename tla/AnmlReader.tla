----------------------------- MODULE AnmlReader -----------------------------
(***************************************************************************)
(* load_anml: an ANML document becomes an edge-labelled NFA.               *)
(*                                                                         *)
(* In ANML the symbols lie on the elements (STEs) and not on the edges; an *)
(* element is active after a byte when it has the byte in its symbol set   *)
(* and either a predecessor was active before it or its start mode seeds   *)
(* it.  The reader pushes each symbol set onto the incoming edges and adds *)
(* three states that stand for the start modes.                            *)
(*                                                                         *)
(* A document is a record: the tags it uses, and its elements in order.    *)
(* An element has                                                          *)
(*   id         a name, as the sequence of its parts between colons;       *)
(*              NoName when the attribute is absent                        *)
(*   symbols    its symbol-set attribute, split into atoms and ranges      *)
(*   start      its start attribute, in lower case                         *)
(*   activates  the names its activate-on-match children give              *)
(*   reports    whether it has a report-on-match child                     *)
(***************************************************************************)
EXTENDS NfaBuilder, SequencesExt

CONSTANTS
  LastByte,     (* 255 in the code *)
  Documents     (* the documents a run loads *)

ASSUME AlphabetAssumption ==
  LastByte \in Nat /\ Bytes = 0 .. LastByte /\ AnySymbol = LastByte + 1

(* What an attribute and an element may say: a class holds any ranges of    *)
(* code points, in any order, inverted and beyond the bytes included.       *)
SymbolSetForms ==
  [form : {"star", "malformed", "class"}, negate : BOOLEAN, items : Seq(Nat \X Nat)]

Elements ==
  [id : Seq(STRING), symbols : SymbolSetForms, start : STRING,
   activates : Seq(Seq(STRING)), reports : BOOLEAN]

IsDocument(doc) == doc \in [tags : SUBSET STRING, stes : Seq(Elements)]

(* Documents are read as they come: nothing is assumed of what they say.    *)
ASSUME DocumentsAssumption == \A doc \in Documents : IsDocument(doc)

NoName == <<>>

AllowedTags ==
  {"anml", "automata-network", "description", "state-transition-element",
   "activate-on-match", "report-on-match"}

(* The forms of a symbol set.  An item is a range <<lo, hi>> of code points
   and an atom c is <<c, c>>; a bare atom is a class of one. *)
Star               == [form |-> "star", negate |-> FALSE, items |-> <<>>]
Malformed          == [form |-> "malformed", negate |-> FALSE, items |-> <<>>]
Class(neg, items)  == [form |-> "class", negate |-> neg, items |-> items]

(* A truncated atom, an empty class, an inverted range.  `[^]` is no empty
   class: it is every byte. *)
SymbolSetRaises(s) ==
  \/ s.form = "malformed"
  \/ s.form = "class" /\ ~s.negate /\ s.items = <<>>
  \/ \E i \in DOMAIN s.items : s.items[i][2] < s.items[i][1]

(* No atom is checked to be a byte. *)
parse_symbol_set(s) ==
  LET out == UNION {s.items[i][1] .. s.items[i][2] : i \in DOMAIN s.items}
  IN CASE s.form = "star" -> {AnySymbol}
       [] s.form = "class" /\ s.negate -> (0 .. LastByte) \ out
       [] OTHER -> out

-----------------------------------------------------------------------------
Ids(doc) == {doc.stes[i].id : i \in DOMAIN doc.stes}

(* An exact id, or what stands before the first colon. *)
Resolve(doc, name) ==
  IF name \notin Ids(doc) /\ Len(name) > 1 THEN <<Head(name)>> ELSE name

ElementRaises(doc, ste) ==
  \/ ste.id = NoName
  \/ SymbolSetRaises(ste.symbols)
  \/ \E i \in DOMAIN ste.activates : Resolve(doc, ste.activates[i]) \notin Ids(doc)

DocumentRaises(doc) ==
  \/ ~(doc.tags \subseteq AllowedTags)
  \/ doc.stes = <<>>
  \/ \E i, j \in DOMAIN doc.stes : i # j /\ doc.stes[i].id = doc.stes[j].id
  \/ \E i \in DOMAIN doc.stes : ElementRaises(doc, doc.stes[i])

q_root  == 0
q_all   == 1
q_first == 2
ste_state(doc, id) == 2 + CHOOSE i \in DOMAIN doc.stes : doc.stes[i].id = id

(* q_all loops on every byte and stays active; q_first is active only
   before the first. *)
StartStatesNoLoopMutant ==
  LET three == add_state(add_state(add_state(NewBuilder)))
  IN add_epsilon(add_epsilon(set_start(three, q_root), q_root, q_all), q_root, q_first)

StartStates ==
  LET three == add_state(add_state(add_state(NewBuilder)))
      seeds == add_epsilon(add_epsilon(set_start(three, q_root), q_root, q_all), q_root, q_first)
  IN add_transition(seeds, q_all, AnySymbol, q_all)

(* {ste.get("id"): b.add_state() for ste in stes} *)
ElementStates(doc) ==
  FoldLeft(LAMBDA so_far, ste : add_state(so_far), StartStates, doc.stes)

symset(doc, id) == parse_symbol_set(doc.stes[ste_state(doc, id) - 2].symbols)

(* for c in symset[target_id] *)
add_edges(bld, symbols, src, dst) ==
  FoldSet(LAMBDA c, so_far : add_transition(so_far, src, c, dst), bld, symbols)

add_edges_into(bld, doc, id, src) ==
  add_edges(bld, symset(doc, id), src, ste_state(doc, id))

Seeded(bld, doc, ste) ==
  CASE ste.start = "all-input"     -> add_edges_into(bld, doc, ste.id, q_all)
    [] ste.start = "start-of-data" -> add_edges_into(bld, doc, ste.id, q_first)
    [] OTHER                       -> bld

Activated(bld, doc, ste) ==
  FoldLeft(LAMBDA so_far, name :
             add_edges_into(so_far, doc, Resolve(doc, name), ste_state(doc, ste.id)),
           bld, ste.activates)

Reporting(bld, doc, ste) ==
  IF ste.reports THEN set_accept(bld, ste_state(doc, ste.id)) ELSE bld

Built(doc) ==
  FoldLeft(LAMBDA so_far, ste :
             Reporting(Activated(Seeded(so_far, doc, ste), doc, ste), doc, ste),
           ElementStates(doc), doc.stes)

(* load_anml raises, or returns what build makes of it. *)
Loads(doc) == ~DocumentRaises(doc) /\ ~BuildRaises(Built(doc))
load_anml(doc) == build(Built(doc))

(* The documents that load, each with the automaton a simulator reads. *)
Loaded == {<<doc, ReadBack(load_anml(doc))>> : doc \in {d \in Documents : Loads(d)}}

-----------------------------------------------------------------------------
(***************************************************************************)
(* What a document means, said on its elements.                            *)
(***************************************************************************)
Denotes(symbols, byte) ==
  \/ symbols.form = "star"
  \/ symbols.negate # \E i \in DOMAIN symbols.items :
                         symbols.items[i][1] <= byte /\ byte <= symbols.items[i][2]

Names(doc, name, id) ==
  \/ name = id
  \/ name \notin Ids(doc) /\ Len(name) > 1 /\ id = <<name[1]>>

Precedes(doc, i, j) ==
  \E k \in DOMAIN doc.stes[i].activates :
    Names(doc, doc.stes[i].activates[k], doc.stes[j].id)

(* The elements active after each byte of w. *)
ActiveElements(doc, w) ==
  LET on[p \in 0 .. Len(w)] ==
        IF p = 0 THEN {}
        ELSE {j \in DOMAIN doc.stes :
                /\ Denotes(doc.stes[j].symbols, w[p])
                /\ \/ doc.stes[j].start = "all-input"
                   \/ doc.stes[j].start = "start-of-data" /\ p = 1
                   \/ \E i \in on[p - 1] : Precedes(doc, i, j)}
  IN on

(* The first report, as <<accepted, match_len>>. *)
FirstReport(doc, w) ==
  LET on   == ActiveElements(doc, w)
      ends == {p \in 1 .. Len(w) : \E j \in on[p] : doc.stes[j].reports}
  IN IF ends = {} THEN <<FALSE, 0>>
     ELSE <<TRUE, CHOOSE p \in ends : \A q \in ends : p <= q>>

(* Some seed or edge leads into the element. *)
Entered(doc, j) ==
  \/ doc.stes[j].start \in {"all-input", "start-of-data"}
  \/ \E i \in DOMAIN doc.stes : Precedes(doc, i, j)

(* Every part of the document has a meaning in the subset: nothing that    *)
(* changes the automaton is left unread.                                   *)
HasMeaning(doc) ==
  /\ doc.tags \cap {"counter", "and", "or", "nor", "inverter"} = {}
  /\ Cardinality(Ids(doc) \ {NoName}) = Len(doc.stes)
  /\ \A i \in DOMAIN doc.stes :
       /\ \A k \in DOMAIN doc.stes[i].activates :
            \E j \in DOMAIN doc.stes :
              Names(doc, doc.stes[i].activates[k], doc.stes[j].id)
       /\ Entered(doc, i) =>
            doc.stes[i].symbols.negate \/ \E byte \in Bytes : Denotes(doc.stes[i].symbols, byte)

(* A class that names the code point behind the last byte, which is the    *)
(* number of the wildcard.                                                 *)
NamesWildcard(doc) ==
  \E i \in DOMAIN doc.stes :
    ~doc.stes[i].symbols.negate /\ AnySymbol \in parse_symbol_set(doc.stes[i].symbols)
    /\ doc.stes[i].symbols # Star
=============================================================================
