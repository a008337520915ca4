----------------------------- MODULE NfaBuilder -----------------------------
(***************************************************************************)
(* NFABuilder and the CSR arrays it finalizes to.                          *)
(*                                                                         *)
(* A builder is a record of the Python object's lists, one entry per state *)
(* added; raised says that some call has raised.  build flattens the lists *)
(* into arrays indexed from 0, and ReadBack is what a simulator sees of    *)
(* them: the edges of state s lie from row_ptr[s] up to row_ptr[s + 1].    *)
(***************************************************************************)
EXTENDS Automaton
LOCAL INSTANCE Integers

NewBuilder ==
  [accept |-> <<>>, sym |-> <<>>, eps |-> <<>>, start |-> 0, raised |-> FALSE]

(* _check *)
Known(bld, s) == s \in 0 .. Len(bld.accept) - 1

(* _coerce_symbol, for an int *)
IsSymbol(sym) == sym \in Bytes \cup {AnySymbol}

(* A call whose arguments are refused raises and changes nothing. *)
Unless(bld, legal, changed) == IF legal THEN changed ELSE [bld EXCEPT !.raised = TRUE]

add_state(bld) ==
  [bld EXCEPT !.accept = Append(@, FALSE), !.sym = Append(@, <<>>), !.eps = Append(@, <<>>)]

set_start(bld, s) == Unless(bld, Known(bld, s), [bld EXCEPT !.start = s])

set_accept(bld, s) == Unless(bld, Known(bld, s), [bld EXCEPT !.accept[s + 1] = TRUE])

add_transition(bld, src, sym, dst) ==
  Unless(bld, Known(bld, src) /\ Known(bld, dst) /\ IsSymbol(sym),
         [bld EXCEPT !.sym[src + 1] = Append(@, <<sym, dst>>)])

add_epsilon(bld, src, dst) ==
  Unless(bld, Known(bld, src) /\ Known(bld, dst),
         [bld EXCEPT !.eps[src + 1] = Append(@, dst)])

-----------------------------------------------------------------------------
(* row_ptr[s + 1] = row_ptr[s] + len(lists[s]) *)
RowPtr(lists) ==
  LET ptr[n \in 0 .. Len(lists)] ==
        IF n = 0 THEN 0 ELSE ptr[n - 1] + Len(lists[n])
  IN ptr

(* Entry k of state s is placed at row_ptr[s] + k. *)
PlaceShiftedMutant(lists) ==
  LET ptr   == RowPtr(lists)
      Owner(i) == CHOOSE s \in 1 .. Len(lists) : ptr[s - 1] <= i /\ i < ptr[s]
  IN [i \in 0 .. ptr[Len(lists)] - 1 |->
        lists[Owner(i)][IF i = ptr[Owner(i)] - 1 THEN 1 ELSE i - ptr[Owner(i) - 1] + 1]]

Place(lists) ==
  LET ptr   == RowPtr(lists)
      Owner(i) == CHOOSE s \in 1 .. Len(lists) : ptr[s - 1] <= i /\ i < ptr[s]
  IN [i \in 0 .. ptr[Len(lists)] - 1 |-> lists[Owner(i)][i - ptr[Owner(i) - 1] + 1]]

BuildRaises(bld) == bld.raised \/ bld.accept = <<>>

build(bld) ==
  LET edges == Place(bld.sym)
  IN [num_states  |-> Len(bld.accept),
      start_state |-> bld.start,
      accept      |-> bld.accept,
      sym_row_ptr |-> RowPtr(bld.sym),
      sym_symbols |-> [i \in DOMAIN edges |-> edges[i][1]],
      sym_targets |-> [i \in DOMAIN edges |-> edges[i][2]],
      eps_row_ptr |-> RowPtr(bld.eps),
      eps_targets |-> Place(bld.eps)]

(* for k in range(row_ptr[s], row_ptr[s + 1]) *)
Row(ptr, s) == ptr[s] .. ptr[s + 1] - 1

ReadBack(csr) ==
  LET states == 0 .. csr.num_states - 1
  IN [states |-> states,
      start  |-> csr.start_state,
      accept |-> {s \in states : csr.accept[s + 1]},
      sym    |-> UNION {{<<s, csr.sym_symbols[k], csr.sym_targets[k]>> :
                           k \in Row(csr.sym_row_ptr, s)} : s \in states},
      eps    |-> UNION {{<<s, csr.eps_targets[k]>> :
                           k \in Row(csr.eps_row_ptr, s)} : s \in states}]
=============================================================================
