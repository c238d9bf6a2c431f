---------------------------- MODULE MCCompanyRun ----------------------------
(* Instances of CompanyRun for TLC. *)
EXTENDS CompanyRun

CONSTANTS a, b, c

Three == {a, b, c}
Seated(i, s) == [j \in Three |-> IF j = i THEN s ELSE 0]

\* Independent items, one of whose seats has a superior; a fork that waits for
\* two items; a chain; a catalogue seat beside a chain; and a cycle behind a
\* free item.
Answers ==
  {[deps |-> [i \in Three |-> {}], seats |-> Seated(a, 1)],
   [deps |-> [i \in Three |-> IF i = c THEN {a, b} ELSE {}], seats |-> Seated(c, 0)],
   [deps |-> [i \in Three |-> IF i = a THEN {} ELSE IF i = b THEN {a} ELSE {b}],
    seats |-> Seated(b, 1)],
   [deps |-> [i \in Three |-> IF i = c THEN {b} ELSE {}], seats |-> Seated(a, Custom)],
   [deps |-> [i \in Three |-> IF i = a THEN {} ELSE {b, c} \ {i}],
    seats |-> Seated(c, 0)]}
=============================================================================
