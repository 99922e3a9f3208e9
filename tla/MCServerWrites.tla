--------------------------- MODULE MCServerWrites ---------------------------
(* Small instances of ServerWrites for TLC. *)
EXTENDS ServerWrites, TLC

CONSTANTS i, j, c, d, s, f, tag, r1, r2, r3, nobody, none, token

Shape(op, keys) ==
  [op |-> op, keys |-> keys, conditional |-> FALSE, token |-> none,
   invalid |-> {}, related |-> <<>>, under |-> {}]
Conditional(op, keys) == [Shape(op, keys) EXCEPT !.conditional = TRUE]

ItemShapes ==
  {Conditional("post items", <<i, j>>),
   [Conditional("post items", <<i>>) EXCEPT !.token = token],
   [Conditional("post items", <<i>>) EXCEPT !.related = <<j>>],
   Conditional("put item", <<i>>), Shape("move items", <<i, j>>),
   Conditional("delete tag", <<i, j>>), Conditional("delete items", <<i>>),
   Shape("list items", <<i, j>>), Shape("list deleted", <<>>)}
OtherShapes ==
  {[Conditional("post collections", <<c, d>>) EXCEPT !.under = {<<d, c>>}],
   [Conditional("put collection", <<c>>) EXCEPT !.under = {<<c, d>>}],
   Conditional("delete collections", <<c>>), Shape("list objects", <<c, d>>),
   Conditional("post settings", <<s>>), Conditional("put setting", <<s>>),
   Conditional("delete settings", <<s>>),
   Conditional("post searches", <<f>>),
   [Conditional("post searches", <<f>>) EXCEPT !.invalid = {f}],
   Conditional("put search", <<f>>), Conditional("delete searches", <<f>>)}
(* Two requests of any kind, and one that would notice what they did. *)
Noticing ==
  {Conditional("post items", <<i>>), Shape("list items", <<i, j>>),
   Shape("list deleted", <<>>)}
TwoAndOne == [r \in Requests |-> IF r = r3 THEN Noticing ELSE ItemShapes \cup OtherShapes]
Symmetry == Permutations({r1, r2})
=============================================================================
