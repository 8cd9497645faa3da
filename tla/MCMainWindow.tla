------------------------------ MODULE MCMainWindow ------------------------------
(* Two servers, both saved, and a table that is empty or has nine rows.         *)
EXTENDS MainWindow

SavedServers == <<[addr |-> "one", auth |-> "off"], [addr |-> "two", auth |-> "named"]>>
Nine == <<"a", "b", "c", "d", "e", "f", "g", "h", "i">>
NineRows == [i \in 1 .. 9 |-> [NewRow(Nine[i]) EXCEPT !.custom = (i = 9)]]

Store(s, h, r, n, a) == [server |-> s, history |-> h, rows |-> r, names |-> n, auto |-> a]

Stores ==
  {Store([addr |-> "one", auth |-> "off"], <<>>, <<>>, <<>>, TRUE),
   Store([addr |-> "two", auth |-> "unnamed"], SavedServers, NineRows, Nine, FALSE)}
===============================================================================
