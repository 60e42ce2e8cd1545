----------------------------- MODULE MCTerminal -----------------------------
(* Model checking Terminal: windows of one and two columns and rows.         *)
EXTENDS Terminal

MCSizes == {<<2, 1>>, <<1, 2>>}

MCDrawings ==
    {[fg |-> "red", bg |-> Null, ta_flags |-> {}, symbol |-> "a"],
     [fg |-> Null, bg |-> Null, ta_flags |-> Attributes, symbol |-> "a"]}

=============================================================================
