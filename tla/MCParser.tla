------------------------------ MODULE MCParser ------------------------------
(* Model checking Parser: a name that fits and one that is cut, formats of   *)
(* one and two values, one of them of no known type, and malformed ones.     *)
EXTENDS Parser

MCTruncated(name) == IF name = "longer" THEN "long" ELSE name

MCFormatStrings ==
    {[types |-> <<"int">>, odd |-> FALSE], [types |-> <<"string", "bool">>, odd |-> FALSE],
     [types |-> <<"char", "error">>, odd |-> FALSE], [types |-> <<"int">>, odd |-> TRUE],
     [types |-> <<>>, odd |-> FALSE]}

Data(key, values) == [key |-> key, values |-> values]

MCLines ==
    {Comment, NewLine, NoPair, Data("id", <<"u">>), Data("id", <<"v", "u">>),
     Data("longer", <<"u", "v">>)}

=============================================================================
