----------------------------- MODULE MC_Machine -----------------------------
(* Programs of a few constants about numbers, tests, lists and cells, on   *)
(* command lines with their library and with others before or behind it,   *)
(* one of them missing, one without a name.                                *)
EXTENDS Machine

Compiled(literals, names, fs) ==
  [constants |-> literals \o [i \in 1 .. Len(names) |-> [kind |-> "native", value |-> <<names[i]>>]],
   code |-> <<<<2, 0>>, <<4, 1>>, <<7>>, <<21, 0, 3, 1>>, <<17>>>>,
   functions |-> fs]

Integer(n)   == [kind |-> "int", value |-> n]
Text(s)    == [kind |-> "string", value |-> s]
Float(x) == [kind |-> "float", value |-> x]

MCFiles ==
  "numbers" :> Compiled(<<Integer(-3), Float(1)>>,
                        <<"add_value", "sub_value", "mul_value", "div_value", "gte_value">>, {})
  @@ "tests" :> Compiled(<<Integer(1)>>,
                         <<"lt_value", "gt_value", "lte_value", "and_value", "or_value", "not_value">>, {})
  @@ "lists" :> Compiled(<<Integer(0), Integer(65)>>,
                         <<"slice", "length", "add_value", "eq_value">>, {})
  @@ "cells" :> Compiled(<<Integer(1), Text(<<"a">>)>>, <<"mutable_value", "eq_value", "get_args">>, {<<3, 1>>, <<1, 3>>, <<HALF, 1>>})

MCCommandLines ==
  {<<"runtime">>, <<"runtime", "missing">>,
   <<"runtime", "numbers", "-l", "libmaths", "-l", "libother">>,
   <<"runtime", "tests", "-l", "libmaths">>,
   <<"runtime", "lists", "-l", "libother", "-l", "libbonzai">>,
   <<"runtime", "cells", "-l", "nowhere", "-l", "libbonzai", "-l">>}
MCLibraries == "libbonzai" :> Natives
               @@ "libmaths" :> Arithmetic \cup Order \cup Logic \cup {"not_value"}
               @@ "libother" :> {"add_value"}
MCSymbols == {"length"}
=============================================================================
