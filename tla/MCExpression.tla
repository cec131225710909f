---------------------------- MODULE MCExpression ----------------------------
EXTENDS ExpressionMeaning

Part(names, functions, literals, ops, MaxTokens, MaxArgs) ==
  [names |-> names, functions |-> functions, literals |-> literals, ops |-> ops,
   MaxTokens |-> MaxTokens, MaxArgs |-> MaxArgs]

f == LibFunc(1)
a == String(1)

Booleans == Part({"x", "y"}, {}, {Number(1)}, {"not", "and", "or", "<", "==", "="}, 5, 0)

CallsAndFunctions == Part({"x"}, {f}, {Boolean(0)},
  {"(", ",", "not", "or", "==", "function"}, 6, 2)

Arithmetics == Part({"x"}, {}, {Number(0), Number(1)},
  {"+", "-", "*", "/", "%", "<", "<=", ">", ">=", "!=", "uminus", "="}, 5, 0)

Members == Part({"x"}, {f}, {Number(1)},
  {".", "index", "=", "++", "--", "uminus", "not", "("}, 6, 1)

Objects == Part({"x"}, {f}, {Number(1)}, {"[", "{", ",", "index", "not", ".."}, 6, 2)

MCFragments == {Booleans, CallsAndFunctions, Arithmetics, Members, Objects}

(* Long enough for f(not x, not x).                                        *)
MCArgumentFragments == {[CallsAndFunctions EXCEPT !.ops = {"(", ",", "not"}, !.MaxTokens = 7]}

MCMemberNames == {a}
MCFunctions == {f}
MCInitialValues == {Undef, Nil, Number(0), Number(1), Boolean(1), TableRef(1), TableRef(2)}
MCInitialTables == <<a :> Number(1), (a :> f) @@ (Functor :> f)>>
=============================================================================
