-------------------------------- MODULE Ast ---------------------------------
(***************************************************************************)
(* The trees of ast.hpp.  A node has a kind, a text (a name, an operator), *)
(* the value of a literal, and its children in the order of the fields:    *)
(* receiver, left, right, arguments; a Block is the sequence of its        *)
(* statements.  Missing stands for a pointer that is null.                 *)
(***************************************************************************)
EXTENDS Values

Node(kind, text, kids) == [kind |-> kind, text |-> text, val |-> Null, kids |-> kids]
Missing       == Node("Missing", "", <<>>)
Block(stmts)  == Node("Block", "", stmts)
Lit(v)        == [Node("Lit", "", <<>>) EXCEPT !.val = v]
Ident(name)   == Node("Ident", name, <<>>)
Unary(op, e)  == Node("Unary", op, <<e>>)
Binary(op, l, r) == Node("Binary", op, <<l, r>>)
Type(name, args) == Node("Type", name, args)
NoType        == Type("", <<>>)
Optional(t)   == [t EXCEPT !.val = Boolean(TRUE)]      \* T?

\* Parser::assignable
Assignable(e) == e.kind \in {"Ident", "Member", "Index"}
=============================================================================
