------------------------------- MODULE Router -------------------------------
(***************************************************************************)
(* The radix tree of router.cpp.  A node is                                *)
(*   segment, type   "static", "param" or "wildcard",                      *)
(*   handlers        method |-> the number of a route,                     *)
(*   children        in the order they were added.                         *)
(***************************************************************************)
EXTENDS Values, FiniteSets, TLC

NodeOf(type, segment) ==
  [type |-> type, segment |-> segment, handlers |-> [m \in {} |-> 0], children |-> <<>>]
Root == NodeOf("static", "")

\* The place of the first `ends` from i on, or the end.
RECURSIVE Upto(_, _, _)
Upto(s, i, ends) == IF i > Len(s) \/ SubSeq(s, i, i) = ends THEN i ELSE Upto(s, i + 1, ends)

\* normalize_pattern(): {id} is written :id; every brace is closed.
RECURSIVE NormalizePattern(_)
NormalizePattern(s) ==
  LET open == Upto(s, 1, "{")  close == Upto(s, open, "}")
  IN IF open > Len(s) THEN s
     ELSE SubSeq(s, 1, open - 1) \o ":" \o SubSeq(s, open + 1, close - 1)
          \o NormalizePattern(SubSeq(s, close + 1, Len(s)))

\* split_path(): the segments, the empty ones left out.
RECURSIVE SplitPath(_)
SplitPath(s) ==
  LET n == Upto(s, 1, "/")
  IN IF s = "" THEN <<>>
     ELSE (IF n = 1 THEN <<>> ELSE <<SubSeq(s, 1, n - 1)>>) \o SplitPath(SubSeq(s, n + 1, Len(s)))

TypeOfSegment(seg) ==
  CASE seg = "*"               -> "wildcard"
    [] SubSeq(seg, 1, 1) = ":" -> "param"
    [] OTHER                   -> "static"
NameOf(seg) == IF TypeOfSegment(seg) = "param" THEN SubSeq(seg, 2, Len(seg)) ELSE seg

\* find_static_child(), find_param_child() and find_wildcard_child(): only
\* the first looks at the segment.  0 if there is none.
FindChild(node, type, seg) ==
  LET fit == {i \in DOMAIN node.children :
                node.children[i].type = type /\ (type = "static" => node.children[i].segment = seg)}
  IN IF fit = {} THEN 0 ELSE CHOOSE i \in fit : \A j \in fit : i <= j

\* add_internal(): the last route of a pattern and a method stays.
RECURSIVE Insert(_, _, _, _)
Insert(node, segs, method, route) ==
  LET type == TypeOfSegment(Head(segs))
      at   == FindChild(node, type, Head(segs))
      new  == NodeOf(type, NameOf(Head(segs)))
      kids == node.children
  IN CASE segs = <<>> -> [node EXCEPT !.handlers = (method :> route) @@ @]
       [] segs # <<>> /\ at = 0 ->
            [node EXCEPT !.children = Append(kids, Insert(new, Tail(segs), method, route))]
       [] OTHER -> [node EXCEPT !.children[at] = Insert(kids[at], Tail(segs), method, route)]
AddRoute(root, method, pattern, route) == Insert(root, SplitPath(NormalizePattern(pattern)), method, route)

\* A route of the method, or one of any method; the parameters as they are.
NoRoute(path) == [route |-> 0, path |-> path]
HandlerAt(node, method, path) ==
  LET keys == {method, "*"} \cap DOMAIN node.handlers
  IN IF keys = {} THEN NoRoute(path)
     ELSE [route |-> node.handlers[IF method \in keys THEN method ELSE "*"], path |-> path]
Erase(path, name) == SelectSeq(path, LAMBDA p : p[1] # name)

\* match_recursive(): the name first, then the parameter, then the rest of
\* the path; what leads nowhere is taken back, with the parameter of that
\* name, whoever had set it.
RECURSIVE MatchRecursive(_, _, _, _)
MatchRecursive(node, segs, method, path) ==
  LET child(type) == FindChild(node, type, Head(segs))
      kid(type) == node.children[child(type)]
      named  == IF child("static") = 0 THEN NoRoute(path)
                ELSE MatchRecursive(kid("static"), Tail(segs), method, path)
      valued == MatchRecursive(kid("param"), Tail(segs), method,
                               Put(named.path, kid("param").segment, Head(segs)))
      left   == IF child("param") = 0 THEN named.path ELSE Erase(valued.path, kid("param").segment)
  IN CASE segs = <<>> -> HandlerAt(node, method, path)
       [] segs # <<>> /\ named.route # 0 -> named
       [] segs # <<>> /\ named.route = 0 /\ child("param") # 0 /\ valued.route # 0 -> valued
       [] OTHER -> IF child("wildcard") = 0 THEN NoRoute(left) ELSE HandlerAt(kid("wildcard"), method, left)

Match(root, method, path) == MatchRecursive(root, SplitPath(path), method, <<>>)
=============================================================================
