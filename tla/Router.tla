------------------------------- MODULE Router -------------------------------
(***************************************************************************)
(* crow::Router and its trie.  A rule's path is a sequence of characters   *)
(* and parameters; a node of the trie has the rule that ends there, or 0,  *)
(* a child for every kind of parameter, or 0, and children by fragments of *)
(* text.  Rule 1 stands for the redirection to a directory; the rules that *)
(* were added count from 2.                                                *)
(***************************************************************************)
EXTENDS Integers, Sequences, FiniteSets

Params   == {"INT", "UINT", "STRING", "PATH"}
Redirect == 1
NumberCh == {"1", "2"}

Node     == [rule |-> 0, params |-> [t \in Params |-> 0], children |-> {}]
IsSimpleNode(n) == n.rule = 0 /\ \A t \in Params : n.params[t] = 0

(***************************************************************************)
(* Adding a rule: the nodes it is found by, one for each of its tokens.    *)
(***************************************************************************)
RECURSIVE AddFrom(_, _, _, _)
AddFrom(nodes, idx, path, rule) ==
  IF path = <<>>
  THEN IF nodes[idx].rule # 0 THEN <<>>   \* throws
       ELSE [nodes EXCEPT ![idx].rule = rule]
  ELSE LET t == Head(path)
           new == Len(nodes) + 1
           child == IF t \in Params THEN nodes[idx].params[t]
                    ELSE IF \E c \in nodes[idx].children : c[1] = <<t>>
                    THEN (CHOOSE c \in nodes[idx].children : c[1] = <<t>>)[2] ELSE 0
           grown == IF t \in Params THEN [nodes EXCEPT ![idx].params[t] = new]
                    ELSE [nodes EXCEPT ![idx].children = @ \union {<<<<t>>, new>>}]
       IN IF child # 0 THEN AddFrom(nodes, child, Tail(path), rule)
          ELSE AddFrom(Append(grown, Node), new, Tail(path), rule)

\* internal_add_rule_object: a path that ends in "/" is redirected to from the one without.
AddRule(nodes, path, rule) ==
  LET added == AddFrom(nodes, 1, path, rule)
  IN IF added # <<>> /\ Len(path) > 1 /\ path[Len(path)] = "/"
     THEN AddFrom(added, 1, SubSeq(path, 1, Len(path) - 1), Redirect) ELSE added

RECURSIVE AddAll(_, _, _)
AddAll(nodes, paths, rule) ==
  IF paths = <<>> \/ nodes = <<>> THEN nodes
  ELSE AddAll(AddRule(nodes, Head(paths), rule), Tail(paths), rule + 1)

(***************************************************************************)
(* validate(): children that only lead on are merged with their own.       *)
(***************************************************************************)
RECURSIVE Optimize(_, _), OptimizeEach(_, _)

OptimizeEach(nodes, todo) ==
  IF todo = {} THEN nodes
  ELSE LET n == CHOOSE n \in todo : TRUE
       IN OptimizeEach(Optimize(nodes, n), todo \ {n})

\* Fault: a child that ends a rule is merged as well.
OptimizeAll(nodes, idx) ==
  LET done == OptimizeEach(nodes, {nodes[idx].params[t] : t \in Params} \ {0})
      kids == done[idx].children
      merged == UNION {{<<c[1] \o d[1], d[2]>> : d \in done[c[2]].children} : c \in kids}
  IN IF kids = {} THEN done
     ELSE IF \A c \in kids : \A t \in Params : done[c[2]].params[t] = 0
     THEN Optimize([done EXCEPT ![idx].children = merged], idx)
     ELSE OptimizeEach(done, {c[2] : c \in kids})

Optimize(nodes, idx) ==
  LET done == OptimizeEach(nodes, {nodes[idx].params[t] : t \in Params} \ {0})
      kids == done[idx].children
      merged == UNION {{<<c[1] \o d[1], d[2]>> : d \in done[c[2]].children} : c \in kids}
  IN IF kids = {} THEN done
     ELSE IF \A c \in kids : IsSimpleNode(done[c[2]])
     THEN Optimize([done EXCEPT ![idx].children = merged], idx)
     ELSE OptimizeEach(done, {c[2] : c \in kids})

Trie(paths) == Optimize(AddAll(<<Node>>, paths, 2), 1)

(***************************************************************************)
(* find(): the smallest rule that some way through the trie leads to.      *)
(***************************************************************************)
\* How many characters a parameter takes from a position, 0 if none.
LongestRun(url, p, chars) ==
  CHOOSE n \in 0..(Len(url) - p + 1) :
    /\ \A i \in p..(p + n - 1) : url[i] \in chars
    /\ p + n <= Len(url) => url[p + n] \notin chars

Numeral(url, p, signs) ==
  LET sign == IF url[p] \in signs THEN 1 ELSE 0
      n == LongestRun(url, p + sign, NumberCh)
  IN IF n = 0 THEN 0 ELSE sign + n

Taken(t, url, p) ==
  CASE t = "INT"    -> Numeral(url, p, {"+", "-"})
    [] t = "UINT"   -> Numeral(url, p, {"+"})
    [] t = "STRING" -> LongestRun(url, p, {url[i] : i \in DOMAIN url} \ {"/"})
    [] t = "PATH"   -> Len(url) - p + 1

Least(found) == IF found \ {0} = {} THEN 0 ELSE CHOOSE r \in found \ {0} : \A q \in found \ {0} : r <= q

RECURSIVE Find(_, _, _, _)
Find(nodes, url, idx, p) ==
  LET n == nodes[idx]
  IN IF p = Len(url) + 1 THEN n.rule
     ELSE Least({Find(nodes, url, n.params[t], p + Taken(t, url, p)) :
                   t \in {t \in Params : n.params[t] # 0 /\ Taken(t, url, p) # 0}}
                \union {Find(nodes, url, c[2], p + Len(c[1])) :
                          c \in {c \in n.children : /\ p + Len(c[1]) - 1 <= Len(url)
                                                    /\ SubSeq(url, p, p + Len(c[1]) - 1) = c[1]}})

(***************************************************************************)
(* What the router answers: a rule of one of the two kinds, "page" or      *)
(* "socket", allows GET only.                                              *)
(***************************************************************************)
\* Fault: the method is not looked at.
AnswerAnyMethod(nodes, kinds, url, method, upgrade) ==
  LET rule == Find(nodes, url, 1, 1)
  IN CASE rule = 0 -> 404
       [] rule = Redirect -> 301
       [] OTHER -> IF (kinds[rule - 1] = "socket") # upgrade THEN 404
                   ELSE IF upgrade THEN 101 ELSE 200

Answer(nodes, kinds, url, method, upgrade) ==
  LET rule == Find(nodes, url, 1, 1)
  IN CASE rule = 0 -> 404
       [] rule = Redirect -> 301
       [] rule > Redirect /\ method # "GET" -> 404
       [] OTHER -> IF (kinds[rule - 1] = "socket") # upgrade THEN 404
                   ELSE IF upgrade THEN 101 ELSE 200
=============================================================================
