------------------------------ MODULE Conditions ------------------------------
(***************************************************************************)
(* Conditions composed of expressions (utils/expr.ts): what and(), or(),   *)
(* not() and between() write, and what SurrealQL reads in it.  The text of *)
(* a condition is a sequence of tokens; a comparison is one token, whatever *)
(* its operator.  raw() is left out: its text is not parenthesised, and    *)
(* the application answers for it.                                         *)
(***************************************************************************)
EXTENDS Integers, Sequences, FiniteSets, SequencesExt

CONSTANTS
  Comparisons,    \* comparisons: eq(), gt(), contains(), ...
  MaxTerms,       \* bound: expressions at hand
  MaxSize         \* bound: expressions and their parts

VARIABLE terms    \* the expressions the application has at hand

Comparison(c) == [is |-> c, of |-> << >>]
Absent        == [is |-> "absent", of |-> << >>]      \* false, null, undefined
Join(op, xs)  == [is |-> op, of |-> xs]
Not(x)        == [is |-> "NOT", of |-> <<x>>]

-----------------------------------------------------------------------------
(* toSQL().                                                                *)

Written(s) == s # << >>

RECURSIVE Joined(_, _)
Joined(op, parts) ==
  IF Len(parts) = 1 THEN parts[1] ELSE parts[1] \o <<op>> \o Joined(op, Tail(parts))

\* Faulty variant: no parentheses.
EnclosedNever(op, parts) == Joined(op, parts)

Enclosed(op, parts) ==
  IF Len(parts) = 1 THEN parts[1] ELSE <<"(">> \o Joined(op, parts) \o <<")">>

RECURSIVE ToSQL(_)
ToSQL(x) ==
  LET parts == SelectSeq([i \in DOMAIN x.of |-> ToSQL(x.of[i])], Written)
  IN CASE x.is = "absent"        -> << >>
       [] x.is \in Comparisons   -> <<x.is>>
       [] parts = << >>          -> << >>
       [] x.is = "NOT"           -> <<"NOT", "(">> \o parts[1] \o <<")">>
       [] OTHER                  -> Enclosed(x.is, parts)

-----------------------------------------------------------------------------
(* The application composes conditions.                                    *)

Init == terms = << >>

Push ==
  /\ Len(terms) < MaxTerms
  /\ \E x \in {Comparison(c) : c \in Comparisons} \cup {Absent} : terms' = Append(terms, x)

Compose(x, n) == terms' = Append(SubSeq(terms, 1, Len(terms) - n), x)

\* and() and or() of any number of expressions, none included.
Combine ==
  \E op \in {"AND", "OR"}, n \in 0..Len(terms) :
    /\ n = 0 => Len(terms) < MaxTerms
    /\ Compose(Join(op, SubSeq(terms, Len(terms) - n + 1, Len(terms))), n)

Negate == terms # << >> /\ Compose(Not(Last(terms)), 1)

\* between() is and() of two comparisons.
Between ==
  /\ Len(terms) < MaxTerms
  /\ \E a, b \in Comparisons : Compose(Join("AND", <<Comparison(a), Comparison(b)>>), 0)

Next == Push \/ Combine \/ Negate \/ Between

Spec == Init /\ [][Next]_terms

\* Bound: the expressions at hand, parts included.
RECURSIVE Size(_)
Size(x) == FoldSeq(LAMBDA y, n : n + Size(y), 1, x.of)
Bounds == FoldSeq(LAMBDA x, n : n + Size(x), 0, terms) <= MaxSize

-----------------------------------------------------------------------------
(* What a text says, and what an expression means.                         *)

RECURSIVE Meaning(_, _)
Meaning(x, true) ==
  LET of == {Meaning(x.of[i], true) : i \in DOMAIN x.of} \ {"nothing"}
  IN CASE x.is \in Comparisons  -> IF x.is \in true THEN "yes" ELSE "no"
       [] of = {}               -> "nothing"
       [] x.is = "AND"          -> IF "no" \in of THEN "no" ELSE "yes"
       [] x.is = "OR"           -> IF "yes" \in of THEN "yes" ELSE "no"
       [] x.is = "NOT"          -> IF "yes" \in of THEN "no" ELSE "yes"

\* Where a token stands outside all parentheses.
Outside(text, token) ==
  LET count(i, t) == Cardinality({k \in 1..i : text[k] = t})
  IN {i \in DOMAIN text : text[i] = token /\ count(i, "(") = count(i, ")")}

\* SurrealQL: OR binds less than AND, and AND less than NOT.
RECURSIVE Holds(_, _)
Holds(text, true) ==
  LET split(token) == CHOOSE i \in Outside(text, token) : TRUE
      left(token)  == Holds(SubSeq(text, 1, split(token) - 1), true)
      right(token) == Holds(SubSeq(text, split(token) + 1, Len(text)), true)
  IN IF Outside(text, "OR") # {}       THEN left("OR") \/ right("OR")
     ELSE IF Outside(text, "AND") # {} THEN left("AND") /\ right("AND")
     ELSE IF text[1] = "NOT"           THEN ~Holds(Tail(text), true)
     ELSE IF text[1] = "("             THEN Holds(SubSeq(text, 2, Len(text) - 1), true)
     ELSE text[1] \in true

(* The text of a condition is read as it was composed: parentheses keep    *)
(* each part together, and a part that says nothing is as if it were not   *)
(* there, so that it neither leaves an operator behind nor decides.        *)
ReadAsComposed ==
  \A i \in DOMAIN terms : \A true \in SUBSET Comparisons :
    LET text == ToSQL(terms[i])
    IN IF text = << >> THEN Meaning(terms[i], true) = "nothing"
       ELSE Meaning(terms[i], true) = (IF Holds(text, true) THEN "yes" ELSE "no")
=============================================================================
