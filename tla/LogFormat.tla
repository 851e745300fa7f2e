----------------------------- MODULE LogFormat -----------------------------
(***************************************************************************)
(* log_formatter (log/log_formatter.cpp): the pattern of the configuration    *)
(* becomes a list of items when an appender is made, and every record is      *)
(* formatted by them.  A pattern is a sequence of the characters the parser   *)
(* tells apart: "%", the two braces, letters, and a character that is none.   *)
(***************************************************************************)
EXTENDS Naturals, Sequences, SequencesExt

CONSTANTS Letters,   \* letters that occur in patterns
          Creators,  \* conversions of format_items_creators, as sequences of letters
          MaxLength  \* bound on the length of a pattern

Chars == Letters \cup {"%", "lbrace", "rbrace", "."}

VARIABLES pattern, \* _pattern
          items,   \* _items: <<"text", s>>, <<"conv", s, fmt>>, <<"error", s>>
          error,   \* _error
          out      \* the last record formatted

vars == <<pattern, items, error, out>>

-----------------------------------------------------------------------------
AddChar(st, c) == [st EXCEPT !.nstr = Append(@, c)]

(* The text read so far becomes an item. *)
Flush(st) ==
  IF st.nstr = <<>> THEN st
  ELSE [st EXCEPT !.vec = Append(@, <<"text", st.nstr>>), !.nstr = <<>>]

First(p, from, S) == Min({k \in from .. Len(p) : p[k] \in S} \cup {Len(p) + 1})

(* A conversion that starts with the "%" at i: letters and closing braces up to the  *)
(* first other character, or to an opening brace and what it encloses.               *)
Conversion(p, st, i) ==
  LET open == First(p, i + 1, {"lbrace"})
      stop == First(p, i + 1, {"%", "."})
      close == First(p, open + 1, {"rbrace"})
  IN IF open < stop
     THEN IF close > Len(p)
          THEN [st EXCEPT !.vec = Append(@, <<"error", <<>>>>), !.error = TRUE]
          ELSE [Flush(st) EXCEPT !.next = close + 1,
                  !.vec = Append(@, <<"conv", SubSeq(p, i + 1, open - 1),
                                              SubSeq(p, open + 1, close - 1)>>)]
     ELSE [Flush(st) EXCEPT !.next = stop,
             !.vec = Append(@, <<"conv", SubSeq(p, i + 1, stop - 1), <<>>>>)]

(* The loop at index i; "%%" gives a "%" and does not skip the second one. *)
Step(p, st, i) ==
  IF i < st.next THEN st
  ELSE IF p[i] # "%" THEN AddChar(st, p[i])
  ELSE IF i < Len(p) /\ p[i + 1] = "%" THEN AddChar(st, "%")
  ELSE Conversion(p, st, i)

Loop(p) ==
  LET after[i \in 0 .. Len(p)] ==
        IF i = 0 THEN [next |-> 1, nstr |-> <<>>, vec |-> <<>>, error |-> FALSE]
        ELSE Step(p, after[i - 1], i)
  IN after[Len(p)]

(* Mutant: the text after the last conversion is forgotten. *)
ParseDropsTail(p) == Loop(p)

Parse(p) == Flush(Loop(p))

(* The second loop: a conversion nobody knows is an error text. *)
Create(item) == IF item[1] = "conv" /\ item[2] \notin Creators THEN <<"error", item[2]>> ELSE item

-----------------------------------------------------------------------------
Init ==
  /\ pattern \in UNION {[1 .. n -> Chars] : n \in 0 .. MaxLength}
  /\ items = <<>> /\ error = FALSE /\ out = <<>>

(* The constructor. *)
Construct ==
  LET st == Parse(pattern) IN
  /\ items = <<>> /\ pattern # <<>>
  /\ items' = [n \in DOMAIN st.vec |-> Create(st.vec[n])]
  /\ error' = (st.error \/ \E n \in DOMAIN items' : items'[n][1] = "error")
  /\ UNCHANGED <<pattern, out>>

(* The items' format(), as a sequence of characters and fields.  A conversion without  *)
(* braces is given the empty format, and the time formatted by that is nothing; the    *)
(* other conversions ignore theirs.                                                    *)
Field(item) ==
  CASE item[1] = "text" -> [n \in DOMAIN item[2] |-> <<"char", item[2][n]>>]
    [] item[1] = "error" -> << <<"error", item[2]>> >>
    [] item[1] = "conv" -> IF item[2] # <<"d">> THEN << <<"field", item[2]>> >>
                           ELSE IF item[3] = <<>> THEN <<>> ELSE << <<"time", item[3]>> >>

Text(its) == FlattenSeq([n \in DOMAIN its |-> Field(its[n])])

Format ==
  /\ items # <<>>
  /\ out' = Text(items)
  /\ UNCHANGED <<pattern, items, error>>

Next == Construct \/ Format

Spec == Init /\ [][Next]_vars

-----------------------------------------------------------------------------
(* Empty braces, which are the same as none, and two percent signs in a row. *)
Empty == \E i \in 1 .. Len(pattern) - 1 : pattern[i] = "lbrace" /\ pattern[i + 1] = "rbrace"
Doubled == \E i \in 1 .. Len(pattern) - 1 : pattern[i] = "%" /\ pattern[i + 1] = "%"

(* How the items are spelled in a pattern. *)
Spell(item) ==
  CASE item[1] = "text" -> item[2]
    [] item[1] = "conv" -> <<"%">> \o item[2] \o (IF item[3] = <<>> THEN <<>>
                                                  ELSE <<"lbrace">> \o item[3] \o <<"rbrace">>)
    [] item[1] = "error" -> <<"error">>

Spelled(its) == FlattenSeq([n \in DOMAIN its |-> Spell(its[n])])

(* No conversion has been taken for text. *)
Pure(its) == \A n \in DOMAIN its : its[n][1] = "text" => "%" \notin ToSet(its[n][2])

(* A pattern that the parser accepts is formatted as it stands: its items are the     *)
(* pattern cut into texts and conversions, nothing lost, doubled, moved or taken for   *)
(* the other, whatever braces, percent signs and ends of the pattern meet, and the     *)
(* record is their text and fields in that order.  Empty braces, which are the same as *)
(* none, and doubled percent signs, of which the parser reads the second one again,    *)
(* are set apart.                                                                      *)
PatternKept ==
  out # <<>> /\ ~error /\ ~Empty /\ ~Doubled =>
    Spelled(items) = pattern /\ Pure(items) /\ out = Text(items)

(* The inductive invariant: the items spell the pattern, a record is what they format. *)
IndInv ==
  /\ pattern \in Seq(Chars)
  /\ items # <<>> /\ ~error /\ ~Empty /\ ~Doubled => Spelled(items) = pattern /\ Pure(items)
  /\ out # <<>> => items # <<>> /\ out = Text(items)
=============================================================================
