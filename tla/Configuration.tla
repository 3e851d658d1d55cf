--------------------------- MODULE Configuration ----------------------------
(***************************************************************************)
(* The configuration file of a program (cfuconf.c): nested containers with *)
(* directives.  One line is one action.  A container is named by its path  *)
(* from the top level; two containers of one type and name are one.        *)
(***************************************************************************)
EXTENDS Integers, Sequences, SequencesExt

CONSTANTS
  Line,        (* lines: kind, type or name of what they open or say, and  *)
               (* of a directive its plain values and the text after an    *)
               (* opening quote at its end                                 *)
  Quote, Escape,               (* characters of such a text                *)
  Fold,        (* the spelling that names of a hash are compared in        *)
  MaxLines,    (* bound on the lines of a file                             *)
  Unnamed      (* the name of a tag or line that has none                   *)

ASSUME ConfigurationAssumption ==
  /\ Quote # Escape
  /\ \A l \in Line : Len(l.quoted) \in Nat /\ DOMAIN l.quoted = 1..Len(l.quoted)

VARIABLES
  stack, cur_conf,   (* the containers that are open                       *)
  containers, directives,      (* what has been read, directives in order  *)
  parse,       (* none, parsing, parsed, failed, crashed                   *)
  got,         (* a lookup: name, number of values asked for, its answer   *)
  read         (* history: the lines                                       *)

confVars == <<stack, cur_conf, containers, directives, parse, got, read>>

(* The numbers of a set, from the least on; what a sequence has there.     *)
Nth(K, n) == CHOOSE j \in {i \in K : Cardinality({k \in K : k <= i}) = n} : TRUE
InOrder(K) == [n \in 1..Cardinality(K) |-> Nth(K, n)]
Chosen(s, K) == [n \in 1..Cardinality(K) |-> s[Nth(K, n)]]

Top == << >>
NotFound(a, n) == [name |-> a, n |-> n, rv |-> -1, values |-> << >>]
Values(a, n, v) == [name |-> a, n |-> n, rv |-> 0, values |-> v]
Nothing == NotFound(Unnamed, 0)

ConfInit ==
  /\ stack = << >> /\ cur_conf = Top /\ containers = {Top} /\ directives = << >>
  /\ parse = "none" /\ got = Nothing /\ read = << >>

cfuconf_parse_file ==
  /\ parse = "none" /\ parse' \in {"parsing", "failed"}
  /\ UNCHANGED <<stack, cur_conf, containers, directives, got, read>>

Reads(l) == parse = "parsing" /\ Len(read) < MaxLines /\ read' = Append(read, l)
Stops(how) == parse' = how /\ UNCHANGED <<stack, cur_conf, containers, directives>>

(* Blank lines and comments.                                               *)
Blank(l) ==
  Reads(l) /\ l.kind = "blank"
  /\ UNCHANGED <<stack, cur_conf, containers, directives, parse, got>>

Child(l) == Append(cur_conf, <<Fold[l.type], Fold[l.name]>>)

OpeningTag(l) ==
  /\ Reads(l) /\ l.kind = "open"
  /\ IF l.type = Unnamed THEN Stops("failed")
     ELSE /\ containers' = containers \cup {Child(l)}
          /\ stack' = Append(stack, cur_conf) /\ cur_conf' = Child(l)
          /\ UNCHANGED <<directives, parse>>
  /\ UNCHANGED got

(* At the top level the name is compared with a null pointer.              *)
Popped_Top == Top
Popped == Last(stack)
ClosingTag(l) ==
  /\ Reads(l) /\ l.kind = "close"
  /\ IF l.type = Unnamed THEN Stops("failed")
     ELSE IF cur_conf = Top THEN Stops("crashed")
     ELSE IF Fold[l.type] # Last(cur_conf)[1] THEN Stops("failed")
     ELSE /\ cur_conf' = Popped /\ stack' = Front(stack)
          /\ UNCHANGED <<containers, directives, parse>>
  /\ UNCHANGED got

(* A quote ends the value if the last other character before it is no      *)
(* escape.  Without such a quote there is no value.                        *)
_get_quoted_value(s) ==
  {p \in DOMAIN s : /\ s[p] = Quote
                    /\ LET b == {j \in 1..(p - 1) : s[j] # Quote}
                       IN b = {} \/ s[Max(b)] # Escape}

(* An escape is dropped unless it follows another one, or begins a value   *)
(* that begins with two.                                                   *)
Kept(s, j) == s[j] # Escape \/ (IF j > 1 THEN s[j - 1] ELSE s[2]) = Escape
_dup_c_str_n_drop_escape(s) == Chosen(s, {j \in DOMAIN s : Kept(s, j)})

(* An empty value is none.                                                 *)
_get_next_value(l) ==
  LET q == _get_quoted_value(l.quoted)
  IN l.values \o
       IF q = {} \/ 1 \in q THEN << >>
       ELSE <<_dup_c_str_n_drop_escape(SubSeq(l.quoted, 1, Min(q) - 1))>>

Directive(l) ==
  /\ Reads(l) /\ l.kind = "directive"
  /\ directives' = Append(directives,
       [at |-> cur_conf, name |-> Fold[l.name], values |-> _get_next_value(l)])
  /\ UNCHANGED <<stack, cur_conf, containers, parse, got>>

(* Containers that are still open are not an error.                        *)
EndOfFile ==
  /\ parse = "parsing" /\ parse' = "parsed" /\ stack' = << >>
  /\ UNCHANGED <<cur_conf, containers, directives, got, read>>

-----------------------------------------------------------------------------
(* Lookups at the top level see the last directive of a name.              *)
Said(n) == {k \in DOMAIN directives : directives[k].at = Top /\ directives[k].name = Fold[n]}
_get_directive_last_val_list(n) ==
  IF Said(n) = {} THEN << >> ELSE directives[Max(Said(n))].values

cfuconf_get_directive_one_arg(a) ==
  LET v == _get_directive_last_val_list(a)
  IN IF Len(v) >= 1 THEN Values(a, 1, <<v[1]>>) ELSE NotFound(a, 1)

(* Every one of the n results is the second value of the directive.        *)
cfuconf_get_directive_n_args(a, n) ==
  LET v == _get_directive_last_val_list(a)
  IN IF Said(a) # {} /\ (n = 0 \/ Len(v) >= 2)
     THEN Values(a, n, [j \in 1..n |-> v[2]]) ELSE NotFound(a, n)

Lookup(a) ==
  /\ parse = "parsed"
  /\ got' \in {cfuconf_get_directive_one_arg(a), cfuconf_get_directive_n_args(a, 2)}
  /\ UNCHANGED <<stack, cur_conf, containers, directives, parse, read>>

cfuconf_destroy ==
  /\ parse = "parsed" /\ parse' = "none"
  /\ cur_conf' = Top /\ containers' = {Top} /\ directives' = << >>
  /\ got' = Nothing /\ read' = << >> /\ UNCHANGED stack

ConfNext ==
  \/ cfuconf_parse_file \/ EndOfFile \/ cfuconf_destroy
  \/ \E l \in Line : \/ Blank(l) \/ OpeningTag(l) \/ ClosingTag(l) \/ Directive(l)
                     \/ l.kind = "directive" /\ Lookup(l.name)

-----------------------------------------------------------------------------
(* The containers a line is in, found without a stack: the tags before it  *)
(* that are not balanced by closing tags in between.                       *)
Tags(kind, j, k) == {m \in j..k : read[m].kind = kind}
Balanced(j, k) == Cardinality(Tags("open", j, k)) = Cardinality(Tags("close", j, k))
Open(k) == {j \in 1..(k - 1) : read[j].kind = "open" /\ ~\E m \in j..(k - 1) : Balanced(j, m)}
Tag(j) == <<Fold[read[j].type], Fold[read[j].name]>>
Around(k) == LET o == InOrder(Open(k)) IN [n \in DOMAIN o |-> Tag(o[n])]
Lines(kind) == {j \in DOMAIN read : read[j].kind = kind}

(* The text after an opening quote ends with the closing quote and has its *)
(* escapes before the quotes inside it.  It means itself without them.     *)
WellQuoted(q) ==
  LET n == Len(q)
  IN /\ n > 0 => q[n] = Quote
     /\ n > 1 => q[1] # Quote
     /\ \A j \in 1..(n - 1) : q[j] = Escape <=> j + 1 < n /\ q[j + 1] = Quote
Meant(l) ==
  l.values \o
    LET n == Len(l.quoted)
    IN IF n = 0 THEN << >>
       ELSE <<Chosen(Front(l.quoted), {j \in 1..(n - 1) : l.quoted[j] # Escape})>>

(* Left out, for the parser does not find them: an empty text in quotes    *)
(* and one that ends in an escaped quote.                                  *)
Promised(q) == WellQuoted(q) /\ Len(q) # 1 /\ (Len(q) > 1 => q[Len(q) - 1] # Quote)
Understood(j, values) == Promised(read[j].quoted) => values = Meant(read[j])

(* What a lookup of one value returned is the first value that the last    *)
(* directive of the name outside all containers has in the file.           *)
Outside(a) ==
  {j \in Lines("directive") : Around(j) = Top /\ Fold[read[j].name] = Fold[a]}
Gives(v) ==
  IF Len(v) >= 1 THEN got.rv = 0 /\ got.values = <<v[1]>> ELSE got.rv = -1
FindsLast ==
  LET s == Outside(got.name)
  IN IF s = {} THEN Gives(<< >>)
     ELSE Promised(read[Max(s)].quoted) => Gives(Meant(read[Max(s)]))

(* A configuration that is accepted has every directive in the containers  *)
(* whose tags enclose it, in the order of the file, a container for every  *)
(* tag, and no closing tag that does not match the container it ends.  Its *)
(* values are what cfuconf.h says they mean, and a lookup of one value     *)
(* finds what the file says last.  An empty value, one that ends in an     *)
(* escaped quote and a lookup of two values are not part of this.          *)
NestedAsWritten ==
  parse \in {"parsing", "parsed"} =>
    LET said == InOrder(Lines("directive"))
    IN /\ DOMAIN directives = DOMAIN said
       /\ \A n \in DOMAIN said :
            /\ directives[n].at = Around(said[n])
            /\ directives[n].name = Fold[read[said[n]].name]
            /\ Understood(said[n], directives[n].values)
       /\ containers = {Top} \cup {Append(Around(j), Tag(j)) : j \in Lines("open")}
       /\ \A j \in Lines("close") : Around(j) # Top /\ Last(Around(j))[1] = Fold[read[j].type]
       /\ got.n = 1 => FindsLast

=============================================================================
