----------------------------- MODULE MCSettings -----------------------------
(* Instances of Settings for TLC.                                          *)
EXTENDS Settings, TLC

CONSTANTS file, verbose, f, vb, other, x, y, web, Web, db, host, d

Opt(names, sep, conv, var) == [names |-> names, sep |-> sep, conv |-> conv, var |-> var]
OptStrs == {Opt(<<file, f>>, ":", "s", file), Opt(<<verbose, vb>>, "!", NONE, verbose),
            Opt(<<vb, other>>, ":", NONE, NONE)}

A(kind, name, val) == [kind |-> kind, name |-> name, value |-> val]
Args == {A("data", NONE, x), A("data", NONE, y), A("end", NONE, NONE), A("empty", NONE, NONE),
         A("long", file, x), A("short", f, NONE), A("short", vb, NONE), A("long", other, NONE)}

Q == "quote"
B == "escape"
L(kind, type, name, values) ==
  [kind |-> kind, type |-> type, name |-> name, values |-> values, quoted |-> << >>]
Quoted(text) == [L("directive", NONE, d, <<x>>) EXCEPT !.quoted = text]
FileLines == {L("blank", NONE, NONE, << >>), L("open", NONE, NONE, << >>),
              L("open", web, host, << >>), L("open", Web, host, << >>),
              L("open", db, NONE, << >>), L("close", web, NONE, << >>),
              L("close", db, NONE, << >>), L("close", NONE, NONE, << >>),
              L("directive", NONE, d, << >>), L("directive", NONE, d, <<x>>),
              L("directive", NONE, d, <<x, y>>),
              Quoted(<<Q>>), Quoted(<<"a", Q>>), Quoted(<<"a", B, Q, Q>>),
              Quoted(<<B, Q, "a", Q>>), Quoted(<<"a", B, Q, "a", Q>>)}
FoldCase == [n \in {web, Web, db, host, d, NONE} |-> IF n = Web THEN web ELSE n]

=============================================================================
