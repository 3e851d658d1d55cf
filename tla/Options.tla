------------------------------ MODULE Options -------------------------------
(***************************************************************************)
(* The command line of a program (cfuopt.c): options are registered, then  *)
(* cfuopt_parse() takes them out of argv.  One iteration of its loop is    *)
(* one action.  argv is modelled without the name of the program.          *)
(***************************************************************************)
EXTENDS Integers, Sequences, SequencesExt

CONSTANTS
  Name,        (* names of options, without their dashes                   *)
  OptStr,      (* what cfuopt_add_entry() gets: names, separator,          *)
               (* conversion, and the variable to set                      *)
  Arg,         (* arguments: kind, name and value                          *)
  Var, MaxArgs, MaxCalls,      (* variables; bounds on argv and the calls  *)
  NONE

ASSUME OptionsAssumption == MaxArgs \in Nat /\ NONE \notin Var

VARIABLES
  option_list, option_map,     (* entries in order, and by name            *)
  extra,       (* what was left over, over all calls                       *)
  value,       (* of each variable                                         *)
  argv, i,     (* the arguments, the one looked at                         *)
  phase,       (* setup, parse, parsed, overrun, gone                      *)
  calls, given, (* history: calls of cfuopt_parse, argv at the present one *)
  room         (* history: the length of argv at the first call            *)

optVars == <<option_list, option_map, extra, value, argv, i, phase, calls, given, room>>

OptInit ==
  /\ option_list = << >> /\ option_map = [n \in Name |-> NONE] /\ extra = << >>
  /\ value = [v \in Var |-> NONE] /\ argv = << >> /\ i = 1
  /\ phase = "setup" /\ calls = 0 /\ given = << >> /\ room = 0

(* "name|n=s", "name:i", "name!".  A conversion it does not know makes an  *)
(* option that is recognised and ignored; if there is none at all, the     *)
(* last name keeps the separator, and nobody will find it.                 *)
parse_opt_str(o) ==
  [names |-> IF o.sep \in {"=", ":"} /\ o.conv = NONE THEN Front(o.names) ELSE o.names,
   var |-> o.var, required |-> o.sep = "=",
   type |-> IF o.sep = "!" \/ (o.sep \in {"=", ":"} /\ o.conv = "!") THEN "bool"
            ELSE IF o.sep \in {"=", ":"} /\ o.conv \in {"s", "i", "f"} THEN "value"
            ELSE "invalid"]

(* A name that was taken goes to the new entry.                            *)
_add_to_option_map(e) ==
  option_map' = [n \in Name |-> IF Contains(e.names, n) THEN e ELSE option_map[n]]

cfuopt_add_entry(o) ==
  /\ phase = "setup"
  /\ option_list' = Append(option_list, parse_opt_str(o))
  /\ _add_to_option_map(parse_opt_str(o))
  /\ UNCHANGED <<extra, value, argv, i, phase, calls, given, room>>

-----------------------------------------------------------------------------
Start(args) ==
  /\ calls < MaxCalls /\ calls' = calls + 1
  /\ argv' = args /\ given' = args /\ i' = 1
  /\ room' = IF calls = 0 THEN Len(args) ELSE room
  /\ phase' = IF args = << >> THEN "parsed" ELSE "parse"
  /\ UNCHANGED <<option_list, option_map, extra, value>>

(* The first call gets the command line, a later one what was left of it.  *)
cfuopt_parse ==
  \/ phase = "setup" /\ \E args \in SeqOf(Arg, MaxArgs) : Start(args)
  \/ phase = "parsed" /\ Start(argv)

Parsing == phase = "parse" /\ i <= Len(argv)
IsOption(a) == a.kind \in {"long", "short"}
Entry(a) == IF IsOption(a) THEN option_map[a.name] ELSE NONE
OfType(a, type) == Entry(a) # NONE /\ Entry(a).type = type
After(n) == i' = i + n
_set_entry_val(e, v) == value' = IF e.var = NONE THEN value ELSE [value EXCEPT ![e.var] = v]
Rest == <<option_list, option_map, argv, phase, calls, given, room>>

(* An argument without a dash, or a lone dash.                             *)
IsData ==
  /\ Parsing /\ argv[i].kind = "data"
  /\ extra' = Append(extra, argv[i]) /\ After(1) /\ UNCHANGED <<value, Rest>>

EndOfOptions ==
  /\ Parsing /\ argv[i].kind = "end"
  /\ extra' = extra \o SubSeq(argv, i + 1, Len(argv))
  /\ i' = Len(argv) + 1 /\ UNCHANGED <<value, Rest>>

(* An empty argument, an unknown option, or one of no type.                *)
Ignored ==
  /\ Parsing
  /\ \/ argv[i].kind = "empty"
     \/ IsOption(argv[i]) /\ Entry(argv[i]) = NONE
     \/ OfType(argv[i], "invalid")
  /\ After(1) /\ UNCHANGED <<extra, value, Rest>>

BoolOption ==
  /\ Parsing /\ OfType(argv[i], "bool")
  /\ _set_entry_val(Entry(argv[i]), "1") /\ After(1) /\ UNCHANGED <<extra, Rest>>

(* --name=value, or the next argument if that is data; if not, the option  *)
(* is dropped and the next argument looked at for what it is.              *)
Skip_Swallow == 2
Skip == 1
ValueOption ==
  /\ Parsing /\ OfType(argv[i], "value")
  /\ LET a == argv[i] e == Entry(a)
     IN IF a.value # NONE THEN _set_entry_val(e, a.value) /\ After(1)
        ELSE IF i < Len(argv) /\ argv[i + 1].kind = "data"
        THEN _set_entry_val(e, argv[i + 1].value) /\ After(2)
        ELSE UNCHANGED value /\ After(Skip)
  /\ UNCHANGED <<extra, Rest>>

(* argv is overwritten from its first argument on, whatever room it has.   *)
UpdateExtra ==
  /\ phase = "parse" /\ i > Len(argv)
  /\ argv' = extra
  /\ phase' = IF Len(extra) > room THEN "overrun" ELSE "parsed"
  /\ UNCHANGED <<option_list, option_map, extra, value, i, calls, given, room>>

cfuopt_destroy ==
  /\ phase = "parsed" /\ phase' = "gone"
  /\ option_list' = << >> /\ option_map' = [n \in Name |-> NONE] /\ extra' = << >>
  /\ argv' = << >> /\ given' = << >> /\ i' = 1 /\ calls' = 0 /\ room' = 0
  /\ UNCHANGED value

OptNext ==
  \/ \E o \in OptStr : ~(\E e \in Range(option_list) : e = parse_opt_str(o)) /\ cfuopt_add_entry(o)
  \/ cfuopt_parse \/ IsData \/ EndOfOptions \/ Ignored \/ BoolOption \/ ValueOption
  \/ UpdateExtra \/ cfuopt_destroy

-----------------------------------------------------------------------------
(* What the command line means, without the loop: which arguments are the  *)
(* values of the options before them, what is left, what sets a variable.  *)
EndAt == Min({Len(given) + 1} \cup {j \in DOMAIN given : given[j].kind = "end"})
Waits(j) == j < EndAt /\ OfType(given[j], "value") /\ given[j].value = NONE
Fed(j) == Waits(j) /\ j < Len(given) /\ given[j + 1].kind = "data"
Stays(j) == j > EndAt \/ (j < EndAt /\ given[j].kind = "data" /\ ~(j > 1 /\ Fed(j - 1)))
LeftOver == {j \in DOMAIN given : Stays(j)}

(* s has the arguments at the places K, in their order.                    *)
Picked(s, K) ==
  \E f \in [DOMAIN s -> K] :
    /\ \A j \in K : \E k \in DOMAIN s : f[k] = j
    /\ \A j, k \in DOMAIN s : j < k => f[j] < f[k]
    /\ \A k \in DOMAIN s : s[k] = given[f[k]]

Sets(v) == {j \in 1..(EndAt - 1) :
              /\ Entry(given[j]) # NONE /\ Entry(given[j]).var = v
              /\ \/ OfType(given[j], "bool")
                 \/ Fed(j)
                 \/ OfType(given[j], "value") /\ given[j].value # NONE}
Setting(v) ==
  IF Sets(v) = {} THEN NONE
  ELSE LET j == Max(Sets(v))
       IN IF OfType(given[j], "bool") THEN "1"
          ELSE IF Fed(j) THEN given[j + 1].value ELSE given[j].value

(* The first call leaves in argv exactly the arguments that are neither    *)
(* options nor their values, in their order, sets every variable to what   *)
(* its last option said, and never writes past the end of argv.            *)
ParsedAsMeant ==
  /\ calls = 1 /\ phase = "parsed" =>
       Picked(argv, LeftOver) /\ \A v \in Var : value[v] = Setting(v)
  /\ phase = "overrun" => calls > 1

=============================================================================
