----------------------------- MODULE Dictionary -----------------------------
(***************************************************************************)
(* What cfuhash.h promises: a map from keys to values.  Every operation    *)
(* takes effect at one moment between its call and its return.             *)
(***************************************************************************)
EXTENDS Naturals, FiniteSets

CONSTANTS Index, Value, HasFreeFn, NULL

VARIABLES
  dict,    (* the value of each key, NULL for a key that is absent         *)
  result   (* what an operation has just returned, else NULL               *)

dictVars == <<dict, result>>

Keys == {k \in Index : dict[k] # NULL}

(* Data that is replaced or deleted is given back, unless it was freed.    *)
Old(k) == IF HasFreeFn THEN NULL ELSE dict[k]

Init == dict = [k \in Index |-> NULL] /\ result = NULL

Put(k, v) == result' = Old(k) /\ dict' = [dict EXCEPT ![k] = v]
Get(k) == result' = dict[k] /\ UNCHANGED dict
Delete(k) == result' = Old(k) /\ dict' = [dict EXCEPT ![k] = NULL]
RemoveSome == /\ result' = NULL
              /\ \E S \in SUBSET Index :
                    dict' = [k \in Index |-> IF k \in S THEN NULL ELSE dict[k]]
Take == result' = NULL /\ UNCHANGED dict

(* The keys, each once, in any order; or, from a walk that its function    *)
(* may stop, some of them.                                                 *)
ListsOf(S, n) == {s \in [1..n -> S] : \A i, j \in 1..n : s[i] = s[j] => i = j}
ListAll == /\ \E s \in ListsOf(Keys, Cardinality(Keys)) : result' = s
           /\ UNCHANGED dict
ListSome == /\ \E n \in 0..Cardinality(Keys) :
                 \E s \in ListsOf(Keys, n) : result' = <<"first", s>>
            /\ UNCHANGED dict

Next == \/ Take \/ RemoveSome
        \/ \E k \in Index : Get(k) \/ Delete(k) \/ \E v \in Value : Put(k, v)
        \/ ListAll \/ ListSome

Spec == Init /\ [][Next]_dictVars

=============================================================================
