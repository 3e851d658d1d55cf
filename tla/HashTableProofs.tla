-------------------------- MODULE HashTableProofs ---------------------------
(***************************************************************************)
(* Proofs about HashTable, for every number of threads, keys, values and   *)
(* sizes: the test for a rehash, the chains, copies and iterations, and    *)
(* that the table implements Dictionary.                                   *)
(***************************************************************************)
EXTENDS HashTable, FiniteSetTheorems, WellFoundedInduction, TLAPS

Place_ == {"idle", "grow", "shrink", "rehash", "each", "copy"}
Seen == [entries : Int, buckets : Sizes \cup {Unread}]

(* What the argument needs of the table and of the threads: the counters,  *)
(* that an iterating thread holds the lock, and that only a thread that    *)
(* has the test to finish remembers a counter.                             *)
LoadType ==
  /\ num_buckets \in Sizes /\ entries \in Int /\ entries <= MaxEntries
  /\ ~alive => entries = 0
  /\ pc \in [Thread -> Place_] /\ seen \in [Thread -> Seen]
  /\ \A t \in Thread : owner = t => pc[t] = "each"
  /\ \A t \in Thread : pc[t] \notin {"grow", "shrink"} => seen[t] = Unseen
  /\ \A t \in Thread : Unread \in {seen[t].entries, seen[t].buckets}

LoadInv == LoadType /\ OverfullNoticed

(* More entries in as many buckets.                                        *)
LEMMA Fuller ==
  \A d, e \in Int, n \in Nat :
     /\ d <= e /\ 4 * d > 3 * n => 4 * e > 3 * n
     /\ ~(4 * 0 > 3 * n)
OBVIOUS

(* A table that is made for twice its entries is not too full.             *)
LEMMA SizeFits ==
  ASSUME NEW e \in Int, e <= MaxEntries
  PROVE  /\ hash_size(2 * e) \in Sizes /\ hash_size(2 * e) \in Nat \ {0}
         /\ ~(4 * e > 3 * hash_size(2 * e))
<1>1. \E n \in Sizes : IsSizeFor(n, 2 * e)
  <2>1. CASE e >= 0
    BY <2>1, SizesAssumption
  <2>2. CASE e < 0
    <3>1. PICK n \in Sizes : IsSizeFor(n, 0)
      BY SizesAssumption
    <3>2. IsSizeFor(n, 2 * e)
      BY <2>2, <3>1, SizesAssumption DEF IsSizeFor
    <3> QED
      BY <3>2
  <2> QED
    BY <2>1, <2>2
<1>2. hash_size(2 * e) \in Sizes /\ IsSizeFor(hash_size(2 * e), 2 * e)
  BY <1>1 DEF hash_size
<1>3. hash_size(2 * e) >= 2 * e
  BY <1>2 DEF IsSizeFor
<1>4. hash_size(2 * e) \in Nat \ {0}
  BY <1>2, SizesAssumption
<1>5. ~(4 * e > 3 * hash_size(2 * e))
  <2> DEFINE h == hash_size(2 * e)
  <2>1. h \in Nat \ {0} /\ h >= 2 * e
    BY <1>3, <1>4
  <2> HIDE DEF h
  <2>2. ~(4 * e > 3 * h)
    BY <2>1
  <2> QED
    BY <2>2 DEF h
<1> QED
  BY <1>2, <1>4, <1>5

(* A step of a thread that has no test to make and adds nothing: it goes   *)
(* to a place, and takes or gives back the lock.                           *)
Calm(t, place) ==
  /\ UNCHANGED <<num_buckets, alive, seen>>
  /\ entries' \in Int /\ entries' <= entries /\ (~alive => entries' = 0)
  /\ pc[t] \in {"idle", "each", "copy"} /\ pc' = [pc EXCEPT ![t] = place]
  /\ owner' = owner \/ owner' = NULL \/ (owner' = t /\ place = "each")
  /\ owner = t /\ owner' = t => place = "each"

LEMMA CalmStep ==
  ASSUME LoadInv, NEW t \in Thread, NEW place \in Place_, Calm(t, place)
  PROVE  LoadInv'
<1>1. LoadType'
  <2>1. /\ num_buckets' \in Sizes /\ entries' \in Int
        /\ entries' <= MaxEntries /\ (~alive' => entries' = 0)
    BY SizesAssumption DEF LoadInv, LoadType, Calm
  <2>2. pc' \in [Thread -> Place_] /\ seen' \in [Thread -> Seen]
    BY DEF LoadInv, LoadType, Calm
  <2>3. \A u \in Thread : owner' = u => pc'[u] = "each"
    BY SizesAssumption DEF LoadInv, LoadType, Calm
  <2>4. \A u \in Thread : pc'[u] \notin {"grow", "shrink"} => seen'[u] = Unseen
    BY DEF LoadInv, LoadType, Calm
  <2>5. \A u \in Thread : Unread \in {seen'[u].entries, seen'[u].buckets}
    BY DEF LoadInv, LoadType, Calm
  <2> QED
    BY <2>1, <2>2, <2>3, <2>4, <2>5 DEF LoadType, Unseen, Unread, Seen
<1>2. OverfullNoticed'
  <2>1. ASSUME NEW u \in Thread, Overfull', WillNotice(u)
        PROVE  WillNotice(u)'
    <3>1. u # t
      BY <2>1 DEF WillNotice, Calm
    <3>2. pc'[u] = pc[u] /\ seen'[u] = seen[u]
      BY <3>1 DEF LoadInv, LoadType, Calm
    <3>3. seen[u].entries \in Int
      BY DEF LoadInv, LoadType, Seen
    <3>4. seen[u].entries >= entries => seen[u].entries >= entries'
      BY <3>3 DEF LoadInv, LoadType, Calm
    <3> QED
      BY <2>1, <3>2, <3>4 DEF WillNotice, Calm
  <2>2. Overfull' => Overfull
    <3>1. num_buckets' = num_buckets /\ num_buckets \in Nat
      BY SizesAssumption DEF LoadInv, LoadType, Calm
    <3>2. entries \in Int /\ entries' \in Int /\ entries' <= entries
      BY DEF LoadInv, LoadType, Calm
    <3> QED
      BY <3>1, <3>2, Fuller DEF Overfull
  <2> QED
    BY <2>1, <2>2 DEF LoadInv, OverfullNoticed
<1> QED
  BY <1>1, <1>2 DEF LoadInv

(* A new entry: its thread has the test to make.                           *)
LEMMA PutStep ==
  ASSUME LoadInv, NEW t \in Thread, NEW k \in Key, NEW v \in Value,
         cfuhash_put_data(t, k, v)
  PROVE  LoadInv'
<1>1. CASE PutOld(t, k, v)
  <2>1. pc' = [pc EXCEPT ![t] = "idle"]
    BY <1>1 DEF PutOld, cfuhash_put_data, Locked, LoadInv, LoadType
  <2>2. /\ pc[t] = "idle" /\ owner = NULL /\ entries' = entries
        /\ UNCHANGED <<num_buckets, alive, seen, owner>>
    BY <1>1 DEF PutOld, cfuhash_put_data, Locked, iteration
  <2>3. Calm(t, "idle")
    BY <2>1, <2>2, SizesAssumption DEF Calm, LoadInv, LoadType
  <2> QED
    BY <2>3, CalmStep DEF Place_
<1>2. CASE PutNew(t, k, v)
  <2>1. /\ entries' = entries + 1 /\ entries < MaxEntries
        /\ pc' = [pc EXCEPT ![t] = AfterAdd] /\ alive /\ owner = NULL
        /\ pc[t] = "idle"
        /\ UNCHANGED <<num_buckets, alive, seen, owner>>
    BY <1>2
       DEF PutNew, cfuhash_put_data, Locked, Goto, hash_add_entry, iteration
  <2>2. LoadType'
    BY <2>1, SizesAssumption
       DEF LoadInv, LoadType, Place_, AfterAdd, Unseen, Unread
  <2>3. ASSUME "FROZEN" \notin Flags PROVE WillNotice(t)'
    BY <2>1, <2>3
       DEF LoadInv, LoadType, WillNotice, AfterAdd, Unseen
  <2> QED
    BY <2>2, <2>3 DEF LoadInv, OverfullNoticed
<1> QED
  BY <1>1, <1>2 DEF cfuhash_put_data

(* Steps of a thread that is idle, iterates or copies.                     *)
LEMMA DeleteStep ==
  ASSUME LoadInv, NEW t \in Thread, NEW k \in Key, cfuhash_delete_data(t, k)
  PROVE  LoadInv'
<1>1. /\ pc[t] = "idle" /\ alive /\ owner = NULL
      /\ UNCHANGED <<num_buckets, alive, seen, owner>>
  BY DEF cfuhash_delete_data, Locked, iteration
<1>2. CASE Found(k)
  <2>1. /\ entries' = entries - 1
        /\ pc' = [pc EXCEPT ![t] = AfterRemove] /\ AfterRemove \in Place_
    BY <1>2 DEF cfuhash_delete_data, Goto, AfterRemove, Place_
  <2>2. Calm(t, AfterRemove)
    BY <1>1, <2>1, SizesAssumption DEF Calm, LoadInv, LoadType
  <2> QED
    BY <2>1, <2>2, CalmStep
<1>3. CASE ~Found(k)
  <2>1. entries' = entries /\ pc' = [pc EXCEPT ![t] = "idle"]
    BY <1>1, <1>3 DEF cfuhash_delete_data, LoadInv, LoadType
  <2>2. Calm(t, "idle")
    BY <1>1, <2>1, SizesAssumption DEF Calm, LoadInv, LoadType
  <2> QED
    BY <2>2, CalmStep DEF Place_
<1> QED
  BY <1>2, <1>3

LEMMA ClearStep ==
  ASSUME LoadInv, NEW t \in Thread, cfuhash_clear(t)
  PROVE  LoadInv'
<1>1. /\ pc[t] = "idle" /\ alive /\ owner = NULL /\ entries' = 0
      /\ UNCHANGED <<num_buckets, alive, seen, owner>>
      /\ pc' = [pc EXCEPT ![t] = AfterRemove] /\ AfterRemove \in Place_
  BY DEF cfuhash_clear, Locked, iteration, Goto, AfterRemove, Place_
<1>2. LoadType'
  BY <1>1, SizesAssumption DEF LoadInv, LoadType, Unseen, Unread
<1>3. ~Overfull'
  BY <1>1, <1>2, SizesAssumption DEF LoadType, Overfull
<1> QED
  BY <1>2, <1>3 DEF LoadInv, OverfullNoticed

(* The test: each counter is read once, without the lock.                  *)
LEMMA ReadStep ==
  ASSUME LoadInv, NEW t \in Thread, ReadEntries(t) \/ ReadBuckets(t)
  PROVE  LoadInv'
<1> DEFINE s == IF seen[t].entries = Unread /\ ReadEntries(t)
                THEN [seen[t] EXCEPT !.entries = entries]
                ELSE [seen[t] EXCEPT !.buckets = num_buckets]
           done == Unread \notin {s.entries, s.buckets}
<1>1. /\ pc[t] \in {"grow", "shrink"}
      /\ pc' = [pc EXCEPT ![t] = Decision(t, s)]
      /\ seen' = [seen EXCEPT ![t] = IF done THEN Unseen ELSE s]
      /\ UNCHANGED <<num_buckets, entries, alive, owner>>
  BY DEF ReadEntries, ReadBuckets, Read, Goto, table, counters, iteration
<1>2. s \in Seen
  BY SizesAssumption DEF LoadInv, LoadType, Seen
<1>3. Decision(t, s) \in IF done THEN {"rehash", "idle"} ELSE {pc[t]}
  BY DEF Decision
<1> HIDE DEF s
<1>4. LoadType'
  BY <1>1, <1>2, <1>3, SizesAssumption
     DEF LoadInv, LoadType, Place_, Seen, Unseen, Unread
<1>5. ASSUME Overfull, WillNotice(t) PROVE WillNotice(t)'
  <2>1. /\ pc[t] = "grow"
        /\ s.entries = Unread \/ s.entries >= entries
        /\ s.buckets = Unread \/ s.buckets = num_buckets
    BY <1>1, <1>5, SizesAssumption DEF WillNotice, LoadInv, LoadType, Seen, s
  <2>2. CASE done
    <3>1. TooFull(s)
      BY <1>2, <1>5, <2>1, <2>2, SizesAssumption
         DEF TooFull, Overfull, LoadInv, LoadType, Seen
    <3>2. pc'[t] = "rehash"
      BY <1>1, <2>1, <2>2, <3>1 DEF Decision, LoadInv, LoadType
    <3> QED
      BY <3>2 DEF WillNotice
  <2>3. CASE ~done
    BY <1>1, <1>3, <2>1, <2>3 DEF WillNotice, LoadInv, LoadType
  <2> QED
    BY <2>2, <2>3
<1>6. ASSUME NEW u \in Thread, u # t, WillNotice(u) PROVE WillNotice(u)'
  BY <1>1, <1>6 DEF WillNotice, LoadInv, LoadType
<1>7. OverfullNoticed'
  BY <1>1, <1>5, <1>6 DEF LoadInv, OverfullNoticed, Overfull
<1> QED
  BY <1>4, <1>7 DEF LoadInv

(* After a rehash the table is not too full, whoever asked for it.         *)
LEMMA RehashStep ==
  ASSUME LoadInv, NEW t \in Thread, cfuhash_rehash(t)
  PROVE  LoadInv'
<1>1. /\ alive /\ owner = NULL /\ pc[t] \in {"idle", "rehash"}
      /\ num_buckets' = hash_size(2 * entries)
      /\ pc' = [pc EXCEPT ![t] = "idle"]
      /\ UNCHANGED <<alive, entries, seen, owner>>
  BY DEF cfuhash_rehash, Resize, Locked, Goto, iteration
<1>2. num_buckets' \in Sizes /\ ~Overfull'
  BY <1>1, SizeFits DEF LoadInv, LoadType, Overfull
<1>3. LoadType'
  BY <1>1, <1>2, SizesAssumption
     DEF LoadInv, LoadType, Place_, Seen, Unseen, Unread
<1> QED
  BY <1>2, <1>3 DEF LoadInv, OverfullNoticed

(* Steps that only look at the table, iterate over it or copy it.          *)
LEMMA LookStep ==
  ASSUME LoadInv, NEW t \in Thread,
         \/ \E k \in Key : cfuhash_get_data(t, k)
         \/ \E R \in SUBSET AllEntries : cfuhash_foreach_remove(t, R)
         \/ cfuhash_foreach(t)
         \/ cfuhash_keys_data(t) \/ EachLock(t) \/ cfuhash_next_data(t)
         \/ CopyKeys(t) \/ CopyEnd(t)
         \/ \E k \in Index : CopyOne(t, k)
  PROVE  LoadInv'
<1>1. /\ UNCHANGED <<num_buckets, alive, seen, entries>>
      /\ pc[t] \in {"idle", "each", "copy"}
  BY SizesAssumption
     DEF cfuhash_get_data, cfuhash_foreach_remove, cfuhash_foreach,
         cfuhash_keys_data, EachLock, cfuhash_next_data, CopyKeys, CopyOne,
         CopyEnd, Locked, table, counters, threads, LoadInv, LoadType
<1>2. entries' \in Int /\ entries' <= entries /\ (~alive => entries' = 0)
  BY <1>1 DEF LoadInv, LoadType
<1>3. CASE cfuhash_next_data(t)
  <2>1. CASE UNCHANGED <<owner, pc>>
    <3>1. pc' = [pc EXCEPT ![t] = "each"] /\ owner' = owner
      BY <1>3, <2>1 DEF cfuhash_next_data, LoadInv, LoadType
    <3>2. Calm(t, "each")
      BY <1>1, <1>2, <3>1 DEF Calm
    <3> QED
      BY <3>2, CalmStep DEF Place_
  <2>2. CASE owner' = NULL /\ Goto(t, "idle")
    <3>1. Calm(t, "idle")
      BY <1>1, <1>2, <2>2, SizesAssumption DEF Calm, Goto
    <3> QED
      BY <3>1, CalmStep DEF Place_
  <2> QED
    BY <1>3, <2>1, <2>2 DEF cfuhash_next_data, Visit, EachEnd
<1>4. CASE EachLock(t)
  <2>1. Calm(t, "each")
    BY <1>1, <1>2, <1>4 DEF Calm, EachLock, Goto
  <2> QED
    BY <2>1, CalmStep DEF Place_
<1>5. CASE CopyKeys(t) \/ CopyEnd(t)
  <2>1. PICK place \in {"copy", "idle"} : pc' = [pc EXCEPT ![t] = place]
    BY <1>5 DEF CopyKeys, CopyEnd, Goto
  <2>2. owner' = owner /\ owner # t
    BY <1>5, SizesAssumption
       DEF CopyKeys, CopyEnd, Locked, iteration, LoadInv, LoadType
  <2>3. Calm(t, place)
    BY <1>1, <1>2, <2>1, <2>2 DEF Calm
  <2> QED
    BY <2>3, CalmStep DEF Place_
<1>6. CASE ~(cfuhash_next_data(t) \/ EachLock(t) \/ CopyKeys(t) \/ CopyEnd(t))
  <2>1. UNCHANGED <<owner, pc>> /\ owner = NULL
    BY <1>6
       DEF cfuhash_get_data, cfuhash_foreach_remove, cfuhash_foreach,
           cfuhash_keys_data, CopyOne, Locked, iteration, threads
  <2>2. pc' = [pc EXCEPT ![t] = pc[t]] /\ pc[t] \in Place_
    BY <2>1 DEF LoadInv, LoadType
  <2>3. Calm(t, pc[t])
    BY <1>1, <1>2, <2>1, <2>2, SizesAssumption DEF Calm
  <2> QED
    BY <2>2, <2>3, CalmStep
<1> QED
  BY <1>3, <1>4, <1>5, <1>6

LEMMA LifeStep ==
  ASSUME LoadInv, cfuhash_destroy \/ cfuhash_new
  PROVE  LoadInv'
<1>1. /\ num_buckets' \in Sizes /\ entries' = 0 
      /\ UNCHANGED <<pc, seen, owner>>
  BY SizesAssumption
     DEF cfuhash_destroy, cfuhash_new, iteration, threads, LoadInv, LoadType
<1>2. LoadType'
  BY <1>1, SizesAssumption DEF LoadInv, LoadType, Place_, Seen, Unseen, Unread
<1>3. ~Overfull'
  <2>1. num_buckets' \in Nat /\ entries' \in Int
    BY <1>1, SizesAssumption
  <2> QED
    BY <1>1, <2>1, Fuller DEF Overfull
<1> QED
  BY <1>2, <1>3 DEF LoadInv, OverfullNoticed

(* The invariant holds at the start and after every step.                  *)
LEMMA InitLoadInv == Init => LoadInv
BY SizesAssumption
   DEF Init, LoadInv, LoadType, Place_, Seen, Unseen, Unread, OverfullNoticed,
       Overfull

LEMMA LoadInvStep ==
  ASSUME LoadInv, [Next]_vars
  PROVE  LoadInv'
<1>1. CASE UNCHANGED vars
  BY <1>1
     DEF vars, table, iteration, copying, threads, LoadInv, LoadType, Place_,
         Seen, Unseen, OverfullNoticed, Overfull, WillNotice
<1>2. CASE Next
  BY <1>2, PutStep, DeleteStep, ClearStep, ReadStep, RehashStep, LookStep,
     LifeStep DEF Next
<1> QED
  BY <1>1, <1>2

(* LoadInv is an invariant.                                                *)
THEOREM Invariance == Spec => []LoadInv
BY InitLoadInv, LoadInvStep, PTL DEF Spec

(* A table that is too full is never left so, although the test is made    *)
(* on counters read after the lock was released (cfuhash.c:459).           *)
THEOREM NeverLeftFull == Spec => []OverfullNoticed
<1>1. LoadInv => OverfullNoticed
  BY DEF LoadInv
<1> QED
  BY <1>1, Invariance, PTL

-----------------------------------------------------------------------------
(* The chains.  They are determined by the set of the entries: each is in  *)
(* the chain of its hash, so a step can be judged by what it does to that  *)
(* set.                                                                    *)
EntryType == [key : Key, data : Value]
Spread(S, n) == [b \in 0..(n - 1) |-> {e \in S : hash_value(e.key, n) = b}]
OneEach(S) == \A e, f \in S : hash_cmp(e.key, f) => e = f

TableInv ==
  /\ AllEntries \subseteq EntryType /\ IsFiniteSet(AllEntries)
  /\ chain = Spread(AllEntries, num_buckets)
  /\ OneEach(AllEntries)
  /\ uncounted \in Nat /\ entries = Cardinality(AllEntries) + uncounted
  /\ ~alive => AllEntries = {}

LEMMA CanonTwice ==
  /\ \A k \in Key : Canon(k) \in Key /\ Canon(k) \in Index
                    /\ Canon(Canon(k)) = Canon(k)
  /\ \A k \in Index : k \in Key /\ Canon(k) = k
BY KeyAssumption DEF Canon, Index, hash_key_dup_lower_case

LEMMA ModBelow == \A a \in Nat, n \in Nat \ {0} : a % n \in 0..(n - 1)
OBVIOUS

LEMMA HashBelow ==
  ASSUME NEW k \in Key, NEW n \in Nat \ {0}
  PROVE  hash_value(k, n) \in 0..(n - 1)
<1>1. hash_func(Canon(k)) \in Nat
  BY CanonTwice, KeyAssumption DEF hash_func
<1> QED
  BY <1>1, ModBelow DEF hash_value

LEMMA Buckets == LoadInv => num_buckets \in Nat \ {0}
BY SizesAssumption DEF LoadInv, LoadType

(* What is spread over the chains is in them.                              *)
LEMMA SpreadAll ==
  ASSUME NEW S \in SUBSET EntryType, NEW n \in Nat \ {0}
  PROVE  UNION {Spread(S, n)[b] : b \in DOMAIN Spread(S, n)} = S
<1>1. ASSUME NEW e \in S
      PROVE  \E b \in DOMAIN Spread(S, n) : e \in Spread(S, n)[b]
  <2>1. e.key \in Key
    BY DEF EntryType
  <2>2. hash_value(e.key, n) \in 0..(n - 1)
    BY <2>1, HashBelow
  <2> QED
    BY <2>2 DEF Spread
<1> QED
  BY <1>1 DEF Spread

(* A step that spreads the entries of S leaves a table of them.            *)
LEMMA Respread ==
  ASSUME NEW S \in SUBSET EntryType, IsFiniteSet(S), OneEach(S),
         num_buckets' \in Nat \ {0}, chain' = Spread(S, num_buckets'),
         uncounted' \in Nat, entries' = Cardinality(S) + uncounted',
         ~alive' => S = {}
  PROVE  TableInv' /\ AllEntries' = S
<1>1. AllEntries' = S
  <2>1. UNION {chain'[b] : b \in DOMAIN chain'} = S
    BY SpreadAll
  <2> QED
    BY <2>1 DEF AllEntries
<1>2. Spread(AllEntries, num_buckets)' = Spread(S, num_buckets')
  BY <1>1 DEF Spread, hash_value, hash_func, Canon, hash_key_dup_lower_case
<1>3. OneEach(AllEntries)'
  BY <1>1 DEF OneEach, hash_cmp, Canon, hash_key_dup_lower_case
<1> QED
  BY <1>1, <1>2, <1>3 DEF TableInv

(* A lookup in one chain finds what there is in the table.                 *)
LEMMA Lookup ==
  LoadInv /\ TableInv =>
    \A k \in Key :
       /\ Matching(k) = {e \in AllEntries : hash_cmp(k, e)}
       /\ Found(k) => Entry(k) \in AllEntries /\ Matching(k) = {Entry(k)}
                      /\ Canon(Entry(k).key) = Canon(k)
<1> SUFFICES ASSUME LoadInv, TableInv, NEW k \in Key
             PROVE  /\ Matching(k) = {e \in AllEntries : hash_cmp(k, e)}
                    /\ Found(k) => /\ Entry(k) \in AllEntries
                                   /\ Matching(k) = {Entry(k)}
                                   /\ Canon(Entry(k).key) = Canon(k)
  OBVIOUS
<1>1. hash_value(k, num_buckets) \in 0..(num_buckets - 1)
  BY HashBelow, Buckets
<1>2. chain[hash_value(k, num_buckets)]
        = {e \in AllEntries : hash_value(e.key, num_buckets)
                                = hash_value(k, num_buckets)}
  BY <1>1 DEF TableInv, Spread
<1>3. Matching(k) = {e \in AllEntries : hash_cmp(k, e)}
  BY <1>2 DEF Matching, hash_cmp, hash_value
<1>4. \A e, f \in Matching(k) : e = f
  BY <1>3 DEF TableInv, OneEach, hash_cmp
<1>5. Found(k) => Entry(k) \in Matching(k)
  BY DEF Found, Entry
<1> QED
  BY <1>3, <1>4, <1>5 DEF hash_cmp

(* A new entry, a value replaced, entries taken away, all taken away, the  *)
(* chains made anew: what each leaves.                                     *)
LEMMA AddedOne ==
  ASSUME LoadInv, TableInv, NEW k \in Key, NEW v \in Value, ~Found(k),
         alive, UNCHANGED <<num_buckets, uncounted, alive>>,
         hash_add_entry(k, v)
  PROVE  TableInv' /\ AllEntries' = AllEntries \cup {[key |-> k, data |-> v]}
<1> DEFINE e == [key |-> k, data |-> v]
           S == AllEntries \cup {e}
<1>1. hash_value(k, num_buckets) \in 0..(num_buckets - 1)
  BY HashBelow, Buckets
<1>2. e \in EntryType /\ e.key = k
  BY DEF EntryType
<1>3. \A f \in AllEntries : Canon(f.key) # Canon(k)
  BY Lookup DEF Found, hash_cmp
<1>4. S \in SUBSET EntryType /\ OneEach(S)
  BY <1>2, <1>3 DEF TableInv, OneEach, hash_cmp
<1>5. IsFiniteSet(S) /\ Cardinality(S) = Cardinality(AllEntries) + 1
  BY <1>2, <1>3, FS_AddElement DEF TableInv
<1>6. chain' = Spread(S, num_buckets)
  <2>1. chain' = [chain EXCEPT ![hash_value(k, num_buckets)] = @ \cup {e}]
    BY DEF hash_add_entry
  <2> HIDE DEF e
  <2>2. chain = Spread(AllEntries, num_buckets)
    BY DEF TableInv
  <2> QED
    BY <1>1, <1>2, <2>1, <2>2 DEF Spread
<1>7. entries' = Cardinality(S) + uncounted
  BY <1>5, FS_CardinalityType DEF hash_add_entry, TableInv
<1> HIDE DEF S
<1> QED
  BY <1>4, <1>5, <1>6, <1>7, Respread, Buckets DEF S, TableInv

LEMMA ReplacedOne ==
  ASSUME LoadInv, TableInv, NEW t \in Thread, NEW k \in Key, NEW v \in Value,
         PutOld(t, k, v), alive, UNCHANGED <<num_buckets, uncounted, alive>>
  PROVE  TableInv' /\ AllEntries' = (AllEntries \ {Entry(k)})
                                      \cup {[Entry(k) EXCEPT !.data = v]}
<1> DEFINE o == Entry(k)
           e == [Entry(k) EXCEPT !.data = v]
           S == (AllEntries \ {o}) \cup {e}
<1>1. hash_value(k, num_buckets) \in 0..(num_buckets - 1)
  BY HashBelow, Buckets
<1>2. o \in AllEntries /\ o \in EntryType /\ Canon(o.key) = Canon(k)
  BY Lookup DEF PutOld, TableInv
<1>3. e \in EntryType /\ e.key = o.key
  BY <1>2 DEF EntryType
<1>4. \A f \in AllEntries \ {o} : Canon(f.key) # Canon(o.key)
  BY <1>2 DEF TableInv, OneEach, hash_cmp
<1>5. S \in SUBSET EntryType /\ OneEach(S)
  <2> HIDE DEF o, e
  <2>1. \A f, g \in AllEntries : Canon(f.key) = Canon(g.key) => f = g
    BY DEF TableInv, OneEach, hash_cmp
  <2> QED
    BY <1>3, <1>4, <2>1 DEF TableInv, OneEach, hash_cmp
<1>6. /\ IsFiniteSet(AllEntries \ {o})
      /\ Cardinality(AllEntries \ {o}) = Cardinality(AllEntries) - 1
  BY <1>2, FS_RemoveElement DEF TableInv
<1>7. IsFiniteSet(S) /\ Cardinality(S) = Cardinality(AllEntries)
  <2>1. e \notin AllEntries \ {o}
    BY <1>3, <1>4
  <2> HIDE DEF o, e
  <2>2. Cardinality(AllEntries) \in Nat
    BY FS_CardinalityType DEF TableInv
  <2> DEFINE T == AllEntries \ {o}
  <2>3. IsFiniteSet(T) /\ e \notin T
    BY <1>6, <2>1
  <2> HIDE DEF T
  <2>4. IsFiniteSet(T \cup {e}) /\ Cardinality(T \cup {e}) = Cardinality(T) + 1
    BY <2>3, FS_AddElement
  <2> QED
    BY <1>6, <2>2, <2>4 DEF T
<1>8. chain' = Spread(S, num_buckets)
  <2>1. chain' = [chain EXCEPT ![hash_value(k, num_buckets)] =
                                 (@ \ {o}) \cup {e}]
    BY DEF PutOld
  <2>2. chain = Spread(AllEntries, num_buckets)
    BY DEF TableInv
  <2>3. /\ hash_value(e.key, num_buckets) = hash_value(k, num_buckets)
        /\ hash_value(o.key, num_buckets) = hash_value(k, num_buckets)
    BY <1>2, <1>3 DEF hash_value
  <2> HIDE DEF o, e
  <2> QED
    BY <1>1, <2>1, <2>2, <2>3 DEF Spread
<1>9. entries' = Cardinality(S) + uncounted
  BY <1>7 DEF PutOld, TableInv
<1> HIDE DEF S
<1> QED
  BY <1>5, <1>7, <1>8, <1>9, Respread, Buckets DEF S, TableInv

LEMMA RemovedSome ==
  ASSUME LoadInv, TableInv, NEW R \in SUBSET AllEntries,
         alive, UNCHANGED <<num_buckets, alive>>,
         chain' = [b \in DOMAIN chain |-> chain[b] \ R],
         uncounted' \in Nat,
         entries' = Cardinality(AllEntries \ R) + uncounted'
  PROVE  TableInv' /\ AllEntries' = AllEntries \ R
<1> DEFINE S == AllEntries \ R
<1>1. S \in SUBSET EntryType /\ OneEach(S)
  BY DEF TableInv, OneEach
<1>2. IsFiniteSet(S)
  BY FS_Difference DEF TableInv
<1>3. chain' = Spread(S, num_buckets)
  BY DEF TableInv, Spread
<1> HIDE DEF S
<1> QED
  BY <1>1, <1>2, <1>3, Respread, Buckets DEF S

LEMMA DeletedOne ==
  ASSUME LoadInv, TableInv, NEW t \in Thread, NEW k \in Key,
         cfuhash_delete_data(t, k), Found(k)
  PROVE  TableInv' /\ AllEntries' = AllEntries \ {Entry(k)}
<1> DEFINE o == Entry(k)
<1>1. hash_value(k, num_buckets) \in 0..(num_buckets - 1)
  BY HashBelow, Buckets
<1>2. o \in AllEntries /\ Canon(o.key) = Canon(k)
  BY Lookup
<1>3. /\ chain' = [chain EXCEPT ![hash_value(k, num_buckets)] = @ \ {o}]
      /\ entries' = entries - 1 /\ alive
      /\ UNCHANGED <<num_buckets, alive, uncounted>>
  BY DEF cfuhash_delete_data, Locked
<1> HIDE DEF o
<1>4. chain' = [b \in DOMAIN chain |-> chain[b] \ {o}]
  <2>1. hash_value(o.key, num_buckets) = hash_value(k, num_buckets)
    BY <1>2 DEF hash_value
  <2> QED
    BY <1>1, <1>3, <2>1 DEF TableInv, Spread
<1>5. entries' = Cardinality(AllEntries \ {o}) + uncounted'
  <2>1. Cardinality(AllEntries) \in Nat
    BY FS_CardinalityType DEF TableInv
  <2>2. Cardinality(AllEntries \ {o}) = Cardinality(AllEntries) - 1
    BY <1>2, FS_RemoveElement DEF TableInv
  <2>3. entries = Cardinality(AllEntries) + uncounted /\ uncounted \in Nat
    BY DEF TableInv
  <2> QED
    BY <1>3, <2>1, <2>2, <2>3
<1>6. {o} \in SUBSET AllEntries /\ uncounted' \in Nat
  BY <1>2, <1>3 DEF TableInv
<1> QED
  BY <1>3, <1>4, <1>5, <1>6, RemovedSome DEF o

LEMMA RemovedByFunction ==
  ASSUME LoadInv, TableInv, NEW t \in Thread, NEW R \in SUBSET AllEntries,
         cfuhash_foreach_remove(t, R)
  PROVE  TableInv' /\ AllEntries' = AllEntries \ R
<1>1. /\ chain' = [b \in DOMAIN chain |-> chain[b] \ R]
      /\ uncounted' = uncounted + Cardinality(R) /\ alive
      /\ UNCHANGED <<num_buckets, alive, entries>>
  BY DEF cfuhash_foreach_remove, Locked, counters
<1>2. IsFiniteSet(R) /\ Cardinality(R) \in Nat
  BY FS_Subset, FS_CardinalityType DEF TableInv
<1>3. Cardinality(AllEntries \ R) = Cardinality(AllEntries) - Cardinality(R)
  <2>1. AllEntries \cap R = R
    OBVIOUS
  <2> QED
    BY <2>1, FS_Difference DEF TableInv
<1>4. Cardinality(AllEntries) \in Nat
  BY FS_CardinalityType DEF TableInv
<1>5. uncounted' \in Nat /\ entries' = Cardinality(AllEntries \ R) + uncounted'
  BY <1>1, <1>2, <1>3, <1>4 DEF TableInv
<1> QED
  BY <1>1, <1>5, RemovedSome

LEMMA Emptied ==
  ASSUME num_buckets' \in Nat \ {0}, chain' = Empty(num_buckets'),
         entries' = 0, uncounted' = 0
  PROVE  TableInv' /\ AllEntries' = {}
<1>1. {} \in SUBSET EntryType /\ OneEach({})
  BY DEF OneEach
<1>2. chain' = Spread({}, num_buckets')
  BY DEF Empty, Spread
<1>3. entries' = Cardinality({}) + uncounted'
  BY FS_EmptySet
<1>4. IsFiniteSet({}) /\ uncounted' \in Nat
  BY FS_EmptySet
<1> QED
  BY <1>1, <1>2, <1>3, <1>4, Respread

LEMMA Rehashed ==
  ASSUME LoadInv, TableInv, NEW t \in Thread, cfuhash_rehash(t)
  PROVE  TableInv' /\ AllEntries' = AllEntries
<1>1. /\ Resize(hash_size(2 * entries))
      /\ UNCHANGED <<alive, entries, uncounted>>
  BY DEF cfuhash_rehash
<1>2. hash_size(2 * entries) \in Nat \ {0}
  BY SizeFits DEF LoadInv, LoadType
<1>3. num_buckets' \in Nat \ {0} /\ chain' = Spread(AllEntries, num_buckets')
  BY <1>1, <1>2, Buckets DEF Resize, Relinked, Spread, TableInv
<1> QED
  BY <1>1, <1>3, Respread DEF TableInv

LEMMA Untouched ==
  ASSUME TableInv, UNCHANGED table
  PROVE  TableInv' /\ AllEntries' = AllEntries
<1>1. AllEntries' = AllEntries
  BY DEF table, AllEntries
<1> QED
  BY <1>1 DEF table, TableInv, Spread, OneEach, hash_value, hash_func,
              hash_cmp, Canon, hash_key_dup_lower_case

(* Steps that leave the table alone.                                       *)
Looks(t) ==
  \/ \E k \in Key : cfuhash_get_data(t, k)
  \/ cfuhash_foreach(t) \/ ReadEntries(t) \/ ReadBuckets(t)
  \/ cfuhash_keys_data(t) \/ EachLock(t) \/ cfuhash_next_data(t)
  \/ CopyKeys(t) \/ CopyEnd(t) \/ \E k \in Index : CopyOne(t, k)

LEMMA LooksOnly == \A t \in Thread : Looks(t) => UNCHANGED table
BY DEF Looks, cfuhash_get_data, cfuhash_foreach, ReadEntries, ReadBuckets,
       Read, cfuhash_keys_data, EachLock, cfuhash_next_data, CopyKeys, CopyEnd,
       CopyOne

LEMMA TableStep ==
  ASSUME LoadInv, LoadInv', TableInv, [Next]_vars
  PROVE  TableInv'
<1>1. ASSUME NEW t \in Thread, NEW k \in Key, NEW v \in Value,
             cfuhash_put_data(t, k, v)
      PROVE  TableInv'
  <2>1. alive /\ UNCHANGED <<num_buckets, uncounted, alive>>
    BY <1>1 DEF cfuhash_put_data, Locked
  <2> QED
    BY <1>1, <2>1, AddedOne, ReplacedOne DEF cfuhash_put_data, PutNew
<1>2. ASSUME NEW t \in Thread, NEW k \in Key, cfuhash_delete_data(t, k)
      PROVE  TableInv'
  <2>1. CASE Found(k)
    BY <1>2, <2>1, DeletedOne
  <2>2. CASE ~Found(k)
    BY <1>2, <2>2, Untouched DEF cfuhash_delete_data, table
  <2> QED
    BY <2>1, <2>2
<1>3. ASSUME NEW t \in Thread, cfuhash_clear(t)
      PROVE  TableInv'
  BY <1>3, Emptied, Buckets DEF cfuhash_clear
<1>4. CASE cfuhash_destroy
  BY <1>4, Emptied, Buckets DEF cfuhash_destroy
<1>5. CASE cfuhash_new
  <2>1. entries = 0 /\ AllEntries = {}
    BY <1>5 DEF cfuhash_new, LoadInv, LoadType, TableInv
  <2>2. uncounted = 0
    BY <2>1, FS_EmptySet DEF TableInv
  <2>3. /\ num_buckets' = InitialSize /\ chain' = Empty(num_buckets')
        /\ entries' = 0 /\ uncounted' = 0
    BY <1>5, <2>1, <2>2 DEF cfuhash_new
  <2> QED
    BY <2>3, Emptied, SizesAssumption
<1>6. CASE UNCHANGED vars
  BY <1>6, Untouched DEF vars
<1>7. ASSUME NEW t \in Thread, Looks(t) PROVE TableInv'
  BY <1>7, LooksOnly, Untouched
<1> QED
  BY <1>1, <1>2, <1>3, <1>4, <1>5, <1>6, <1>7, RemovedByFunction, Rehashed
     DEF Next, Looks

LEMMA InitTable == Init => TableInv
<1> SUFFICES ASSUME Init PROVE TableInv
  OBVIOUS
<1>1. num_buckets \in Nat \ {0} /\ chain = Empty(num_buckets)
  BY SizesAssumption DEF Init
<1>2. AllEntries = {}
  BY <1>1 DEF AllEntries, Empty
<1> QED
  BY <1>1, <1>2, FS_EmptySet DEF Init, TableInv, Empty, Spread, OneEach

THEOREM TableInvariance == Spec => []TableInv
BY InitTable, TableStep, Invariance, PTL DEF Spec

(* Whatever the threads do, every entry is in the chain its hash selects,  *)
(* no key has two and the counter is off by the entries that               *)
(* cfuhash_foreach_remove took away, and by no other (cfuhash.c:657).      *)
THEOREM AlwaysWellLinked == Spec => []WellLinked
<1>1. LoadInv /\ TableInv => WellLinked
  <2>1. LoadInv /\ TableInv =>
          \A b \in DOMAIN chain : \A e \in chain[b] :
             hash_value(e.key, num_buckets) = b
    BY DEF TableInv, Spread
  <2> QED
    BY <2>1 DEF TableInv, OneEach, WellLinked
<1> QED
  BY <1>1, Invariance, TableInvariance, PTL

-----------------------------------------------------------------------------
(* What is in the table, by key, and in lists of it.                       *)
Has(k) == \E e \in AllEntries : Canon(e.key) = k

LEMMA FoundHas ==
  LoadInv /\ TableInv => \A k \in Index : Found(k) <=> Has(k)
<1>1. LoadInv /\ TableInv =>
        \A k \in Index : Matching(k) = {e \in AllEntries : Canon(e.key) = k}
  BY Lookup, CanonTwice DEF hash_cmp
<1> QED
  BY <1>1 DEF Found, Has

LEMMA FoundHasNext ==
  (LoadInv /\ TableInv => \A k \in Index : Found(k) <=> Has(k))'
BY FoundHas, PTL

(* A list without repetition that is as long as its set has elements       *)
(* misses none, and has one for each.                                      *)
LEMMA FullList ==
  ASSUME NEW S, IsFiniteSet(S), NEW s \in ListsOf(S, Cardinality(S))
  PROVE  \A x \in S : \E i \in 1..Cardinality(S) : s[i] = x
<1>1. Cardinality(S) \in Nat
  BY FS_CardinalityType
<1>2. s \in Injection(1..Cardinality(S), S)
  BY DEF ListsOf, Injection, IsInjective
<1>3. Cardinality(1..Cardinality(S)) = Cardinality(S)
  BY <1>1, FS_Interval
<1>4. s \in Surjection(1..Cardinality(S), S)
  BY <1>2, <1>3, FS_Injection
<1> QED
  BY <1>4 DEF Surjection

(* The counter is never too small for the list of all keys.                *)
LEMMA ListedAll ==
  ASSUME TableInv
  PROVE  Listed = ListsOf(AllEntries, Cardinality(AllEntries))
<1>1. Cardinality(AllEntries) \in Nat
  BY FS_CardinalityType DEF TableInv
<1>2. ~(entries < Cardinality(AllEntries))
  BY <1>1 DEF TableInv
<1> QED
  BY <1>2 DEF Listed

(* A copy in progress: a key that has been in the table since its start is *)
(* in it, and is still to be copied or already copied.                     *)
CopyInv ==
  /\ left \in [Thread -> SUBSET Index] /\ copied \in [Thread -> SUBSET Index]
  /\ gone \in [Thread -> SUBSET Index]
  /\ \A t \in Thread : pc[t] = "copy" =>
        \A k \in Index \ gone[t] : Has(k) /\ k \in left[t] \cup copied[t]

LEMMA CopyKept ==
  ASSUME CopyInv, UNCHANGED <<left, copied>>,
         gone' \in [Thread -> SUBSET Index],
         \A u \in Thread : pc'[u] = "copy" => pc[u] = "copy",
         \A u \in Thread : gone[u] \subseteq gone'[u],
         \A u \in Thread : \A k \in Index \ gone'[u] : Has(k) => Has(k)'
  PROVE  CopyInv'
<1>1. ASSUME NEW u \in Thread, pc'[u] = "copy", NEW k \in Index \ gone'[u]
      PROVE  Has(k)' /\ k \in left[u] \cup copied[u]
  BY <1>1 DEF CopyInv
<1>2. (\A u \in Thread : pc[u] = "copy" =>
        \A k \in Index \ gone[u] : Has(k) /\ k \in left[u] \cup copied[u])'
  BY <1>1, CanonTwice DEF Index, Canon, hash_key_dup_lower_case
<1> QED
  BY <1>2 DEF CopyInv, Index, Canon, hash_key_dup_lower_case

LEMMA SameKeys ==
  ASSUME AllEntries \subseteq AllEntries'
  PROVE  \A k : Has(k) => Has(k)'
BY DEF Has, Canon, hash_key_dup_lower_case

LEMMA FewerKeys ==
  ASSUME NEW R, AllEntries' = AllEntries \ R
  PROVE  \A k : Has(k) /\ k \notin {Canon(e.key) : e \in R} => Has(k)'
BY DEF Has, Canon, hash_key_dup_lower_case

LEMMA AbsentType ==
  ASSUME CopyInv, NEW S \in SUBSET Index, Absent(S)
  PROVE  /\ gone' \in [Thread -> SUBSET Index]
         /\ \A u \in Thread : gone'[u] = gone[u] \cup S
BY DEF CopyInv, Absent

LEMMA CopyPut ==
  ASSUME LoadInv, TableInv, CopyInv, NEW t \in Thread, NEW k \in Key,
         NEW v \in Value, cfuhash_put_data(t, k, v)
  PROVE  CopyInv'
<1>1. /\ UNCHANGED <<left, copied, gone, num_buckets, uncounted, alive>>
      /\ alive
      /\ pc' = pc \/ pc' = [pc EXCEPT ![t] = AfterAdd]
  BY DEF cfuhash_put_data, Locked, copying, PutNew, PutOld, Goto
<1>2. \A u \in Thread : pc'[u] = "copy" => pc[u] = "copy"
  BY <1>1 DEF AfterAdd, LoadInv, LoadType
<1>3. \A c : Has(c) => Has(c)'
  <2>1. CASE PutNew(t, k, v)
    <3>1. AllEntries \subseteq AllEntries'
      BY <1>1, <2>1, AddedOne DEF PutNew
    <3> QED
      BY <3>1, SameKeys
  <2>2. CASE PutOld(t, k, v)
    <3> DEFINE e == [Entry(k) EXCEPT !.data = v]
    <3>1. AllEntries' = (AllEntries \ {Entry(k)}) \cup {e}
      BY <1>1, <2>2, ReplacedOne
    <3>2. Entry(k) \in EntryType
      BY <2>2, Lookup DEF PutOld, TableInv
    <3>3. e.key = Entry(k).key
      BY <3>2 DEF EntryType
    <3>4. e \in AllEntries'
      BY <3>1
    <3>5. ASSUME NEW c, NEW f \in AllEntries, Canon(f.key) = c
          PROVE  \E g \in AllEntries' : Canon(g.key) = c
      BY <3>1, <3>3, <3>4, <3>5
    <3> QED
      BY <3>5 DEF Has, Canon, hash_key_dup_lower_case
  <2> QED
    BY <2>1, <2>2 DEF cfuhash_put_data
<1> QED
  BY <1>1, <1>2, <1>3, CopyKept DEF CopyInv

LEMMA CopyDelete ==
  ASSUME LoadInv, TableInv, CopyInv, NEW t \in Thread, NEW k \in Key,
         cfuhash_delete_data(t, k)
  PROVE  CopyInv'
<1>1. /\ UNCHANGED <<left, copied>> /\ Absent({Canon(k)})
      /\ pc' = pc \/ pc' = [pc EXCEPT ![t] = AfterRemove]
  BY DEF cfuhash_delete_data, Goto
<1>2. \A u \in Thread : pc'[u] = "copy" => pc[u] = "copy"
  BY <1>1 DEF AfterRemove, LoadInv, LoadType
<1>3. \A c : Has(c) /\ c # Canon(k) => Has(c)'
  <2>1. CASE Found(k)
    <3>1. AllEntries' = AllEntries \ {Entry(k)}
      BY <2>1, DeletedOne
    <3>2. Canon(Entry(k).key) = Canon(k)
      BY <2>1, Lookup
    <3>3. {Canon(e.key) : e \in {Entry(k)}} = {Canon(k)}
      BY <3>2
    <3> QED
      BY <3>1, <3>3, FewerKeys
  <2>2. CASE ~Found(k)
    <3>1. AllEntries' = AllEntries
      BY <2>2 DEF cfuhash_delete_data, AllEntries
    <3> QED
      BY <3>1, SameKeys
  <2> QED
    BY <2>1, <2>2
<1>4. /\ gone' \in [Thread -> SUBSET Index]
      /\ \A u \in Thread : gone'[u] = gone[u] \cup {Canon(k)}
  BY <1>1, CanonTwice, AbsentType
<1> QED
  BY <1>1, <1>2, <1>3, <1>4, CopyKept

(* A thread that looks, or takes what it has to copy.                      *)
LEMMA CopyLook ==
  ASSUME LoadInv, TableInv, CopyInv, NEW t \in Thread, Looks(t)
  PROVE  CopyInv'
<1>1. \A k : Has(k) => Has(k)'
  BY LooksOnly, Untouched, SameKeys
<1>2. CASE CopyKeys(t)
  <2>1. PICK s \in Listed :
             left' = [left EXCEPT ![t] = {Canon(s[i].key) : i \in DOMAIN s}]
    BY <1>2 DEF CopyKeys
  <2> DEFINE n == Cardinality(AllEntries)
             L == {Canon(s[i].key) : i \in DOMAIN s}
  <2>2. s \in [1..n -> AllEntries] /\ s \in ListsOf(AllEntries, n)
    BY <2>1, ListedAll DEF ListsOf
  <2>3. \A e \in AllEntries : \E i \in 1..n : s[i] = e
    BY <2>2, FullList DEF TableInv
  <2>4. L = {Canon(e.key) : e \in AllEntries}
    BY <2>2, <2>3
  <2>5. L \subseteq Index /\ \A k : k \in L <=> Has(k)
    BY <2>4, CanonTwice DEF Has, TableInv, EntryType
  <2> HIDE DEF L
  <2>6. /\ left' = [left EXCEPT ![t] = L]
        /\ copied' = [copied EXCEPT ![t] = {}]
        /\ gone' = [gone EXCEPT ![t] = {k \in Index : ~Has(k)}]
        /\ pc' = [pc EXCEPT ![t] = "copy"]
    BY <1>2, <2>1, FoundHas DEF CopyKeys, Goto, L
  <2>7. \A u \in Thread : pc'[u] = "copy" =>
          \A k \in Index \ gone'[u] : Has(k) /\ k \in left'[u] \cup copied'[u]
    BY <2>5, <2>6 DEF CopyInv, LoadInv, LoadType
  <2>8. (\A u \in Thread : pc[u] = "copy" =>
          \A k \in Index \ gone[u] : Has(k) /\ k \in left[u] \cup copied[u])'
    BY <1>1, <2>7 DEF Index, Canon, hash_key_dup_lower_case
  <2> QED
    BY <2>5, <2>6, <2>8 DEF CopyInv, Index, Canon, hash_key_dup_lower_case
<1>3. ASSUME NEW k \in Index, CopyOne(t, k) PROVE CopyInv'
  <2>1. /\ left' = [left EXCEPT ![t] = @ \ {k}] /\ UNCHANGED <<gone, pc>>
        /\ IF Has(k) THEN copied' = [copied EXCEPT ![t] = @ \cup {k}]
           ELSE copied' = copied
    BY <1>3, FoundHas DEF CopyOne, LeftAfter
  <2>2. \A u \in Thread : pc'[u] = "copy" =>
          \A c \in Index \ gone'[u] : Has(c) /\ c \in left'[u] \cup copied'[u]
    BY <2>1 DEF CopyInv
  <2>3. (\A u \in Thread : pc[u] = "copy" =>
          \A c \in Index \ gone[u] : Has(c) /\ c \in left[u] \cup copied[u])'
    BY <1>1, <2>2 DEF Index, Canon, hash_key_dup_lower_case
  <2> QED
    BY <2>1, <2>3 DEF CopyInv, Index, Canon, hash_key_dup_lower_case
<1>4. CASE CopyEnd(t)
  <2>1. /\ left' = left /\ copied' = [copied EXCEPT ![t] = {}]
        /\ gone' = [gone EXCEPT ![t] = {}] /\ pc' = [pc EXCEPT ![t] = "idle"]
    BY <1>4 DEF CopyEnd, Goto
  <2>2. \A u \in Thread : pc'[u] = "copy" =>
          \A c \in Index \ gone'[u] : Has(c) /\ c \in left'[u] \cup copied'[u]
    BY <2>1 DEF CopyInv, LoadInv, LoadType
  <2>3. (\A u \in Thread : pc[u] = "copy" =>
          \A c \in Index \ gone[u] : Has(c) /\ c \in left[u] \cup copied[u])'
    BY <1>1, <2>2 DEF Index, Canon, hash_key_dup_lower_case
  <2> QED
    BY <2>1, <2>3 DEF CopyInv, Index, Canon, hash_key_dup_lower_case
<1>5. CASE ~(CopyKeys(t) \/ CopyEnd(t) \/ \E k \in Index : CopyOne(t, k))
  <2>1. UNCHANGED <<left, copied, gone>>
    BY <1>5 DEF Looks, cfuhash_get_data, cfuhash_foreach, ReadEntries,
                ReadBuckets, Read, cfuhash_keys_data, EachLock,
                cfuhash_next_data, copying
  <2>2. \/ pc' = pc
        \/ \E place \in Place_ \ {"copy"} : pc' = [pc EXCEPT ![t] = place]
    BY <1>5 DEF Looks, cfuhash_get_data, cfuhash_foreach, ReadEntries, Place_,
                ReadBuckets, Read, Decision, cfuhash_keys_data, EachLock,
                cfuhash_next_data, Visit, EachEnd, Goto
  <2>3. \A u \in Thread : pc'[u] = "copy" => pc[u] = "copy"
    BY <2>2 DEF LoadInv, LoadType
  <2> QED
    BY <1>1, <2>1, <2>3, CopyKept DEF CopyInv
<1> QED
  BY <1>2, <1>3, <1>4, <1>5

(* Whoever takes much away notes it for the copies in progress.            *)
LEMMA CopyShrinks ==
  ASSUME LoadInv, TableInv, CopyInv, NEW t \in Thread,
         \/ \E R \in SUBSET AllEntries : cfuhash_foreach_remove(t, R)
         \/ cfuhash_clear(t) \/ cfuhash_rehash(t)
  PROVE  CopyInv'
<1>1. ASSUME NEW R \in SUBSET AllEntries, cfuhash_foreach_remove(t, R)
      PROVE  CopyInv'
  <2> DEFINE S == {Canon(e.key) : e \in R}
  <2>1. UNCHANGED <<left, copied, pc>> /\ Absent(S)
    BY <1>1 DEF cfuhash_foreach_remove, threads
  <2>2. \A c : Has(c) /\ c \notin S => Has(c)'
    BY <1>1, RemovedByFunction, FewerKeys
  <2>3. S \in SUBSET Index
    BY CanonTwice DEF TableInv, EntryType
  <2> HIDE DEF S
  <2>4. /\ gone' \in [Thread -> SUBSET Index]
        /\ \A u \in Thread : gone'[u] = gone[u] \cup S
    BY <2>1, <2>3, AbsentType
  <2> QED
    BY <2>1, <2>2, <2>4, CopyKept
<1>2. CASE cfuhash_clear(t)
  <2>1. /\ UNCHANGED <<left, copied>> /\ Absent(Index)
        /\ pc' = [pc EXCEPT ![t] = AfterRemove]
    BY <1>2 DEF cfuhash_clear, Goto
  <2>2. \A u \in Thread : pc'[u] = "copy" => pc[u] = "copy"
    BY <2>1 DEF AfterRemove, LoadInv, LoadType
  <2>3. /\ gone' \in [Thread -> SUBSET Index]
        /\ \A u \in Thread : gone'[u] = gone[u] \cup Index
    BY <2>1, AbsentType
  <2> QED
    BY <2>1, <2>2, <2>3, CopyKept
<1>3. CASE cfuhash_rehash(t)
  <2>1. UNCHANGED <<left, copied, gone>> /\ pc' = [pc EXCEPT ![t] = "idle"]
    BY <1>3 DEF cfuhash_rehash, Goto, copying
  <2>2. \A u \in Thread : pc'[u] = "copy" => pc[u] = "copy"
    BY <2>1 DEF LoadInv, LoadType
  <2>3. \A c : Has(c) => Has(c)'
    BY <1>3, Rehashed, SameKeys
  <2> QED
    BY <2>1, <2>2, <2>3, CopyKept DEF CopyInv
<1> QED
  BY <1>1, <1>2, <1>3

LEMMA CopyStep ==
  ASSUME LoadInv, TableInv, CopyInv, [Next]_vars
  PROVE  CopyInv'
<1>1. CASE UNCHANGED vars
  <2>1. UNCHANGED <<left, copied, gone, pc>> /\ AllEntries' = AllEntries
    BY <1>1 DEF vars, copying, threads, table, AllEntries
  <2> QED
    BY <2>1, SameKeys, CopyKept DEF CopyInv
<1>2. CASE cfuhash_destroy
  <2>1. /\ UNCHANGED <<left, copied, pc>> /\ gone' = [t \in Thread |-> {}]
        /\ \A u \in Thread : pc[u] = "idle"
    BY <1>2 DEF cfuhash_destroy, threads
  <2>2. \A u \in Thread : pc'[u] # "copy"
    BY <2>1
  <2> QED
    BY <2>1, <2>2 DEF CopyInv, Index, Canon, hash_key_dup_lower_case
<1>3. CASE cfuhash_new
  <2>1. UNCHANGED <<left, copied, gone, pc>> /\ AllEntries = {}
    BY <1>3 DEF cfuhash_new, copying, threads, TableInv
  <2> QED
    BY <2>1, SameKeys, CopyKept DEF CopyInv
<1> QED
  BY <1>1, <1>2, <1>3, CopyPut, CopyDelete, CopyLook, CopyShrinks
     DEF Next, Looks

THEOREM CopyInvariance == Spec => []CopyInv
<1>1. Init => CopyInv
  BY DEF Init, CopyInv
<1> QED
  BY <1>1, CopyStep, Invariance, TableInvariance, PTL DEF Spec

(* Whatever other threads do to the table while a thread copies it, the    *)
(* copy has every key that was in it all the time (cfuhash.c:201).         *)
THEOREM CopiesAreComplete == Spec => []CopyComplete
<1>1. LoadInv /\ TableInv /\ CopyInv => CopyComplete
  BY DEF CopyInv, CopyComplete
<1> QED
  BY <1>1, Invariance, TableInvariance, CopyInvariance, PTL

-----------------------------------------------------------------------------
(* The iteration: what it has returned are the keys of the entries behind  *)
(* it, which are those of the chains before its own and of its own chain   *)
(* but for the rest it remembers.                                          *)
Place(e) == hash_value(e.key, num_buckets)
Behind == {e \in AllEntries : \/ Place(e) < each.bucket
                              \/ Place(e) = each.bucket /\ e \notin each.rest}

Iterating ==
  /\ owner \in Thread /\ pc[owner] = "each" /\ alive
  /\ \A e \in each.rest : e \in AllEntries /\ Place(e) = each.bucket
  /\ \A i, j \in DOMAIN visited : visited[i] = visited[j] => i = j
  /\ {visited[i] : i \in DOMAIN visited} = {Canon(e.key) : e \in Behind}

EachInv ==
  /\ each \in [bucket : Int, rest : SUBSET EntryType]
  /\ visited \in Seq(Index)
  /\ owner # NULL => Iterating

LEMMA Least ==
  ASSUME NEW S \in SUBSET Nat, S # {}
  PROVE  \E m \in S : \A k \in S : m <= k
<1> DEFINE T == {0..n : n \in S}
<1>1. \A n \in Nat : IsFiniteSet(0..n)
  BY FS_Interval
<1>2. T \subseteq FiniteSubsetsOf(Nat) /\ T # {}
  <2>1. ASSUME NEW n \in S PROVE 0..n \in FiniteSubsetsOf(Nat)
    BY <1>1 DEF FiniteSubsetsOf
  <2> QED
    BY <2>1
<1>3. PICK x \in T : \A y \in T : ~(<<y, x>> \in StrictSubsetOrdering(Nat))
  <2> HIDE DEF T
  <2> QED
    BY <1>2, FS_StrictSubsetOrderingWellFounded, WFMin
<1>4. PICK m \in S : x = 0..m
  BY <1>3
<1>5. ASSUME NEW k \in S PROVE m <= k
  <2>1. SUFFICES ASSUME k < m PROVE FALSE
    OBVIOUS
  <2>2. <<0..k, 0..m>> \in StrictSubsetOrdering(Nat)
    BY <2>1 DEF StrictSubsetOrdering
  <2> QED
    BY <1>3, <1>4, <2>2
<1> QED
  BY <1>5

(* Each entry has its place, and its chain is not empty.                   *)
LEMMA Placed ==
  ASSUME LoadInv, TableInv, NEW e \in AllEntries
  PROVE  /\ Place(e) \in 0..(num_buckets - 1) /\ Place(e) \in DOMAIN chain
         /\ e \in chain[Place(e)]
<1>1. Place(e) \in 0..(num_buckets - 1)
  BY HashBelow, Buckets DEF Place, TableInv, EntryType
<1> QED
  BY <1>1 DEF TableInv, Spread, Place

(* The next entry is one that has not been returned, and is then behind.   *)
LEMMA NextIsNew ==
  ASSUME LoadInv, TableInv, EachInv, owner # NULL, UNCHANGED table,
         NEW a \in Ahead, NEW e \in a.rest, each' = [a EXCEPT !.rest = @ \ {e}]
  PROVE  /\ each' \in [bucket : Int, rest : SUBSET EntryType]
         /\ \A f \in each'.rest : f \in AllEntries /\ Place(f) = each'.bucket
         /\ e \in AllEntries \ Behind
         /\ \A f \in AllEntries :
              (\/ Place(f) < each'.bucket
               \/ Place(f) = each'.bucket /\ f \notin each'.rest)
              <=> f \in Behind \cup {e}
<1>1. \A f \in AllEntries : Place(f) \in Int
  BY Placed
<1>2. CASE each.rest # {}
  <2>1. a = each
    BY <1>2 DEF Ahead
  <2>2. /\ each \in [bucket : Int, rest : SUBSET EntryType]
        /\ each' = [each EXCEPT !.rest = @ \ {e}] /\ e \in each.rest
    BY <2>1 DEF EachInv
  <2>3. each'.bucket = each.bucket /\ each'.rest = each.rest \ {e}
    BY <2>2
  <2>4. e \in AllEntries /\ Place(e) = each.bucket
    BY <2>2 DEF EachInv, Iterating
  <2>5. each' \in [bucket : Int, rest : SUBSET EntryType]
    <3>1. each.rest \ {e} \in SUBSET EntryType
      BY <2>2
    <3> QED
      BY <2>2, <3>1
  <2>6. \A f \in each'.rest : f \in AllEntries /\ Place(f) = each'.bucket
    BY <2>3 DEF EachInv, Iterating
  <2>7. e \notin Behind
    BY <1>1, <2>2, <2>4 DEF Behind
  <2>8. ASSUME NEW f \in AllEntries
        PROVE  (\/ Place(f) < each'.bucket
                \/ Place(f) = each'.bucket /\ f \notin each'.rest)
               <=> f \in Behind \cup {e}
    BY <2>3, <2>4 DEF Behind
  <2> QED
    BY <2>4, <2>5, <2>6, <2>7, <2>8
<1>3. CASE each.rest = {}
  <2>1. PICK b \in NonEmpty : /\ \A d \in NonEmpty : b <= d
                              /\ a = [bucket |-> b, rest |-> chain[b]]
    BY <1>3 DEF Ahead, NextChain
  <2>2. b \in 0..(num_buckets - 1) /\ b > each.bucket
        /\ chain[b] = {f \in AllEntries : Place(f) = b}
    BY <2>1 DEF NonEmpty, TableInv, Spread, Place
  <2>3. each' = [bucket |-> b, rest |-> chain[b] \ {e}] /\ e \in chain[b]
    BY <2>1
  <2>4. each.bucket \in Int
    BY DEF EachInv
  <2>5. ASSUME NEW f \in AllEntries, Place(f) < b PROVE Place(f) <= each.bucket
    <3>1. Place(f) \notin NonEmpty
      BY <1>1, <2>1, <2>2, <2>5
    <3> QED
      BY <1>1, <2>4, <3>1, Placed DEF NonEmpty
  <2>6. e \in AllEntries /\ Place(e) = b
    BY <2>2, <2>3
  <2>7. Behind = {f \in AllEntries : Place(f) <= each.bucket}
    BY <1>1, <1>3, <2>4 DEF Behind
  <2>8. each' \in [bucket : Int, rest : SUBSET EntryType]
    <3> DEFINE r == chain[b] \ {e}
    <3>1. b \in Int /\ r \in SUBSET EntryType
      BY <2>2 DEF TableInv
    <3>2. each' = [bucket |-> b, rest |-> r]
      BY <2>3
    <3> HIDE DEF r
    <3>3. [bucket |-> b, rest |-> r]
            \in [bucket : Int, rest : SUBSET EntryType]
      BY <3>1
    <3> QED
      BY <3>2, <3>3, Zenon
  <2> QED
    BY <1>1, <2>2, <2>3, <2>4, <2>5, <2>6, <2>7, <2>8
<1> QED
  BY <1>2, <1>3

(* At the end every key has been returned.                                 *)
LEMMA AllBehind ==
  ASSUME LoadInv, TableInv, EachInv, Ahead = {}
  PROVE  Behind = AllEntries
<1>1. each.rest = {} /\ NextChain = {} /\ each.bucket \in Int
  BY DEF Ahead, EachInv
<1>2. NonEmpty \in SUBSET Nat
  BY DEF NonEmpty, TableInv, Spread
<1>3. NonEmpty = {}
  <2>1. SUFFICES ASSUME NonEmpty # {} PROVE FALSE
    OBVIOUS
  <2>2. PICK m \in NonEmpty : \A k \in NonEmpty : m <= k
    BY <1>2, <2>1, Least
  <2> QED
    BY <1>1, <2>2 DEF NextChain
<1>4. ASSUME NEW e \in AllEntries PROVE Place(e) <= each.bucket
  BY <1>1, <1>3, Placed DEF NonEmpty
<1>5. \A e \in AllEntries : Place(e) \in Int
  BY Placed
<1> QED
  BY <1>1, <1>4, <1>5 DEF Behind

LEMMA EachVisit ==
  ASSUME LoadInv, TableInv, EachInv, NEW t \in Thread, owner = t,
         UNCHANGED table, NEW a \in Ahead, NEW e \in a.rest, Visit(a, e)
  PROVE  EachInv'
<1> DEFINE c == Canon(e.key)
<1>1. owner # NULL
  BY SizesAssumption
<1>2. /\ each' = [a EXCEPT !.rest = @ \ {e}] /\ visited' = Append(visited, c)
      /\ UNCHANGED <<owner, pc>>
  BY DEF Visit
<1>3. /\ each' \in [bucket : Int, rest : SUBSET EntryType]
      /\ \A f \in each'.rest : f \in AllEntries /\ Place(f) = each'.bucket
      /\ e \in AllEntries \ Behind
      /\ \A f \in AllEntries :
           (\/ Place(f) < each'.bucket
            \/ Place(f) = each'.bucket /\ f \notin each'.rest)
           <=> f \in Behind \cup {e}
  BY <1>1, <1>2, NextIsNew
<1>4. AllEntries' = AllEntries /\ \A f \in AllEntries : Place(f)' = Place(f)
  BY Untouched DEF table, Place, hash_value, hash_func, Canon,
                   hash_key_dup_lower_case
<1>5. Behind' = Behind \cup {e}
  BY <1>3, <1>4 DEF Behind
<1>6. c \in Index /\ \A f \in Behind : Canon(f.key) # c
  BY <1>3, CanonTwice DEF Behind, TableInv, EntryType, OneEach, hash_cmp
<1>7. visited \in Seq(Index) /\ visited' \in Seq(Index)
  BY <1>2, <1>6 DEF EachInv
<1>8. /\ DOMAIN visited' = 1..(Len(visited) + 1)
      /\ DOMAIN visited = 1..Len(visited)
      /\ visited'[Len(visited) + 1] = c
      /\ \A i \in 1..Len(visited) : visited'[i] = visited[i]
      /\ Len(visited) \in Nat
  BY <1>2, <1>6, <1>7
<1>9. {visited[i] : i \in DOMAIN visited} = {Canon(f.key) : f \in Behind}
  BY <1>1 DEF EachInv, Iterating
<1> HIDE DEF c
<1>10. \A i \in DOMAIN visited : visited[i] # c
  BY <1>6, <1>9
<1>11. \A i, j \in DOMAIN visited' : visited'[i] = visited'[j] => i = j
  <2>1. \A i, j \in DOMAIN visited : visited[i] = visited[j] => i = j
    BY <1>1 DEF EachInv, Iterating
  <2>2. \A i \in 1..(Len(visited) + 1) :
           i \in 1..Len(visited) \/ i = Len(visited) + 1
    BY <1>8
  <2> QED
    BY <1>8, <1>10, <2>1, <2>2
<1>12. {visited'[i] : i \in DOMAIN visited'}
         = {visited[i] : i \in DOMAIN visited} \cup {c}
  <2>1. 1..(Len(visited) + 1) = 1..Len(visited) \cup {Len(visited) + 1}
    BY <1>8
  <2> QED
    BY <1>8, <2>1
<1>13. {visited'[i] : i \in DOMAIN visited'} = {Canon(f.key) : f \in Behind'}
  BY <1>5, <1>9, <1>12 DEF c
<1>14. Iterating'
  <2>1. \A f \in each'.rest : f \in AllEntries' /\ Place(f)' = each'.bucket
    BY <1>3, <1>4
  <2>2. owner' \in Thread /\ pc'[owner'] = "each" /\ alive'
    BY <1>1, <1>2 DEF EachInv, Iterating, table
  <2> QED
    BY <1>11, <1>13, <2>1, <2>2 DEF Iterating, Canon, hash_key_dup_lower_case
<1> QED
  BY <1>3, <1>7, <1>14 DEF EachInv, EntryType, Index, Canon,
     hash_key_dup_lower_case

(* Nobody else moves the table under an iteration.                         *)
LEMMA EachKept ==
  ASSUME EachInv, UNCHANGED iteration,
         owner # NULL => UNCHANGED table /\ pc'[owner] = pc[owner]
  PROVE  EachInv'
<1>1. UNCHANGED <<owner, each, visited>>
  BY DEF iteration
<1>2. owner # NULL => Iterating'
  <2>1. SUFFICES ASSUME owner # NULL PROVE Iterating'
    OBVIOUS
  <2>2. /\ AllEntries' = AllEntries /\ Behind' = Behind
        /\ \A f \in AllEntries : Place(f)' = Place(f)
    BY <1>1, <2>1
       DEF table, AllEntries, Behind, Place, hash_value, hash_func, Canon,
           hash_key_dup_lower_case
  <2> QED
    BY <1>1, <2>1, <2>2
       DEF EachInv, Iterating, table, Canon, hash_key_dup_lower_case
<1> QED
  BY <1>1, <1>2 DEF EachInv, EntryType, Index, Canon, hash_key_dup_lower_case

LEMMA EachBegins ==
  ASSUME LoadInv, TableInv, EachInv, NEW t \in Thread, EachLock(t)
  PROVE  EachInv'
<1>1. /\ owner' = t /\ each' = NoEach /\ visited' = << >> /\ alive'
      /\ pc' = [pc EXCEPT ![t] = "each"] /\ UNCHANGED table
  BY DEF EachLock, Goto, Locked, table
<1>2. AllEntries' = AllEntries /\ \A f \in AllEntries : Place(f)' = Place(f)
  BY <1>1 DEF table, AllEntries, Place, hash_value, hash_func, Canon,
              hash_key_dup_lower_case
<1>3. Behind' = {}
  <2>1. each'.bucket = -1
    BY <1>1 DEF NoEach
  <2>2. \A f \in AllEntries : ~(Place(f) <= -1) /\ Place(f) \in Int
    BY Placed
  <2> QED
    BY <1>2, <2>1, <2>2 DEF Behind
<1>4. Iterating'
  <2>1. owner' \in Thread /\ pc'[owner'] = "each"
    BY <1>1 DEF LoadInv, LoadType
  <2>2. each'.rest = {} /\ DOMAIN visited' = {}
    BY <1>1 DEF NoEach
  <2>3. Iterating' <=>
          /\ owner' \in Thread /\ pc'[owner'] = "each" /\ alive'
          /\ \A e \in each'.rest :
                e \in AllEntries' /\ Place(e)' = each'.bucket
          /\ \A i, j \in DOMAIN visited' : visited'[i] = visited'[j] => i = j
          /\ {visited'[i] : i \in DOMAIN visited'}
               = {Canon(e.key) : e \in Behind'}
    BY DEF Iterating, Canon, hash_key_dup_lower_case
  <2> QED
    BY <1>1, <1>3, <2>1, <2>2, <2>3
<1>5. /\ each' \in [bucket : Int, rest : SUBSET EntryType]
      /\ visited' \in Seq(Index)
  BY <1>1 DEF NoEach
<1> QED
  BY <1>4, <1>5 DEF EachInv, EntryType, Index, Canon, hash_key_dup_lower_case

LEMMA EachNext ==
  ASSUME LoadInv, TableInv, EachInv, NEW t \in Thread, cfuhash_next_data(t)
  PROVE  EachInv'
<1>1. owner = t /\ UNCHANGED table
  BY DEF cfuhash_next_data
<1>2. CASE EachEnd(t)
  <2>1. owner' = NULL /\ each' = NoEach /\ visited' = << >>
    BY <1>2 DEF EachEnd
  <2>2. NoEach \in [bucket : Int, rest : SUBSET EntryType]
    BY DEF NoEach
  <2> QED
    BY <2>1, <2>2 DEF EachInv, EntryType, Index, Canon, hash_key_dup_lower_case
<1> QED
  BY <1>1, <1>2, EachVisit DEF cfuhash_next_data

LEMMA EachStep ==
  ASSUME LoadInv, TableInv, EachInv, [Next]_vars
  PROVE  EachInv'
<1>1. ASSUME UNCHANGED iteration, owner = NULL PROVE EachInv'
  BY <1>1, EachKept
<1>2. ASSUME NEW t \in Thread, UNCHANGED <<iteration, table>>,
             pc[t] # "each", UNCHANGED pc \/ \E c : pc' = [pc EXCEPT ![t] = c]
      PROVE  EachInv'
  <2>1. owner # NULL => owner \in Thread /\ pc[owner] = "each"
    BY DEF EachInv, Iterating
  <2>2. owner # NULL => pc'[owner] = pc[owner]
    BY <1>2, <2>1 DEF LoadInv, LoadType
  <2> QED
    BY <1>2, <2>2, EachKept DEF table
<1>3. CASE UNCHANGED vars
  BY <1>3, EachKept DEF vars, threads
<1>4. ASSUME NEW t \in Thread,
             \/ \E k \in Key : \/ cfuhash_get_data(t, k) \/ cfuhash_delete_data(t, k)
                               \/ \E v \in Value : cfuhash_put_data(t, k, v)
             \/ \E R \in SUBSET AllEntries : cfuhash_foreach_remove(t, R)
             \/ cfuhash_foreach(t) \/ cfuhash_clear(t) \/ cfuhash_rehash(t)
             \/ cfuhash_keys_data(t) \/ CopyKeys(t)
             \/ \E k \in Index : CopyOne(t, k)
      PROVE  EachInv'
  <2>1. owner = NULL /\ UNCHANGED iteration
    BY <1>4
       DEF cfuhash_get_data, cfuhash_delete_data, cfuhash_put_data,
           cfuhash_foreach_remove, cfuhash_foreach, cfuhash_clear,
           cfuhash_rehash, cfuhash_keys_data, CopyKeys, CopyOne, Locked
  <2> QED
    BY <1>1, <2>1
<1>5. ASSUME NEW t \in Thread, ReadEntries(t) \/ ReadBuckets(t) \/ CopyEnd(t)
      PROVE  EachInv'
  <2>1. /\ UNCHANGED <<iteration, table>> /\ pc[t] # "each"
        /\ \E c : pc' = [pc EXCEPT ![t] = c]
    BY <1>5 DEF ReadEntries, ReadBuckets, Read, CopyEnd, Goto
  <2> QED
    BY <1>2, <2>1
<1>6. CASE cfuhash_destroy \/ cfuhash_new
  <2>1. owner = NULL
    BY <1>6 DEF cfuhash_destroy, cfuhash_new, EachInv, Iterating
  <2> QED
    BY <1>1, <1>6, <2>1 DEF cfuhash_destroy, cfuhash_new
<1> QED
  BY <1>3, <1>4, <1>5, <1>6, EachBegins, EachNext DEF Next

THEOREM EachInvariance == Spec => []EachInv
<1>1. Init => EachInv
  BY DEF Init, EachInv, NoEach
<1> QED
  BY <1>1, EachStep, Invariance, TableInvariance, PTL DEF Spec

-----------------------------------------------------------------------------
(* The map.  Its value for a key is the data of the key's entry.           *)
Map == [k \in Index |-> IF Found(k) THEN Entry(k).data ELSE NULL]

MapFits(F) ==
  /\ F \in [Index -> Value \cup {NULL}]
  /\ \A e \in AllEntries : F[Canon(e.key)] = e.data
  /\ \A k \in Index : ~Has(k) => F[k] = NULL

LEMMA MapValue == LoadInv /\ TableInv => MapFits(Map)
<1> SUFFICES ASSUME LoadInv, TableInv PROVE MapFits(Map)
  OBVIOUS
<1>1. ASSUME NEW e \in AllEntries
      PROVE  Canon(e.key) \in Index /\ Map[Canon(e.key)] = e.data
  <2>1. e.key \in Key /\ Canon(e.key) \in Index
    BY CanonTwice DEF TableInv, EntryType
  <2>2. Found(Canon(e.key))
    BY <2>1, FoundHas DEF Has
  <2>3. Entry(Canon(e.key)) \in AllEntries
        /\ Canon(Entry(Canon(e.key)).key) = Canon(e.key)
    BY <2>1, <2>2, Lookup, CanonTwice
  <2>4. Entry(Canon(e.key)) = e
    BY <2>3 DEF TableInv, OneEach, hash_cmp
  <2> QED
    BY <2>1, <2>2, <2>4 DEF Map
<1>2. \A k \in Index : ~Has(k) => Map[k] = NULL
  BY FoundHas DEF Map
<1>3. \A k \in Index : Has(k) => Map[k] \in Value
  BY <1>1 DEF Has, TableInv, EntryType
<1>4. Map \in [Index -> Value \cup {NULL}]
  BY <1>2, <1>3 DEF Map
<1> QED
  BY <1>1, <1>2, <1>4 DEF MapFits

LEMMA MapValueNext == (LoadInv /\ TableInv => MapFits(Map))'
BY MapValue, PTL

(* One function at most fits a table.                                      *)
LEMMA MapIsNext ==
  ASSUME LoadInv', TableInv', NEW F, F \in [Index -> Value \cup {NULL}],
         \A e \in AllEntries' : F[Canon(e.key)] = e.data,
         \A k \in Index : (\A e \in AllEntries' : Canon(e.key) # k) => F[k] = NULL
  PROVE  Map' = F
<1>1. /\ Map' \in [Index -> Value \cup {NULL}]
      /\ \A e \in AllEntries' : Map'[Canon(e.key)] = e.data
      /\ \A k \in Index :
           (\A e \in AllEntries' : Canon(e.key) # k) => Map'[k] = NULL
  BY MapValueNext DEF MapFits, Has, Index, Canon, hash_key_dup_lower_case
<1>2. \A k \in Index : Map'[k] = F[k]
  BY <1>1
<1> QED
  BY <1>1, <1>2

(* The same entries, the same map.                                         *)
LEMMA MapKept ==
  ASSUME LoadInv, TableInv, LoadInv', TableInv', AllEntries' = AllEntries
  PROVE  Map' = Map
<1>1. MapFits(Map)
  BY MapValue
<1> QED
  BY <1>1, MapIsNext DEF MapFits, Has

(* Without the entries of R, the map without their keys.                   *)
LEMMA MapWithout ==
  ASSUME LoadInv, TableInv, LoadInv', TableInv',
         NEW R \in SUBSET AllEntries, AllEntries' = AllEntries \ R
  PROVE  Map' = [k \in Index |-> IF k \in {Canon(e.key) : e \in R} THEN NULL
                                 ELSE Map[k]]
<1> DEFINE S == {Canon(e.key) : e \in R}
           F == [k \in Index |-> IF k \in S THEN NULL ELSE Map[k]]
<1>1. MapFits(Map)
  BY MapValue
<1>2. F \in [Index -> Value \cup {NULL}]
  BY <1>1 DEF MapFits
<1>3. ASSUME NEW e \in AllEntries' PROVE F[Canon(e.key)] = e.data
  <2>1. Canon(e.key) \notin S
    BY DEF TableInv, OneEach, hash_cmp
  <2>2. Canon(e.key) \in Index
    BY CanonTwice DEF TableInv, EntryType
  <2> QED
    BY <1>1, <2>1, <2>2 DEF MapFits
<1>4. \A k \in Index : (\A e \in AllEntries' : Canon(e.key) # k) => F[k] = NULL
  BY <1>1 DEF MapFits, Has
<1> HIDE DEF F
<1>5. Map' = F
  BY <1>2, <1>3, <1>4, MapIsNext
<1> QED
  BY <1>5 DEF F

(* What a lookup returns is the value of the map.                          *)
LEMMA LookupMap ==
  ASSUME LoadInv, TableInv, NEW k \in Key
  PROVE  /\ (IF Found(k) THEN Entry(k).data ELSE NULL) = Map[Canon(k)]
         /\ Found(k) <=> Has(Canon(k))
         /\ Canon(k) \in Index
<1>1. MapFits(Map)
  BY MapValue
<1>2. Found(k) <=> Has(Canon(k))
  BY Lookup DEF Found, Has, hash_cmp
<1>3. Canon(k) \in Index
  BY CanonTwice
<1>4. Found(k) => Entry(k).data = Map[Canon(k)]
  BY <1>1, Lookup DEF MapFits
<1> QED
  BY <1>1, <1>2, <1>3, <1>4 DEF MapFits

(* The keys of the map are those of the entries, and are as many.          *)
LEMMA MapKeys ==
  ASSUME LoadInv, TableInv
  PROVE  /\ {k \in Index : Map[k] # NULL} = {Canon(e.key) : e \in AllEntries}
         /\ IsFiniteSet({k \in Index : Map[k] # NULL})
         /\ Cardinality({k \in Index : Map[k] # NULL}) = Cardinality(AllEntries)
<1> DEFINE K == {k \in Index : Map[k] # NULL}
           f == [e \in AllEntries |-> Canon(e.key)]
<1>1. MapFits(Map)
  BY MapValue
<1>2. \A e \in AllEntries : Canon(e.key) \in Index /\ e.data # NULL
  BY CanonTwice, KeyAssumption DEF TableInv, EntryType
<1>3. K = {Canon(e.key) : e \in AllEntries}
  BY <1>1, <1>2 DEF MapFits, Has
<1>4. f \in Bijection(AllEntries, K)
  <2>1. \A e, g \in AllEntries : Canon(e.key) = Canon(g.key) => e = g
    BY DEF TableInv, OneEach, hash_cmp
  <2> HIDE DEF K
  <2> QED
    BY <1>3, <2>1 DEF Bijection, Injection, Surjection, IsInjective
<1>5. ExistsBijection(AllEntries, K)
  BY <1>4 DEF ExistsBijection
<1> HIDE DEF K
<1>6. IsFiniteSet(K) /\ Cardinality(K) = Cardinality(AllEntries)
  BY <1>5, FS_Bijection DEF TableInv
<1> QED
  BY <1>3, <1>6 DEF K

(* Lists of entries are lists of keys.                                     *)
LEMMA KeysListed ==
  ASSUME LoadInv, TableInv, NEW n \in Nat, NEW s \in ListsOf(AllEntries, n)
  PROVE  KeysOf(s) \in ListsOf({k \in Index : Map[k] # NULL}, n)
<1> DEFINE K == {k \in Index : Map[k] # NULL}
<1>1. K = {Canon(e.key) : e \in AllEntries}
  BY MapKeys
<1>2. s \in [1..n -> AllEntries] /\ \A i, j \in 1..n : s[i] = s[j] => i = j
  BY DEF ListsOf
<1>3. \A e, g \in AllEntries : Canon(e.key) = Canon(g.key) => e = g
  BY DEF TableInv, OneEach, hash_cmp
<1> HIDE DEF K
<1>4. KeysOf(s) \in [1..n -> K] /\ \A i \in 1..n : KeysOf(s)[i] = Canon(s[i].key)
  BY <1>1, <1>2 DEF KeysOf
<1>5. \A i, j \in 1..n : KeysOf(s)[i] = KeysOf(s)[j] => i = j
  BY <1>2, <1>3, <1>4
<1> QED
  BY <1>4, <1>5 DEF ListsOf, K

(* A finished iteration has returned a list of all keys.                   *)
LEMMA AllVisited ==
  ASSUME LoadInv, TableInv, EachInv, owner # NULL, Ahead = {}
  PROVE  LET K == {k \in Index : Map[k] # NULL}
         IN  visited \in ListsOf(K, Cardinality(K))
<1> DEFINE K == {k \in Index : Map[k] # NULL}
           n == Len(visited)
<1>1. K = {Canon(e.key) : e \in AllEntries}
  BY MapKeys
<1>2. K = {visited[i] : i \in DOMAIN visited}
  BY <1>1, AllBehind DEF EachInv, Iterating
<1>3. n \in Nat /\ DOMAIN visited = 1..n /\ visited \in [1..n -> Index]
  BY DEF EachInv
<1>4. \A i, j \in 1..n : visited[i] = visited[j] => i = j
  BY <1>3 DEF EachInv, Iterating
<1> HIDE DEF K, n
<1>5. visited \in [1..n -> K]
  BY <1>2, <1>3
<1>6. visited \in Bijection(1..n, K)
  BY <1>2, <1>3, <1>4, <1>5 DEF Bijection, Injection, Surjection, IsInjective
<1>7. ExistsBijection(1..n, K)
  BY <1>6 DEF ExistsBijection
<1>8. IsFiniteSet(1..n) /\ Cardinality(1..n) = n
  BY <1>3, FS_Interval
<1>9. Cardinality(K) = n
  BY <1>7, <1>8, FS_Bijection
<1> QED
  BY <1>4, <1>5, <1>9 DEF ListsOf, K

(* The actions of the map, in terms of Map.                                *)
LEMMA DictActions ==
  /\ \A k : Dict!Get(k) <=> result' = Map[k] /\ Map' = Map
  /\ \A k, v : Dict!Put(k, v) <=> /\ result' = IF HasFreeFn THEN NULL ELSE Map[k]
                                  /\ Map' = [Map EXCEPT ![k] = v]
  /\ \A k : Dict!Delete(k) <=> /\ result' = IF HasFreeFn THEN NULL ELSE Map[k]
                               /\ Map' = [Map EXCEPT ![k] = NULL]
  /\ Dict!RemoveSome <=>
       /\ result' = NULL
       /\ \E S \in SUBSET Index :
             Map' = [k \in Index |-> IF k \in S THEN NULL ELSE Map[k]]
  /\ Dict!Take <=> result' = NULL /\ Map' = Map
BY DEF Dict!Get, Dict!Put, Dict!Delete, Dict!RemoveSome, Dict!Take, Dict!Old, Map

LEMMA DictLists ==
  LET K == {k \in Index : Map[k] # NULL}
  IN  /\ Dict!ListAll <=> /\ \E s \in ListsOf(K, Cardinality(K)) : result' = s
                          /\ Map' = Map
      /\ Dict!ListSome <=>
           /\ \E n \in 0..Cardinality(K) :
                \E s \in ListsOf(K, n) : result' = <<"first", s>>
           /\ Map' = Map
<1> DEFINE K == {k \in Index : Map[k] # NULL}
<1>1. Dict!Keys = K
  BY DEF Dict!Keys, Map
<1>2. \A S, n : Dict!ListsOf(S, n) = ListsOf(S, n)
  BY DEF Dict!ListsOf, ListsOf
<1>3. \A S : Dict!Cardinality(S) = Cardinality(S)
  BY DEF Dict!Cardinality, Cardinality
<1> HIDE DEF K
<1>4. Dict!ListAll <=> /\ \E s \in ListsOf(K, Cardinality(K)) : result' = s
                       /\ Map' = Map
  BY <1>1, <1>2, <1>3 DEF Dict!ListAll, Map
<1>5. Dict!ListSome <=> /\ \E n \in 0..Cardinality(K) :
                             \E s \in ListsOf(K, n) : result' = <<"first", s>>
                        /\ Map' = Map
  BY <1>1, <1>2, <1>3 DEF Dict!ListSome, Map
<1> QED
  BY <1>4, <1>5 DEF K

MapAssumed ==
  /\ LoadInv /\ TableInv /\ EachInv
  /\ LoadInv' /\ TableInv'

LEMMA MapPut ==
  ASSUME MapAssumed, NEW t \in Thread, NEW k \in Key, NEW v \in Value,
         cfuhash_put_data(t, k, v)
  PROVE  Dict!Put(Canon(k), v)
<1> DEFINE F == [Map EXCEPT ![Canon(k)] = v]
<1>1. alive /\ UNCHANGED <<num_buckets, uncounted, alive>>
  BY DEF cfuhash_put_data, Locked
<1>2. MapFits(Map) /\ Canon(k) \in Index
  BY MapValue, LookupMap DEF MapAssumed
<1>3. result' = IF HasFreeFn THEN NULL ELSE Map[Canon(k)]
  BY LookupMap
     DEF MapAssumed, cfuhash_put_data, PutNew, PutOld, Returns, GivenBack
<1>4. F \in [Index -> Value \cup {NULL}]
  BY <1>2 DEF MapFits
<1>5. \E e \in AllEntries' : /\ Canon(e.key) = Canon(k) /\ e.data = v
                             /\ \A f \in AllEntries' : f = e \/ f \in AllEntries
                             /\ \A f \in AllEntries :
                                  f \in AllEntries' \/ Canon(f.key) = Canon(k)
  <2>1. CASE PutNew(t, k, v)
    <3>1. AllEntries' = AllEntries \cup {[key |-> k, data |-> v]}
      BY <1>1, <2>1, AddedOne DEF PutNew, MapAssumed
    <3> QED
      BY <3>1
  <2>2. CASE PutOld(t, k, v)
    <3> DEFINE o == Entry(k)
               e == [Entry(k) EXCEPT !.data = v]
    <3>1. AllEntries' = (AllEntries \ {o}) \cup {e}
      BY <1>1, <2>2, ReplacedOne DEF MapAssumed
    <3>2. o \in EntryType /\ Canon(o.key) = Canon(k)
      BY <2>2, Lookup DEF PutOld, MapAssumed, TableInv
    <3>3. e.key = o.key /\ e.data = v
      BY <3>2 DEF EntryType
    <3> HIDE DEF o, e
    <3> QED
      BY <3>1, <3>2, <3>3
  <2> QED
    BY <2>1, <2>2 DEF cfuhash_put_data
<1>6. PICK e \in AllEntries' : /\ Canon(e.key) = Canon(k) /\ e.data = v
                               /\ \A f \in AllEntries' : f = e \/ f \in AllEntries
                               /\ \A f \in AllEntries :
                                    f \in AllEntries' \/ Canon(f.key) = Canon(k)
  BY <1>5
<1>7. \A f, g \in AllEntries' : Canon(f.key) = Canon(g.key) => f = g
  BY DEF MapAssumed, TableInv, OneEach, hash_cmp, Canon, hash_key_dup_lower_case
<1>8. ASSUME NEW f \in AllEntries' PROVE F[Canon(f.key)] = f.data
  <2>1. CASE f = e
    BY <1>2, <1>6, <2>1 DEF MapFits
  <2>2. CASE f # e
    <3>1. f \in AllEntries /\ Canon(f.key) # Canon(k)
      BY <1>6, <1>7, <2>2
    <3>2. Canon(f.key) \in Index
      BY <3>1, CanonTwice DEF MapAssumed, TableInv, EntryType
    <3> QED
      BY <1>2, <3>1, <3>2 DEF MapFits
  <2> QED
    BY <2>1, <2>2
<1>9. ASSUME NEW c \in Index, \A f \in AllEntries' : Canon(f.key) # c
      PROVE  F[c] = NULL
  <2>1. c # Canon(k) /\ ~Has(c)
    BY <1>6, <1>9 DEF Has
  <2> QED
    BY <1>2, <2>1 DEF MapFits
<1> HIDE DEF F
<1>10. Map' = F
  BY <1>4, <1>8, <1>9, MapIsNext DEF MapAssumed
<1> QED
  BY <1>3, <1>10, DictActions DEF F

LEMMA MapDelete ==
  ASSUME MapAssumed, NEW t \in Thread, NEW k \in Key, cfuhash_delete_data(t, k)
  PROVE  Dict!Delete(Canon(k))
<1>1. MapFits(Map) /\ Canon(k) \in Index
  BY MapValue, LookupMap DEF MapAssumed
<1>2. result' = IF HasFreeFn THEN NULL ELSE Map[Canon(k)]
  BY LookupMap DEF MapAssumed, cfuhash_delete_data, Returns, GivenBack
<1>3. Map' = [Map EXCEPT ![Canon(k)] = NULL]
  <2>1. CASE Found(k)
    <3> DEFINE R == {Entry(k)}
    <3>1. /\ R \in SUBSET AllEntries /\ AllEntries' = AllEntries \ R
          /\ {Canon(e.key) : e \in R} = {Canon(k)}
      BY <2>1, DeletedOne, Lookup DEF MapAssumed
    <3> HIDE DEF R
    <3>2. Map' = [c \in Index |-> IF c \in {Canon(k)} THEN NULL ELSE Map[c]]
      BY <3>1, MapWithout DEF MapAssumed
    <3> QED
      BY <1>1, <3>2 DEF MapFits
  <2>2. CASE ~Found(k)
    <3>1. AllEntries' = AllEntries
      BY <2>2 DEF cfuhash_delete_data, AllEntries
    <3>2. Map' = Map
      BY <3>1, MapKept DEF MapAssumed
    <3>3. Map[Canon(k)] = NULL
      BY <2>2, LookupMap DEF MapAssumed
    <3> QED
      BY <1>1, <3>2, <3>3 DEF MapFits
  <2> QED
    BY <2>1, <2>2
<1> QED
  BY <1>2, <1>3, DictActions

(* What takes many away.                                                   *)
LEMMA MapRemoved ==
  ASSUME MapAssumed, NEW R \in SUBSET AllEntries, AllEntries' = AllEntries \ R,
         result' = NULL
  PROVE  Dict!RemoveSome
<1> DEFINE S == {Canon(e.key) : e \in R}
<1>1. Map' = [k \in Index |-> IF k \in S THEN NULL ELSE Map[k]]
  BY MapWithout DEF MapAssumed
<1>2. S \in SUBSET Index
  BY CanonTwice DEF MapAssumed, TableInv, EntryType
<1> HIDE DEF S
<1> QED
  BY <1>1, <1>2, DictActions

(* A step that returns nothing and keeps the entries is none of the map's. *)
LEMMA MapTake ==
  ASSUME MapAssumed, AllEntries' = AllEntries, ReturnsNothing
  PROVE  Dict!Take
BY MapKept, DictActions DEF MapAssumed, ReturnsNothing

LEMMA MapList ==
  ASSUME MapAssumed, NEW t \in Thread,
         cfuhash_keys_data(t) \/ cfuhash_foreach(t)
  PROVE  Dict!ListAll \/ Dict!ListSome
<1> DEFINE K == {k \in Index : Map[k] # NULL}
           n == Cardinality(AllEntries)
<1>1. Map' = Map
  <2>1. UNCHANGED table
    BY DEF cfuhash_keys_data, cfuhash_foreach
  <2> QED
    BY <2>1, Untouched, MapKept DEF MapAssumed
<1>2. Cardinality(K) = n /\ n \in Nat
  BY MapKeys, FS_CardinalityType DEF MapAssumed, TableInv
<1>3. CASE cfuhash_keys_data(t)
  <2>1. PICK s \in ListsOf(AllEntries, n) : result' = KeysOf(s)
    BY <1>3, ListedAll DEF cfuhash_keys_data, Returns, MapAssumed
  <2>2. KeysOf(s) \in ListsOf(K, n)
    BY <1>2, KeysListed DEF MapAssumed
  <2> HIDE DEF K, n
  <2>3. \E r \in ListsOf(K, Cardinality(K)) : result' = r
    BY <1>2, <2>1, <2>2
  <2> QED
    BY <1>1, <2>3, DictLists DEF K
<1>4. CASE cfuhash_foreach(t)
  <2>1. PICK m \in 0..n : \E s \in ListsOf(AllEntries, m) :
                             result' = <<"first", KeysOf(s)>>
    BY <1>4 DEF cfuhash_foreach, Returns
  <2>2. PICK s \in ListsOf(AllEntries, m) : result' = <<"first", KeysOf(s)>>
    BY <2>1
  <2>3. KeysOf(s) \in ListsOf(K, m)
    BY <1>2, KeysListed DEF MapAssumed
  <2> HIDE DEF K, n
  <2>4. \E p \in 0..Cardinality(K) : \E r \in ListsOf(K, p) : result' = <<"first", r>>
    BY <1>2, <2>2, <2>3
  <2> QED
    BY <1>1, <2>4, DictLists DEF K
<1> QED
  BY <1>3, <1>4

LEMMA MapIterate ==
  ASSUME MapAssumed, NEW t \in Thread, cfuhash_next_data(t)
  PROVE  Dict!Take \/ Dict!ListAll
<1>1. UNCHANGED table /\ owner # NULL
  BY SizesAssumption DEF cfuhash_next_data
<1>2. AllEntries' = AllEntries /\ Map' = Map
  BY <1>1, Untouched, MapKept DEF MapAssumed
<1>3. ASSUME NEW a, NEW e, Visit(a, e) PROVE Dict!Take
  BY <1>2, <1>3, MapTake DEF Visit
<1>4. ASSUME Ahead = {}, EachEnd(t) PROVE Dict!ListAll
  <2> DEFINE K == {k \in Index : Map[k] # NULL}
  <2>1. visited \in ListsOf(K, Cardinality(K)) /\ result' = visited
    BY <1>1, <1>4, AllVisited DEF MapAssumed, EachEnd, Returns
  <2> HIDE DEF K
  <2>2. \E r \in ListsOf(K, Cardinality(K)) : result' = r
    BY <2>1
  <2> QED
    BY <1>2, <2>2, DictLists DEF K
<1> QED
  BY <1>3, <1>4 DEF cfuhash_next_data

LEMMA MapCopyOne ==
  ASSUME MapAssumed, NEW t \in Thread, NEW k \in Index, CopyOne(t, k)
  PROVE  Dict!Get(k)
<1>1. k \in Key /\ Canon(k) = k /\ UNCHANGED table
  BY CanonTwice DEF CopyOne
<1>2. result' = Map[k]
  BY <1>1, LookupMap DEF MapAssumed, CopyOne, Returns
<1>3. Map' = Map
  BY <1>1, Untouched, MapKept DEF MapAssumed
<1> QED
  BY <1>2, <1>3, DictActions

LEMMA MapGet ==
  ASSUME MapAssumed, NEW t \in Thread, NEW k \in Key, cfuhash_get_data(t, k)
  PROVE  Dict!Get(Canon(k))
<1>1. UNCHANGED table /\ result' = Map[Canon(k)]
  BY LookupMap DEF MapAssumed, cfuhash_get_data, Returns
<1>2. Map' = Map
  BY <1>1, Untouched, MapKept DEF MapAssumed
<1> QED
  BY <1>1, <1>2, DictActions

LEMMA MapRest ==
  ASSUME MapAssumed,
         \/ \E t \in Thread :
              \/ \E R \in SUBSET AllEntries : cfuhash_foreach_remove(t, R)
              \/ cfuhash_clear(t) \/ ReadEntries(t) \/ ReadBuckets(t)
              \/ cfuhash_rehash(t) \/ EachLock(t) \/ CopyKeys(t) \/ CopyEnd(t)
         \/ cfuhash_destroy \/ cfuhash_new
  PROVE  Dict!RemoveSome \/ Dict!Take
<1>1. ASSUME NEW t \in Thread, NEW R \in SUBSET AllEntries,
             cfuhash_foreach_remove(t, R)
      PROVE  Dict!RemoveSome
  <2>1. AllEntries' = AllEntries \ R /\ result' = NULL
    BY <1>1, RemovedByFunction
       DEF MapAssumed, cfuhash_foreach_remove, ReturnsNothing
  <2> QED
    BY <2>1, MapRemoved
<1>2. ASSUME cfuhash_destroy \/ \E t \in Thread : cfuhash_clear(t)
      PROVE  Dict!RemoveSome
  <2>1. AllEntries' = {} /\ result' = NULL
    BY <1>2, Emptied, Buckets
       DEF MapAssumed, cfuhash_clear, cfuhash_destroy, ReturnsNothing
  <2> QED
    BY <2>1, MapRemoved
<1>3. ASSUME cfuhash_new PROVE Dict!Take
  <2>1. AllEntries = {} /\ ReturnsNothing
    BY <1>3 DEF cfuhash_new, MapAssumed, TableInv
  <2>2. AllEntries' = {}
    BY <1>3 DEF cfuhash_new, AllEntries, Empty
  <2> QED
    BY <2>1, <2>2, MapTake
<1>4. ASSUME NEW t \in Thread, cfuhash_rehash(t) PROVE Dict!Take
  BY <1>4, Rehashed, MapTake DEF MapAssumed, cfuhash_rehash
<1>5. ASSUME NEW t \in Thread,
             \/ ReadEntries(t) \/ ReadBuckets(t)
             \/ EachLock(t) \/ CopyKeys(t) \/ CopyEnd(t)
      PROVE  Dict!Take
  <2>1. UNCHANGED table /\ ReturnsNothing
    BY <1>5 DEF ReadEntries, ReadBuckets, Read, EachLock, CopyKeys, CopyEnd
  <2> QED
    BY <2>1, Untouched, MapTake DEF MapAssumed
<1> QED
  BY <1>1, <1>2, <1>3, <1>4, <1>5

LEMMA MapStep ==
  ASSUME MapAssumed, [Next]_vars
  PROVE  [Dict!Next]_(Dict!dictVars)
<1>1. CASE UNCHANGED vars
  <2>1. Map' = Map
    BY <1>1, Untouched, MapKept DEF MapAssumed, vars
  <2> QED
    BY <1>1, <2>1 DEF Dict!dictVars, Map, vars
<1>2. CASE Next
  <2>1. \A k \in Key : Canon(k) \in Index
    BY CanonTwice
  <2>2. Dict!Next
    BY <1>2, <2>1, MapPut, MapDelete, MapGet, MapList, MapIterate, MapCopyOne,
       MapRest DEF Next, Dict!Next
  <2> QED
    BY <2>2
<1> QED
  BY <1>1, <1>2

(* The table is a map: whatever the threads do, every operation has the    *)
(* effect and the answer it has on a map, at one moment, and growing,      *)
(* shrinking and iterating change nothing (cfuhash.h:134).                  *)
THEOREM IsADictionary == Spec => MapSpec
<1>1. Init => Dict!Init
  <2>1. Init => TableInv /\ LoadInv
    BY InitTable, InitLoadInv
  <2>2. Init => AllEntries = {} /\ result = NULL
    BY DEF Init, AllEntries, Empty
  <2>3. Init => Map = [k \in Index |-> NULL]
    BY <2>1, <2>2, FoundHas DEF Map, Has
  <2> QED
    BY <2>2, <2>3 DEF Dict!Init, Map
<1>2. ASSUME LoadInv, TableInv, EachInv, LoadInv', TableInv', [Next]_vars
      PROVE  [Dict!Next]_(Dict!dictVars)
  BY <1>2, MapStep DEF MapAssumed
<1> QED
  BY <1>1, <1>2, Invariance, TableInvariance, EachInvariance, PTL
     DEF Spec, MapSpec, Dict!Spec

=============================================================================
