--------------------------- MODULE UcliDictionary ---------------------------
(***************************************************************************)
(* ucli-dictionary.c: names and functions in buckets of a fixed size.  A   *)
(* pair goes into the first slot without function; slots never become free *)
(* again but by ucli_dictionary_init.                                      *)
(***************************************************************************)
EXTENDS Integers, Sequences

CONSTANTS Functions, NoFunction,
          BucketsN, BucketsSize,
          Hash(_)              \* __murmur3_32 of a key

ASSUME DictionaryAssumption ==
  /\ BucketsN \in Nat \ {0} /\ BucketsSize \in Nat \ {0}
  /\ NoFunction \notin Functions

VARIABLE buckets

EmptySlot == [key |-> << >>, function |-> NoFunction]

DictionaryEmpty ==
  [b \in 0 .. (BucketsN - 1) |-> [i \in 1 .. BucketsSize |-> EmptySlot]]

BucketOf(key) == Hash(key) % BucketsN

First(slots) == CHOOSE i \in slots : \A j \in slots : i <= j

FreeSlots(key) ==
  { i \in 1 .. BucketsSize : buckets[BucketOf(key)][i].function = NoFunction }

SlotsOf(key) ==
  { i \in 1 .. BucketsSize : buckets[BucketOf(key)][i].key = key }

(* ucli_dictionary_add; with no slot free it returns FULL.                 *)
Add(key, function) ==
  buckets' = IF FreeSlots(key) = {} THEN buckets
             ELSE [buckets EXCEPT ![BucketOf(key)][First(FreeSlots(key))] =
                     [key |-> key, function |-> function]]

ContainsKey(key) == SlotsOf(key) # {}

(* Bug: the pair that was added last is found.                             *)
GetLast(key) ==
  buckets[BucketOf(key)][CHOOSE i \in SlotsOf(key) :
                           \A j \in SlotsOf(key) : i >= j].function

Get(key) == buckets[BucketOf(key)][First(SlotsOf(key))].function
=============================================================================
