--------------------------- MODULE PrivateCaches ----------------------------
(***************************************************************************)
(* What paging, sharing and eviction of KV-cache blocks must not show: as  *)
(* if each request had a cache of its own, which holds the keys and values *)
(* of its first tokens and nothing else, grows, and is given up at once.   *)
(***************************************************************************)
EXTENDS Naturals, Sequences

CONSTANTS
  Req,       \* the requests
  Text       \* Text[r] is all the tokens r will ever have

VARIABLE kv  \* kv[r][i] is what attention sees at position i of request r

\* The keys and values of a token depend on all the tokens up to it.
KeysAndValues(r, i) == SubSeq(Text[r], 1, i)

OfItsFirst(r, n) == [i \in 1 .. n |-> KeysAndValues(r, i)]

Init == kv = [r \in Req |-> <<>>]

Grows(r) == \E n \in Len(kv[r]) .. Len(Text[r]) : kv'[r] = OfItsFirst(r, n)
GivenUp(r) == kv'[r] = <<>>

Next == \A r \in Req : Grows(r) \/ GivenUp(r)

Spec == Init /\ [][Next]_kv
=============================================================================
