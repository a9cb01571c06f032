-------------------------- MODULE DescriptorCache --------------------------
(***************************************************************************)
(* src/descriptor-cache.ts: a least recently used cache of descriptors by  *)
(* their semantic digest, bounded by entries and by bytes.  It is shared   *)
(* by every run that is given it.                                          *)
(*                                                                         *)
(* The quarantine of corrupt entries is not modelled: entries are frozen   *)
(* and every descriptor handed out is a fresh decoding, so no caller can   *)
(* change one, and equal digests mean equal bytes.                         *)
(***************************************************************************)
EXTENDS Naturals, Sequences, FiniteSets, SequencesExt

CONSTANTS Digests, Size, MaxEntries, MaxBytes
ASSUME CacheAssumption ==
    /\ Size \in [Digests -> Nat \ {0}]
    /\ MaxEntries \in Nat \ {0} /\ MaxBytes \in Nat \ {0}

VARIABLE cache    \* [entries |-> digests, oldest first; storedBytes]

CacheInit == cache = [entries |-> <<>>, storedBytes |-> 0]

Cached(d) == \E i \in 1 .. Len(cache.entries) : cache.entries[i] = d

(* canonicalBytes.byteLength > maxBytes *)
TooLarge(d) == Size[d] > MaxBytes

(* The bytes of the entries, told apart by digest and place, and their     *)
(* number: entries is a Map, so no digest is counted twice.                *)
BytesOf(entries) ==
    UNION {{entries[i]} \X (1 .. Size[entries[i]]) : i \in DOMAIN entries}
SizeOf(entries) == Cardinality(BytesOf(entries))

(* delete, then set: the entry becomes the newest *)
Touched(c, d) ==
    LET at == CHOOSE i \in DOMAIN c.entries : c.entries[i] = d
    IN  [c EXCEPT !.entries = Append(RemoveAt(@, at), d)]

(* Variant with a bug: the byte quota is forgotten, and one entry goes at most. *)
evictToQuota_EntriesOnly(c) ==
    IF Len(c.entries) > MaxEntries
    THEN [entries |-> Tail(c.entries), storedBytes |-> c.storedBytes - Size[Head(c.entries)]]
    ELSE c

(* while over a quota, drop the oldest: the fewest that must go *)
evictToQuota(c) ==
    LET Left(n) == [entries |-> SubSeq(c.entries, n + 1, Len(c.entries)),
                    storedBytes |-> c.storedBytes - SizeOf(SubSeq(c.entries, 1, n))]
        Within(n) == Len(Left(n).entries) <= MaxEntries /\ Left(n).storedBytes <= MaxBytes
    IN  Left(CHOOSE n \in 0 .. Len(c.entries) :
                Within(n) /\ \A m \in 0 .. n - 1 : ~Within(m))

put(d) ==
    cache' = IF Cached(d) THEN Touched(cache, d)
             ELSE evictToQuota([entries |-> Append(cache.entries, d),
                                storedBytes |-> cache.storedBytes + Size[d]])

get(d) == cache' = IF Cached(d) THEN Touched(cache, d) ELSE cache

-----------------------------------------------------------------------------
(* The counter of bytes is what the entries weigh, both quotas hold, and no *)
(* digest is stored twice, whatever the runs that share the cache do.       *)
CacheWithinQuota ==
    /\ cache.storedBytes = SizeOf(cache.entries)
    /\ Len(cache.entries) <= MaxEntries /\ cache.storedBytes <= MaxBytes
    /\ IsInjective(cache.entries)
=============================================================================
