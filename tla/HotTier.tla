------------------------------ MODULE HotTier ------------------------------
(***************************************************************************)
(* internal/imageproxy/hot.go: the in-memory LRU of images, bounded in     *)
(* bytes and in entries.  Every method is one critical section of h.mu.    *)
(* The list and the index are one sequence, most recently used first.      *)
(***************************************************************************)
EXTENDS Images, FiniteSetsExt, SequencesExt

CONSTANTS HotMaxBytes, HotMaxEntries

ASSUME HotAssumption == HotMaxBytes \in Nat /\ HotMaxEntries \in Nat

VARIABLES
    hot,     \* entries [key, body, tag], most recently used first
    hotBytes \* h.bytes

hotVars == <<hot, hotBytes>>

HotInit == hot = <<>> /\ hotBytes = 0

\* The bytes of the images at the positions I of q.
BytesOf(q, I) == SumFunctionOnSet([i \in DOMAIN q |-> Size[q[i].body]], I)
HotHas(k) == \E i \in DOMAIN hot : hot[i].key = k
HotAt(k) == CHOOSE i \in DOMAIN hot : hot[i].key = k
HotEntry(k) == hot[HotAt(k)]

\* Get moves the entry it hits to the front.
HotTouch(k) ==
    /\ hot' = <<HotEntry(k)>> \o RemoveAt(hot, HotAt(k))
    /\ UNCHANGED hotBytes

\* Entries are dropped from the back until both caps hold or none is left.
EvictLocked(q, total) ==
    LET Left(n) == total - BytesOf(q, (n + 1)..Len(q))
        kept == Max({n \in 0..Len(q) : n = 0 \/ (Left(n) <= HotMaxBytes /\ n <= HotMaxEntries)})
    IN hot' = SubSeq(q, 1, kept) /\ hotBytes' = Left(kept)

\* An image larger than the tier, or any image when a cap is 0, is dropped: the
\* entry the key had stays.
HotPut(k, b, t) ==
    LET new == [key |-> k, body |-> b, tag |-> t] IN
    IF HotMaxEntries = 0 \/ Size[b] > HotMaxBytes
    THEN UNCHANGED hotVars
    ELSE IF HotHas(k)
         THEN EvictLocked(<<new>> \o RemoveAt(hot, HotAt(k)),
                          hotBytes - Size[HotEntry(k).body] + Size[b])
         ELSE EvictLocked(<<new>> \o hot, hotBytes + Size[b])

-----------------------------------------------------------------------------
HotTypeOK == hot \in Seq([key : Keys, body : Bodies, tag : Bodies]) /\ hotBytes \in Nat

\* After any sequence of Put and Get the byte count is that of the entries, both
\* caps hold and a key is listed once.
HotBounded ==
    /\ hotBytes = BytesOf(hot, DOMAIN hot)
    /\ hotBytes <= HotMaxBytes /\ Len(hot) <= HotMaxEntries
    /\ \A i, j \in DOMAIN hot : hot[i].key = hot[j].key => i = j
=============================================================================
