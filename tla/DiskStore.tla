----------------------------- MODULE DiskStore -----------------------------
(***************************************************************************)
(* internal/imageproxy/store.go: images on disk, bounded in bytes, and the *)
(* manifest the index is rebuilt from.  One operator per critical section  *)
(* of s.mu or file operation: Get and Put are sequences of them, and their *)
(* callers interleave (ImageProxy).  A file is replaced by a rename, at    *)
(* once.  LastAccess is the order of recency, least recently used first;   *)
(* a Put's is set here as it registers, in the code before its .json.      *)
(***************************************************************************)
EXTENDS Images, FiniteSetsExt, SequencesExt

CONSTANT DiskMaxBytes

ASSUME DiskAssumption == DiskMaxBytes \in Nat \ {0}

VARIABLES
    entries,  \* entries[k]: validator and length of k's image
    bytes,    \* s.bytes
    recency,  \* keys with an entry, least recently used first
    bin,      \* bin[k]: the version in k's .bin file
    json,     \* json[k]: k has a .json file
    manifest  \* manifest.json: entries and their recency

diskVars == <<entries, bytes, recency, bin, json, manifest>>
index == <<entries, bytes, recency>>

NoEntry == [tag |-> None, len |-> 0]
Snapshot == [entries |-> entries, recency |-> recency]

\* q without the keys in S.
Without(q, S) == FoldLeft(LAMBDA kept, k : IF k \in S THEN kept ELSE Append(kept, k), <<>>, q)

DiskInit ==
    /\ entries = [k \in Keys |-> NoEntry]
    /\ bytes = 0
    /\ recency = <<>>
    /\ bin = [k \in Keys |-> None]
    /\ json = [k \in Keys |-> FALSE]
    /\ manifest = Snapshot

\* Get: LastAccess of the entry it looked up, which may be replaced by now.
Touch(k, e) ==
    /\ recency' = IF entries[k] = e THEN Append(Without(recency, {k}), k) ELSE recency
    /\ UNCHANGED <<entries, bytes, bin, json, manifest>>

WriteManifest(m) ==
    /\ manifest' = m
    /\ UNCHANGED <<index, bin, json>>

\* Put: the two files, then the index.
WriteBin(k, b) ==
    /\ bin' = [bin EXCEPT ![k] = b]
    /\ UNCHANGED <<index, json, manifest>>
WriteJson(k) ==
    /\ json' = [json EXCEPT ![k] = TRUE]
    /\ UNCHANGED <<index, bin, manifest>>

\* Mutant of Register: the length of the entry it replaces is not taken off.
RegisterAdds(k, b) ==
    /\ entries' = [entries EXCEPT ![k] = [tag |-> b, len |-> Size[b]]]
    /\ bytes' = bytes + Size[b]
    /\ recency' = Append(Without(recency, {k}), k)
    /\ UNCHANGED <<bin, json, manifest>>

Register(k, b) ==
    /\ entries' = [entries EXCEPT ![k] = [tag |-> b, len |-> Size[b]]]
    /\ bytes' = bytes - entries[k].len + Size[b]
    /\ recency' = Append(Without(recency, {k}), k)
    /\ UNCHANGED <<bin, json, manifest>>

\* evictIfOverCap: files and entries go, least recently used first, until the
\* rest fits.
Freed(S) == SumFunctionOnSet([k \in Keys |-> entries[k].len], S)
Oldest(n) == {recency[i] : i \in 1..n}
Victims ==
    Oldest(Min({n \in 0..Len(recency) :
                  bytes - Freed(Oldest(n)) <= DiskMaxBytes} \cup {Len(recency)}))
EvictIfOverCap ==
    /\ bytes' = bytes - Freed(Victims)
    /\ entries' = [k \in Keys |-> IF k \in Victims THEN NoEntry ELSE entries[k]]
    /\ recency' = Without(recency, Victims)
    /\ bin' = [k \in Keys |-> IF k \in Victims THEN None ELSE bin[k]]
    /\ json' = [k \in Keys |-> json[k] /\ k \notin Victims]
    /\ UNCHANGED manifest

\* NewDiskStore: the manifest's entries whose two files exist, with the length
\* of the file that is there.
Loadable == {k \in Keys : manifest.entries[k] # NoEntry /\ bin[k] # None /\ json[k]}
LoadManifest ==
    /\ entries' = [k \in Keys |->
                     IF k \in Loadable
                     THEN [manifest.entries[k] EXCEPT !.len = Size[bin[k]]]
                     ELSE NoEntry]
    /\ bytes' = SumFunction([k \in Loadable |-> Size[bin[k]]])
    /\ recency' = Without(manifest.recency, Keys \ Loadable)
    /\ UNCHANGED <<bin, json, manifest>>

-----------------------------------------------------------------------------
Entries == [tag : Bodies, len : Nat] \cup {NoEntry}
Manifests == [entries : [Keys -> Entries], recency : Seq(Keys)]
DiskTypeOK ==
    /\ entries \in [Keys -> Entries]
    /\ bytes \in Nat
    /\ recency \in Seq(Keys)
    /\ bin \in [Keys -> Bodies \cup {None}]
    /\ json \in [Keys -> BOOLEAN]
    /\ manifest \in Manifests

\* s.bytes is the sum of the entries' lengths, and the recency order lists each
\* entry once, through replacements, evictions and restarts: the cap means what
\* it says only if both hold.
DiskIndexExact ==
    /\ bytes = Freed(Keys)
    /\ Oldest(Len(recency)) = {k \in Keys : entries[k] # NoEntry}
    /\ Cardinality(Oldest(Len(recency))) = Len(recency)
=============================================================================
