--------------------------- MODULE EntryKeyProofs ---------------------------
(* Proofs about EntryKey for every alphabet, index size and header. *)
EXTENDS EntryKey, SequenceTheorems, TLAPS

(* Cutting a concatenation where its first part ends gives the two parts. *)
LEMMA CutConcat ==
    ASSUME NEW S, NEW p \in Seq(S), NEW v \in Seq(S)
    PROVE  /\ SubSeq(p \o v, 1, Len(p)) = p
           /\ SubSeq(p \o v, Len(p) + 1, Len(p \o v)) = v
<1> DEFINE all == p \o v
<1>1. all \in Seq(S) /\ Len(all) = Len(p) + Len(v)
  OBVIOUS
<1>2. SubSeq(all, 1, Len(p)) = p
  <2>1. Len(SubSeq(all, 1, Len(p))) = Len(p)
    BY <1>1
  <2>2. ASSUME NEW i \in 1..Len(p) PROVE SubSeq(all, 1, Len(p))[i] = p[i]
    BY <1>1
  <2> QED BY <2>1, <2>2, <1>1, SeqEqual
<1>3. SubSeq(all, Len(p) + 1, Len(all)) = v
  <2>1. Len(SubSeq(all, Len(p) + 1, Len(all))) = Len(v)
    BY <1>1
  <2>2. ASSUME NEW i \in 1..Len(v)
        PROVE  SubSeq(all, Len(p) + 1, Len(all))[i] = v[i]
    BY <1>1
  <2> QED BY <2>1, <2>2, <1>1, SeqEqual
<1> QED BY <1>2, <1>3

(* The limit is exact, for every index size: a key is faithful to the path *)
(* and version it was made of just when the index has room for the path    *)
(* (EntryKey::new, file_path and version, tables.rs:19-47).                *)
THEOREM RoundTrip ==
    ASSUME NEW p \in Seq(Bytes), NEW v \in Seq(Bytes)
    PROVE  Faithful(p, v) <=> Fits(p)
<1> DEFINE i == (Len(p) + HeaderLen) % IndexSize
<1>1. /\ Len(p) \in Nat
      /\ Len(p \o v) = Len(p) + Len(v)
      /\ p \o v \in Seq(Bytes)
  OBVIOUS
<1>2. ASSUME Fits(p) PROVE Faithful(p, v)
  <2>1. i = Len(p) + HeaderLen
    BY <1>1, <1>2, IndexAssumption DEF Fits
  <2>2. i - HeaderLen = Len(p)
    BY <2>1, <1>1, IndexAssumption
  <2>3. Readable(New(p, v))
    BY <2>1, <2>2, <1>1, IndexAssumption DEF Readable, New
  <2>4. FilePath(New(p, v)) = p /\ Version(New(p, v)) = v
    BY <2>2, CutConcat DEF FilePath, Version, New
  <2> QED BY <2>3, <2>4 DEF Faithful
<1>3. ASSUME ~Fits(p), Faithful(p, v) PROVE FALSE
  <2>1. IndexSize <= Len(p) + HeaderLen
    BY <1>1, <1>3, IndexAssumption DEF Fits
  <2>2. i \in Nat /\ i < IndexSize
    BY <1>1, IndexAssumption
  <2>3. /\ i >= HeaderLen
        /\ i - HeaderLen <= Len(p \o v)
        /\ SubSeq(p \o v, 1, i - HeaderLen) = p
    BY <1>3 DEF Faithful, Readable, FilePath, New
  <2>4. i - HeaderLen \in Nat
    BY <2>2, <2>3, IndexAssumption
  <2>5. Len(SubSeq(p \o v, 1, i - HeaderLen)) = i - HeaderLen
    BY <2>3, <2>4, <1>1
  <2>6. Len(p) = i - HeaderLen
    BY <2>3, <2>5
  <2> QED BY <2>1, <2>2, <2>6, <1>1, IndexAssumption
<1> QED BY <1>2, <1>3

(* Entries that fit never share a key: the concatenation without separator *)
(* is injective together with the index (tables.rs:24-27).                 *)
THEOREM DistinctKeys ==
    ASSUME NEW p \in Seq(Bytes), NEW v \in Seq(Bytes),
           NEW q \in Seq(Bytes), NEW w \in Seq(Bytes),
           Fits(p), Fits(q), New(p, v) = New(q, w)
    PROVE  p = q /\ v = w
<1>1. FilePath(New(p, v)) = p /\ Version(New(p, v)) = v
  BY RoundTrip DEF Faithful
<1>2. FilePath(New(q, w)) = q /\ Version(New(q, w)) = w
  BY RoundTrip DEF Faithful
<1> QED BY <1>1, <1>2

(* Only sequences of bytes are ever encoded. *)
THEOREM TypeCorrect == Spec => []TypeOK
<1>1. Init => TypeOK
  BY DEF Init, TypeOK
<1>2. TypeOK /\ [Next]_vars => TypeOK'
  BY DEF TypeOK, Next, LongerPath, LongerVersion, vars
<1> QED BY <1>1, <1>2, PTL DEF Spec

(* The property FaithfulUpToLimit holds for inputs of any length.          *)
THEOREM AlwaysFaithfulUpToLimit == Spec => []FaithfulUpToLimit
<1>1. TypeOK => FaithfulUpToLimit
  BY RoundTrip DEF TypeOK, FaithfulUpToLimit
<1> QED BY <1>1, TypeCorrect, PTL

(* The property KeysAreDistinct holds for inputs of any length.            *)
THEOREM AlwaysDistinctKeys == Spec => []KeysAreDistinct
<1>1. ASSUME TypeOK, NEW q \in Seq(Bytes), NEW w \in Seq(Bytes)
      PROVE  ~Collides(q, w)
  BY <1>1, DistinctKeys DEF TypeOK, Collides
<1>2. ASSUME TypeOK, NEW n \in 0..Len(path \o version)
      PROVE  /\ SubSeq(path \o version, 1, n) \in Seq(Bytes)
             /\ SubSeq(path \o version, n + 1, Len(path \o version)) \in Seq(Bytes)
  BY <1>2 DEF TypeOK
<1>3. TypeOK => KeysAreDistinct
  BY <1>1, <1>2 DEF KeysAreDistinct
<1> QED BY <1>3, TypeCorrect, PTL
=============================================================================
