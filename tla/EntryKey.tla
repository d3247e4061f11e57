------------------------------ MODULE EntryKey ------------------------------
(***************************************************************************)
(* EntryKey (src/wit-server/src/server/p2p/tables.rs): the key under which *)
(* a revision of a file is stored and looked up.  A two-byte index of the  *)
(* place where the version starts, then the path, then the version, with   *)
(* no separator.  The index bytes are modelled as the number they encode,  *)
(* so `text` is bytes[2..] and an index i into bytes is i - HeaderLen into *)
(* text.                                                                   *)
(***************************************************************************)
EXTENDS Naturals, Sequences

CONSTANTS
    Bytes,          \* what paths and versions are made of
    IndexSize,      \* numbers the index can hold: 2^16 in the code
    HeaderLen,      \* FILE_PATH_START_IDX: 2 in the code
    MaxLen          \* bound on the length of the paths and versions checked

ASSUME IndexAssumption ==
    /\ HeaderLen \in Nat
    /\ IndexSize \in Nat
    /\ HeaderLen < IndexSize
ASSUME MaxLenAssumption == MaxLen \in Nat

Key == [version_start_idx : 0..(IndexSize - 1), text : Seq(Bytes)]

-----------------------------------------------------------------------------
(* Mutant of New: the index does not count the header. *)
NewWithoutHeader(file_path, ver) ==
    [version_start_idx |-> Len(file_path) % IndexSize,
     text |-> file_path \o ver]

(* Mutant of New: the place where the version starts is not recorded. *)
NewUnindexed(file_path, ver) ==
    [version_start_idx |-> HeaderLen, text |-> file_path \o ver]

(* Both `as u16` and the addition keep the low bits (the addition panics   *)
(* instead in a debug build).                                              *)
New(file_path, ver) ==
    [version_start_idx |-> (Len(file_path) + HeaderLen) % IndexSize,
     text |-> file_path \o ver]

(* Slicing bytes[2..i] and bytes[i..] panics for an index inside the       *)
(* header or behind the end.                                               *)
Readable(key) ==
    /\ key.version_start_idx >= HeaderLen
    /\ key.version_start_idx - HeaderLen <= Len(key.text)

FilePath(key) == SubSeq(key.text, 1, key.version_start_idx - HeaderLen)

Version(key) ==
    SubSeq(key.text, key.version_start_idx - HeaderLen + 1, Len(key.text))

-----------------------------------------------------------------------------
(* Inputs for TLC: a path and a version grow byte by byte. *)
VARIABLES path, version

vars == <<path, version>>

Init == path = <<>> /\ version = <<>>

LongerPath ==
    /\ Len(path) < MaxLen
    /\ \E b \in Bytes : path' = Append(path, b)
    /\ UNCHANGED version

LongerVersion ==
    /\ Len(version) < MaxLen
    /\ \E b \in Bytes : version' = Append(version, b)
    /\ UNCHANGED path

Next == LongerPath \/ LongerVersion

Spec == Init /\ [][Next]_vars

TypeOK == path \in Seq(Bytes) /\ version \in Seq(Bytes)

-----------------------------------------------------------------------------
(* The index has room for the length of the path. *)
Fits(file_path) == Len(file_path) + HeaderLen < IndexSize

Faithful(file_path, ver) ==
    LET key == New(file_path, ver)
    IN  Readable(key) /\ FilePath(key) = file_path /\ Version(key) = ver

(* The limit is exact: a key gives back the path and the version it was    *)
(* made of if, and only if, the path is at most 65533 bytes long; beyond   *)
(* it new() does not fail and the key names another entry or cannot be     *)
(* read at all (tables.rs:19-47).                                          *)
FaithfulUpToLimit == Faithful(path, version) <=> Fits(path)

Collides(other, ver) ==
    /\ Fits(path) /\ Fits(other)
    /\ New(path, version) = New(other, ver)
    /\ other # path \/ ver # version

(* Without a separator, two entries still share no key: the index tells    *)
(* "a" at version "bc" from "ab" at version "c".  Only entries with the    *)
(* same text, cut elsewhere, could collide (tables.rs:24-27).              *)
KeysAreDistinct ==
    \A n \in 0..Len(path \o version) :
        ~Collides(SubSeq(path \o version, 1, n),
                  SubSeq(path \o version, n + 1, Len(path \o version)))
=============================================================================
