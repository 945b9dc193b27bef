----------------------------- MODULE ResourceNames -----------------------------
(***************************************************************************)
(* The names that Oxide resources get from the namespace and name of an    *)
(* object (naming.go).  A string is a sequence of characters.  Namespaces  *)
(* are DNS labels and names DNS subdomains: not empty, in lower case, and  *)
(* without a dash at either end.                                           *)
(*                                                                         *)
(* A definition marked "altered" is a plausible mistake in the one after   *)
(* it.                                                                     *)
(***************************************************************************)
EXTENDS Naturals, Sequences

CONSTANTS
    Char, Dash,           \* characters, and the one that joins
    Lower(_),             \* the lower case of a character
    Hash(_),              \* the hash of a string in hexadecimal, without leading zeros
    maxResourceLength,
    instancePrefix, nicPrefix, bootDiskPrefix, floatingIPPrefix,
    dataDiskPrefix(_)     \* it has the index of the disk in it

\* Strings that the API server takes as a namespace or as a name.
Label == {s \in Seq(Char) : s # <<>> /\ s[Len(s)] # Dash /\ \A i \in 1..Len(s) : Lower(s[i]) = s[i]}
Objects == [namespace: Label, name: Label]

ToLower(s) == [i \in 1..Len(s) |-> Lower(s[i])]

\* strings.TrimSuffix takes one dash at most.
TrimDash(s) == IF s # <<>> /\ s[Len(s)] = Dash THEN SubSeq(s, 1, Len(s) - 1) ELSE s

\* A string that is too long keeps its beginning and gets the hash of the whole.
HashTruncate(s, max) ==
    IF Len(s) > max
    THEN SubSeq(s, 1, max - Len(Hash(s)) - 1) \o <<Dash>> \o Hash(s)
    ELSE s

hashTruncateName(s, max) == TrimDash(ToLower(HashTruncate(s, max)))

\* Altered: the namespace is left out.
JoinNameOnly(prefix, obj) == prefix \o <<Dash>> \o obj.name
Join(prefix, obj) == prefix \o <<Dash>> \o obj.namespace \o <<Dash>> \o obj.name

getResourceName(prefix, obj) == hashTruncateName(Join(prefix, obj), maxResourceLength)

getInstanceName(obj) == getResourceName(instancePrefix, obj)
getNicName(obj) == getResourceName(nicPrefix, obj)
getBootDiskName(obj) == getResourceName(bootDiskPrefix, obj)
getFloatingIPName(obj) == getResourceName(floatingIPPrefix, obj)
getDataDiskName(obj, idx) == getResourceName(dataDiskPrefix(idx), obj)

\* The names of the disks that come with the instance of obj: disksFromOxideMachine gives
\* the n data disks names by their place in the spec.
DataDiskNames(obj, n) == {getDataDiskName(obj, idx) : idx \in 0..(n - 1)}
==============================================================================
