-------------------------- MODULE ResourceNamesProofs --------------------------
(***************************************************************************)
(* How long resource names are, and when two objects have names of their   *)
(* own, which is what DistinctNames asks of the machines.                  *)
(***************************************************************************)
EXTENDS ResourceNames, SequenceTheorems, TLAPS

\* An object whose full name fits is not hashed.
Fits(prefix, obj) == Len(Join(prefix, obj)) <= maxResourceLength

\* Namespaces and names are strings in lower case, and no name ends with a dash.
LEMMA LabelType ==
    ASSUME NEW s \in Label
    PROVE  /\ s \in Seq(Char) /\ Len(s) \in Nat \ {0} /\ s[Len(s)] # Dash
           /\ \A i \in 1..Len(s) : Lower(s[i]) = s[i]
<1>1. s \in Seq(Char)
  BY DEF Label
<1>2. s # <<>> /\ s[Len(s)] # Dash /\ \A i \in 1..Len(s) : Lower(s[i]) = s[i]
  BY DEF Label
<1>3. Len(s) \in Nat \ {0}
  BY <1>1, <1>2, LenProperties, EmptySeq
<1> QED
  BY <1>1, <1>2, <1>3

\* What follows the prefix and its dash.
Rest(obj) == obj.namespace \o (<<Dash>> \o obj.name)

\* A namespace, a dash and a name, one after the other.
LEMMA RestType ==
    ASSUME Dash \in Char, NEW obj \in Objects
    PROVE  LET k == Len(obj.namespace)
           IN  /\ Rest(obj) \in Seq(Char)
               /\ Len(Rest(obj)) = k + 1 + Len(obj.name)
               /\ \A i \in 1..k : Rest(obj)[i] = obj.namespace[i]
               /\ Rest(obj)[k + 1] = Dash
               /\ \A i \in 1..Len(obj.name) : Rest(obj)[k + 1 + i] = obj.name[i]
<1> DEFINE dash == <<Dash>>
           ns == obj.namespace
           nm == obj.name
           end == dash \o nm
<1>1. /\ ns \in Seq(Char) /\ Len(ns) \in Nat
      /\ nm \in Seq(Char) /\ Len(nm) \in Nat
  <2>1. ns \in Label /\ nm \in Label
    BY DEF Objects
  <2> QED
    BY <2>1, LabelType
<1>2. dash \in Seq(Char) /\ Len(dash) = 1 /\ dash[1] = Dash
  OBVIOUS
<1>3. Rest(obj) = ns \o end
  BY DEF Rest
<1> HIDE DEF dash, ns, nm
<1>4. /\ end \in Seq(Char) /\ Len(end) = Len(dash) + Len(nm)
      /\ \A i \in 1..Len(dash) + Len(nm) :
           end[i] = IF i <= Len(dash) THEN dash[i] ELSE nm[i - Len(dash)]
  <2>1. dash \in Seq(Char) /\ nm \in Seq(Char)
    BY <1>1, <1>2
  <2> QED
    BY <2>1, ConcatProperties, Zenon
<1>5. end[1] = Dash
  BY <1>1, <1>2, <1>4
<1>6. \A i \in 1..Len(nm) : end[1 + i] = nm[i]
  <2> TAKE i \in 1..Len(nm)
  <2>1. 1 + i \in 1..Len(dash) + Len(nm) /\ ~(1 + i <= Len(dash)) /\ 1 + i - Len(dash) = i
    BY <1>1, <1>2
  <2>2. end[1 + i] = nm[1 + i - Len(dash)]
    BY <1>4, <2>1
  <2> QED
    BY <2>1, <2>2
<1>7. end \in Seq(Char) /\ Len(end) = 1 + Len(nm)
  BY <1>1, <1>2, <1>4
<1> HIDE DEF end
<1>8. /\ ns \o end \in Seq(Char) /\ Len(ns \o end) = Len(ns) + Len(end)
      /\ \A i \in 1..Len(ns) + Len(end) :
           (ns \o end)[i] = IF i <= Len(ns) THEN ns[i] ELSE end[i - Len(ns)]
  <2>1. ns \in Seq(Char) /\ end \in Seq(Char)
    BY <1>1, <1>7
  <2> QED
    BY <2>1, ConcatProperties, Zenon
<1>9. Len(ns \o end) = Len(ns) + 1 + Len(nm)
  BY <1>1, <1>7, <1>8
<1>10. \A i \in 1..Len(ns) : (ns \o end)[i] = ns[i]
  BY <1>1, <1>7, <1>8
<1>11. \A i \in 1..Len(end) : (ns \o end)[Len(ns) + i] = end[i]
  <2> TAKE i \in 1..Len(end)
  <2>1. /\ Len(ns) + i \in 1..Len(ns) + Len(end) /\ ~(Len(ns) + i <= Len(ns))
        /\ Len(ns) + i - Len(ns) = i
    BY <1>1, <1>7
  <2>2. (ns \o end)[Len(ns) + i] = end[Len(ns) + i - Len(ns)]
    BY <1>8, <2>1
  <2> QED
    BY <2>1, <2>2
<1>12. (ns \o end)[Len(ns) + 1] = Dash
  BY <1>1, <1>5, <1>7, <1>11
<1>13. \A i \in 1..Len(nm) : (ns \o end)[Len(ns) + 1 + i] = nm[i]
  <2> TAKE i \in 1..Len(nm)
  <2>1. 1 + i \in 1..Len(end) /\ Len(ns) + (1 + i) = Len(ns) + 1 + i
    BY <1>1, <1>7
  <2>2. (ns \o end)[Len(ns) + (1 + i)] = end[1 + i]
    BY <1>11, <2>1
  <2> QED
    BY <1>6, <2>1, <2>2
<1> QED
  BY <1>3, <1>8, <1>9, <1>10, <1>12, <1>13 DEF ns, nm

\* A full name is the prefix, a dash and the rest.
LEMMA JoinIsRest ==
    ASSUME Dash \in Char, NEW prefix \in Seq(Char), NEW obj \in Objects
    PROVE  Join(prefix, obj) = (prefix \o <<Dash>>) \o Rest(obj)
<1> DEFINE dash == <<Dash>>
           ns == obj.namespace
           nm == obj.name
<1>1. ns \in Seq(Char) /\ nm \in Seq(Char)
  <2>1. ns \in Label /\ nm \in Label
    BY DEF Objects
  <2> QED
    BY <2>1, LabelType
<1>2. dash \in Seq(Char)
  OBVIOUS
<1>3. Join(prefix, obj) = prefix \o dash \o ns \o dash \o nm /\ Rest(obj) = ns \o (dash \o nm)
  BY DEF Join, Rest
<1> HIDE DEF dash, ns, nm
<1> DEFINE start == prefix \o dash
           end == dash \o nm
<1>4. start \in Seq(Char) /\ end \in Seq(Char)
  BY <1>1, <1>2, ConcatProperties
<1> HIDE DEF start, end
<1>5. start \o ns \in Seq(Char)
  BY <1>1, <1>4, ConcatProperties
<1>6. ((start \o ns) \o dash) \o nm = (start \o ns) \o (dash \o nm)
  <2> DEFINE front == start \o ns
  <2>1. front \in Seq(Char) /\ dash \in Seq(Char) /\ nm \in Seq(Char)
    BY <1>1, <1>2, <1>5
  <2> HIDE DEF front
  <2>2. (front \o dash) \o nm = front \o (dash \o nm)
    BY <2>1, ConcatAssociative
  <2> QED
    BY <2>2 DEF front
<1>7. (start \o ns) \o end = start \o (ns \o end)
  BY <1>1, <1>4, ConcatAssociative
<1> QED
  BY <1>3, <1>6, <1>7 DEF dash, start, end

\* Full names are strings, longer than their last part, the name.
LEMMA JoinType ==
    ASSUME Dash \in Char, NEW prefix \in Seq(Char), NEW obj \in Objects
    PROVE  LET k == Len(prefix) + 1
           IN  /\ Join(prefix, obj) \in Seq(Char)
               /\ k \in Nat /\ Len(Rest(obj)) \in Nat \ {0}
               /\ Len(Join(prefix, obj)) = k + Len(Rest(obj))
               /\ \A i \in 1..Len(prefix) : Join(prefix, obj)[i] = prefix[i]
               /\ Join(prefix, obj)[k] = Dash
               /\ \A i \in 1..Len(Rest(obj)) : Join(prefix, obj)[k + i] = Rest(obj)[i]
<1> DEFINE dash == <<Dash>>
           start == prefix \o dash
           rest == Rest(obj)
<1>1. rest \in Seq(Char) /\ Len(rest) \in Nat \ {0}
  <2>1. Len(obj.namespace) \in Nat /\ Len(obj.name) \in Nat
    <3>1. obj.namespace \in Label /\ obj.name \in Label
      BY DEF Objects
    <3> QED
      BY <3>1, LabelType
  <2>2. Rest(obj) \in Seq(Char) /\ Len(Rest(obj)) = Len(obj.namespace) + 1 + Len(obj.name)
    BY RestType
  <2>3. \A a \in Nat, b \in Nat : a + 1 + b \in Nat \ {0}
    OBVIOUS
  <2> QED
    BY <2>1, <2>2, <2>3, Zenon
<1>2. dash \in Seq(Char) /\ Len(dash) = 1 /\ dash[1] = Dash /\ Len(prefix) \in Nat
  BY LenProperties
<1>3. Join(prefix, obj) = start \o rest
  BY JoinIsRest
<1> HIDE DEF dash, rest
<1>4. /\ start \in Seq(Char) /\ Len(start) = Len(prefix) + Len(dash)
      /\ \A i \in 1..Len(prefix) + Len(dash) :
           start[i] = IF i <= Len(prefix) THEN prefix[i] ELSE dash[i - Len(prefix)]
  <2>1. prefix \in Seq(Char) /\ dash \in Seq(Char)
    BY <1>2
  <2> QED
    BY <2>1, ConcatProperties, Zenon
<1>5. Len(start) = Len(prefix) + 1
  BY <1>2, <1>4
<1>6. \A i \in 1..Len(prefix) : start[i] = prefix[i]
  BY <1>2, <1>4
<1>7. start[Len(prefix) + 1] = Dash
  <2>1. start[Len(prefix) + 1] = dash[Len(prefix) + 1 - Len(prefix)]
    BY <1>2, <1>4
  <2> QED
    BY <1>2, <2>1
<1> HIDE DEF start
<1>8. /\ start \o rest \in Seq(Char) /\ Len(start \o rest) = Len(start) + Len(rest)
      /\ \A i \in 1..Len(start) + Len(rest) :
           (start \o rest)[i] = IF i <= Len(start) THEN start[i] ELSE rest[i - Len(start)]
  <2>1. start \in Seq(Char) /\ rest \in Seq(Char)
    BY <1>1, <1>4
  <2> QED
    BY <2>1, ConcatProperties, Zenon
<1>9. \A i \in 1..Len(prefix) + 1 : (start \o rest)[i] = start[i]
  <2> TAKE i \in 1..Len(prefix) + 1
  <2>1. i \in 1..Len(start) + Len(rest) /\ i <= Len(start)
    BY <1>1, <1>2, <1>5
  <2> QED
    BY <1>8, <2>1
<1>10. \A i \in 1..Len(prefix) : (start \o rest)[i] = prefix[i]
  <2> TAKE i \in 1..Len(prefix)
  <2>1. i \in 1..Len(prefix) + 1
    BY <1>2
  <2> QED
    BY <1>6, <1>9, <2>1
<1>11. (start \o rest)[Len(prefix) + 1] = Dash
  <2>1. Len(prefix) + 1 \in 1..Len(prefix) + 1
    BY <1>2
  <2> QED
    BY <1>7, <1>9, <2>1
<1>12. \A i \in 1..Len(rest) : (start \o rest)[Len(prefix) + 1 + i] = rest[i]
  <2> TAKE i \in 1..Len(rest)
  <2>1. /\ Len(start) + i \in 1..Len(start) + Len(rest) /\ ~(Len(start) + i <= Len(start))
        /\ Len(start) + i - Len(start) = i /\ Len(start) + i = Len(prefix) + 1 + i
    BY <1>1, <1>2, <1>5
  <2>2. (start \o rest)[Len(start) + i] = rest[Len(start) + i - Len(start)]
    BY <1>8, <2>1
  <2> QED
    BY <2>1, <2>2
<1> QED
  BY <1>1, <1>2, <1>3, <1>5, <1>8, <1>10, <1>11, <1>12 DEF rest

\* Neither lower case nor the trimming of a dash makes a string longer.
LEMMA ShortenLength ==
    ASSUME NEW s \in Seq(Char), \A x \in Char : Lower(x) \in Char
    PROVE  TrimDash(ToLower(s)) \in Seq(Char) /\ Len(TrimDash(ToLower(s))) <= Len(s)
<1> DEFINE l == ToLower(s)
<1>1. Len(s) \in Nat /\ \A i \in 1..Len(s) : Lower(s[i]) \in Char
  BY LenProperties, ElementOfSeq
<1>2. l \in Seq(Char) /\ Len(l) = Len(s)
  BY <1>1, IsASeq DEF ToLower
<1>3. CASE l # <<>> /\ l[Len(l)] = Dash
  <2>1. SubSeq(l, 1, Len(l) - 1) \in Seq(Char)
    BY <1>1, <1>2, ElementOfSeq, SubSeqProperties
  <2>2. Len(SubSeq(l, 1, Len(l) - 1)) <= Len(l)
    BY <1>1, <1>2, ElementOfSeq, SubSeqProperties
  <2> QED
    BY <1>1, <1>2, <1>3, <2>1, <2>2 DEF TrimDash
<1>4. CASE ~(l # <<>> /\ l[Len(l)] = Dash)
  BY <1>1, <1>2, <1>4 DEF TrimDash
<1> QED
  BY <1>3, <1>4

(***************************************************************************)
(* No resource name is longer than maxResourceLength, whatever the prefix, *)
(* the namespace and the name are, and although the hash is not always of  *)
(* the same length.                                                        *)
(***************************************************************************)
THEOREM ResourceNamesFit ==
    ASSUME Dash \in Char, \A x \in Char : Lower(x) \in Char,
           maxResourceLength \in Nat,
           \A s \in Seq(Char) : Hash(s) \in Seq(Char) /\ Len(Hash(s)) + 1 <= maxResourceLength,
           NEW prefix \in Seq(Char), NEW obj \in Objects
    PROVE  Len(getResourceName(prefix, obj)) <= maxResourceLength
<1> DEFINE full == Join(prefix, obj)
           short == HashTruncate(full, maxResourceLength)
<1>1. full \in Seq(Char)
  BY JoinType
<1>2. short \in Seq(Char) /\ Len(short) <= maxResourceLength
  <2>1. CASE Len(full) > maxResourceLength
    <3> DEFINE hash == Hash(full)
               keep == maxResourceLength - Len(hash) - 1
               start == SubSeq(full, 1, keep)
    <3>1. hash \in Seq(Char) /\ Len(hash) \in Nat /\ Len(full) \in Nat
      BY <1>1, LenProperties
    <3>2. keep \in Nat /\ keep <= Len(full) /\ Len(hash) + 1 + keep = maxResourceLength
      BY <1>1, <2>1, <3>1
    <3>3. start \in Seq(Char) /\ Len(start) = keep
      BY <1>1, <3>2, ElementOfSeq, SubSeqProperties
    <3>4. start \o <<Dash>> \in Seq(Char) /\ Len(start \o <<Dash>>) = keep + 1
      BY <3>3, ConcatProperties
    <3>5. /\ (start \o <<Dash>>) \o hash \in Seq(Char)
          /\ Len((start \o <<Dash>>) \o hash) = keep + 1 + Len(hash)
      BY <3>1, <3>4, ConcatProperties
    <3> QED
      BY <2>1, <3>1, <3>2, <3>5 DEF HashTruncate
  <2>2. CASE ~(Len(full) > maxResourceLength)
    BY <1>1, <2>2, LenProperties DEF HashTruncate
  <2> QED
    BY <2>1, <2>2
<1>3. Len(TrimDash(ToLower(short))) \in Nat /\ Len(TrimDash(ToLower(short))) <= Len(short)
  BY <1>2, ShortenLength, LenProperties
<1> QED
  BY <1>2, <1>3, LenProperties DEF getResourceName, hashTruncateName

\* The full name of an object that fits is its name as it stands: objects are in lower
\* case, and so are the prefixes, and no name ends with a dash.
LEMMA FullName ==
    ASSUME Dash \in Char, Lower(Dash) = Dash, maxResourceLength \in Nat,
           NEW prefix \in Seq(Char), \A i \in 1..Len(prefix) : Lower(prefix[i]) = prefix[i],
           NEW obj \in Objects, Fits(prefix, obj)
    PROVE  getResourceName(prefix, obj) = Join(prefix, obj)
<1> DEFINE full == Join(prefix, obj)
           rest == Rest(obj)
           k == Len(obj.namespace)
           l == Len(obj.name)
           p == Len(prefix) + 1
<1>1. /\ full \in Seq(Char) /\ p \in Nat /\ Len(full) = p + Len(rest)
      /\ \A i \in 1..Len(prefix) : full[i] = prefix[i]
      /\ full[p] = Dash
      /\ \A i \in 1..Len(rest) : full[p + i] = rest[i]
  BY JoinType
<1>2. /\ Len(rest) = k + 1 + l
      /\ \A i \in 1..k : rest[i] = obj.namespace[i]
      /\ rest[k + 1] = Dash
      /\ \A i \in 1..l : rest[k + 1 + i] = obj.name[i]
  BY RestType
<1>3. obj.namespace \in Label /\ obj.name \in Label
  BY DEF Objects
<1>4. /\ k \in Nat /\ l \in Nat \ {0} /\ Len(prefix) \in Nat
      /\ obj.name[l] # Dash
      /\ \A i \in 1..k : Lower(obj.namespace[i]) = obj.namespace[i]
      /\ \A i \in 1..l : Lower(obj.name[i]) = obj.name[i]
  BY <1>3, LabelType, LenProperties
<1> HIDE DEF full, rest, k, l
<1>5. \A i \in 1..Len(rest) : Lower(rest[i]) = rest[i]
  <2> TAKE i \in 1..Len(rest)
  <2>1. CASE i <= k
    BY <1>2, <1>4, <2>1
  <2>2. CASE i = k + 1
    BY <1>2, <2>2
  <2>3. CASE i > k + 1
    <3>1. i - (k + 1) \in 1..l /\ k + 1 + (i - (k + 1)) = i
      BY <1>2, <1>4, <2>3
    <3> QED
      BY <1>2, <1>4, <3>1
  <2> QED
    BY <1>2, <1>4, <2>1, <2>2, <2>3
<1>6. \A i \in 1..Len(full) : Lower(full[i]) = full[i]
  <2> TAKE i \in 1..Len(full)
  <2>1. CASE i <= Len(prefix)
    BY <1>1, <1>4, <2>1
  <2>2. CASE i = p
    BY <1>1, <2>2
  <2>3. CASE i > p
    <3>1. i - p \in 1..Len(rest) /\ p + (i - p) = i
      BY <1>1, <1>2, <1>4, <2>3
    <3>2. full[i] = rest[i - p]
      BY <1>1, <3>1
    <3> QED
      BY <1>5, <3>1, <3>2
  <2> QED
    BY <1>1, <1>2, <1>4, <2>1, <2>2, <2>3
<1>7. Len(full) \in Nat /\ full[Len(full)] # Dash
  <2>1. Len(rest) \in 1..Len(rest) /\ Len(rest) = k + 1 + l /\ l \in 1..l
    BY <1>2, <1>4
  <2>2. full[p + Len(rest)] = rest[Len(rest)]
    BY <1>1, <2>1
  <2>3. rest[k + 1 + l] = obj.name[l]
    BY <1>2, <2>1
  <2>4. full[Len(full)] # Dash
    BY <1>1, <1>4, <2>1, <2>2, <2>3
  <2> QED
    BY <1>1, <1>2, <1>4, <2>4
<1>8. HashTruncate(full, maxResourceLength) = full
  BY <1>7 DEF Fits, HashTruncate, full
<1>9. ToLower(full) = full
  <2>1. ToLower(full) = [i \in 1..Len(full) |-> full[i]]
    BY <1>6 DEF ToLower
  <2> QED
    BY <1>1, <2>1, LenProperties
<1>10. TrimDash(full) = full
  BY <1>7 DEF TrimDash
<1> QED
  BY <1>8, <1>9, <1>10 DEF getResourceName, hashTruncateName, full

(***************************************************************************)
(* Two objects whose names fit and whose namespaces have no dash have      *)
(* different names for their resources of a kind.  With dashes they may    *)
(* not: "a-b" and "c" join like "a" and "b-c".                             *)
(***************************************************************************)
THEOREM NamesAreOwn ==
    ASSUME Dash \in Char, Lower(Dash) = Dash, maxResourceLength \in Nat,
           NEW prefix \in Seq(Char), \A i \in 1..Len(prefix) : Lower(prefix[i]) = prefix[i],
           NEW x \in Objects, NEW y \in Objects, Fits(prefix, x), Fits(prefix, y),
           \A o \in {x, y} : \A i \in 1..Len(o.namespace) : o.namespace[i] # Dash,
           getResourceName(prefix, x) = getResourceName(prefix, y)
    PROVE  x = y
<1> DEFINE k(o) == Len(o.namespace)
           p == Len(prefix) + 1
<1>1. Join(prefix, x) = Join(prefix, y)
  BY FullName
<1>2. Rest(x) = Rest(y)
  <2>1. /\ p \in Nat /\ Len(Rest(x)) \in Nat /\ Len(Join(prefix, x)) = p + Len(Rest(x))
        /\ \A i \in 1..Len(Rest(x)) : Join(prefix, x)[p + i] = Rest(x)[i]
    BY JoinType
  <2>2. /\ Len(Rest(y)) \in Nat /\ Len(Join(prefix, y)) = p + Len(Rest(y))
        /\ \A i \in 1..Len(Rest(y)) : Join(prefix, y)[p + i] = Rest(y)[i]
    BY JoinType
  <2>3. Rest(x) \in Seq(Char) /\ Rest(y) \in Seq(Char)
    BY RestType
  <2>4. Len(Rest(x)) = Len(Rest(y))
    BY <1>1, <2>1, <2>2
  <2>5. \A i \in 1..Len(Rest(x)) : Rest(x)[i] = Rest(y)[i]
    BY <1>1, <2>1, <2>2, <2>4
  <2> QED
    BY <2>3, <2>4, <2>5, SeqEqual
<1>3. /\ x.namespace \in Label /\ x.name \in Label
      /\ y.namespace \in Label /\ y.name \in Label
  BY DEF Objects
<1>4. /\ x.namespace \in Seq(Char) /\ k(x) \in Nat
      /\ x.name \in Seq(Char) /\ Len(x.name) \in Nat
      /\ y.namespace \in Seq(Char) /\ k(y) \in Nat
      /\ y.name \in Seq(Char) /\ Len(y.name) \in Nat
  BY <1>3, LabelType
<1>5. /\ Len(Rest(x)) = k(x) + 1 + Len(x.name)
      /\ \A i \in 1..k(x) : Rest(x)[i] = x.namespace[i]
      /\ Rest(x)[k(x) + 1] = Dash
      /\ \A i \in 1..Len(x.name) : Rest(x)[k(x) + 1 + i] = x.name[i]
  BY RestType
<1>6. /\ Len(Rest(y)) = k(y) + 1 + Len(y.name)
      /\ \A i \in 1..k(y) : Rest(y)[i] = y.namespace[i]
      /\ Rest(y)[k(y) + 1] = Dash
      /\ \A i \in 1..Len(y.name) : Rest(y)[k(y) + 1 + i] = y.name[i]
  BY RestType
\* The first dash of the rest is where the namespace ends.
<1>7. k(x) = k(y)
  <2>1. ~(k(x) < k(y))
    <3> SUFFICES ASSUME k(x) < k(y)
                 PROVE  FALSE
      OBVIOUS
    <3>1. k(x) + 1 \in 1..k(y)
      BY <1>4
    <3>2. y.namespace[k(x) + 1] = Dash
      BY <1>2, <1>5, <1>6, <3>1
    <3> QED
      BY <3>1, <3>2
  <2>2. ~(k(y) < k(x))
    <3> SUFFICES ASSUME k(y) < k(x)
                 PROVE  FALSE
      OBVIOUS
    <3>1. k(y) + 1 \in 1..k(x)
      BY <1>4
    <3>2. x.namespace[k(y) + 1] = Dash
      BY <1>2, <1>5, <1>6, <3>1
    <3> QED
      BY <3>1, <3>2
  <2> QED
    BY <1>4, <2>1, <2>2
<1>8. x.namespace = y.namespace
  <2>1. \A i \in 1..k(x) : x.namespace[i] = y.namespace[i]
    BY <1>2, <1>5, <1>6, <1>7
  <2> QED
    BY <1>4, <1>7, <2>1, SeqEqual
<1>9. x.name = y.name
  <2>1. Len(x.name) = Len(y.name)
    <3>1. k(x) + 1 + Len(x.name) = k(x) + 1 + Len(y.name)
      BY <1>2, <1>5, <1>6, <1>7
    <3>2. \A a \in Nat, b \in Nat, c \in Nat : a + 1 + b = a + 1 + c => b = c
      OBVIOUS
    <3> QED
      BY <1>4, <3>1, <3>2, Zenon
  <2>2. \A i \in 1..Len(x.name) : x.name[i] = y.name[i]
    BY <1>2, <1>5, <1>6, <1>7, <2>1
  <2> QED
    BY <1>4, <2>1, <2>2, SeqEqual
<1> QED
  BY <1>8, <1>9 DEF Objects
==============================================================================
