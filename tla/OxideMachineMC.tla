--------------------------- MODULE OxideMachineMC ---------------------------
(***************************************************************************)
(* Instances of OxideMachineReconciler for TLC.                            *)
(***************************************************************************)
EXTENDS OxideMachineProperties, Integers, Sequences, TLC

CONSTANTS m1, m2, n1, n2, i1, i2

(***************************************************************************)
(* Names as naming.go makes them, over a few characters, so short that     *)
(* there is a limit to reach, and with a hash of one character.            *)
(***************************************************************************)
LowerCase(c) == c
Parity(s) == IF Len(s) % 2 = 0 THEN <<"0">> ELSE <<"1">>
DataDisk(idx) == <<"d">>

N == INSTANCE ResourceNames WITH
        Char <- {"a", "b", "c", "d", "f", "i", "n", "0", "1", "-"},
        Dash <- "-", Lower <- LowerCase, Hash <- Parity, maxResourceLength <- 8,
        instancePrefix <- <<"i">>, nicPrefix <- <<"n">>, bootDiskPrefix <- <<"b">>,
        floatingIPPrefix <- <<"f">>, dataDiskPrefix <- DataDisk

Named(ns, nm) == [namespace |-> ns, name |-> nm]

\* n1 is the instance name of the first machine, n2 any other.
NamesOf(first, second) ==
    m1 :> n1 @@ m2 :> IF N!getInstanceName(second) = N!getInstanceName(first) THEN n1 ELSE n2

\* One machine; two machines of one name in two namespaces.
OneName == m1 :> n1
TwoNames == NamesOf(Named(<<"a">>, <<"c">>), Named(<<"b">>, <<"c">>))

\* Machine "c" of namespace "a-b" and machine "b-c" of namespace "a".
OneNameForTwo == NamesOf(Named(<<"a", "-", "b">>, <<"c">>), Named(<<"a">>, <<"b", "-", "c">>))

\* For safety alone, the steps after faults have ended add nothing.
Unsettled == ~quiet

\* Ids are handed out in one order.  They are interchangeable: this is the symmetry among
\* them in a form that is sound for liveness as well.
IdsInOrder == i2 \in used => i1 \in used

\* Ids are interchangeable; so are two machines together with their names.
IdSymmetry == Permutations({i1, i2})
TwinSymmetry == IdSymmetry \cup {m1 :> m2 @@ m2 :> m1 @@ n1 :> n2 @@ n2 :> n1}
==============================================================================
