--------------------------- MODULE OptionsProofs ----------------------------
(***************************************************************************)
(* What validate and the address table do to any list of backends.         *)
(***************************************************************************)
EXTENDS Options, WellFoundedInduction, TLAPS

-----------------------------------------------------------------------------
(***************************************************************************)
(* Names.                                                                  *)
(***************************************************************************)
\* A text without blanks, or in lower case, stays as it is.
LEMMA TextMade ==
  ASSUME NEW w \in Words, NEW u \in BOOLEAN, NEW p \in BOOLEAN
  PROVE  LET t == [word |-> w, upper |-> u, pad |-> p]
         IN  /\ t \in Texts
             /\ ~p => TrimSpace(t) = t
             /\ ~u => ToLower(t) = t
<1> DEFINE t == [word |-> w, upper |-> u, pad |-> p]
<1>1. t \in Texts /\ t.upper = u /\ t.pad = p
  BY DEF Texts
<1> HIDE DEF t
<1>2. ~p => TrimSpace(t) = t
  BY <1>1 DEF Texts, TrimSpace
<1>3. ~u => ToLower(t) = t
  BY <1>1 DEF Texts, ToLower
<1> QED
  BY <1>1, <1>2, <1>3 DEF t

\* A constant text needs no trimming and no folding.
LEMMA TextPlain ==
  ASSUME NEW w \in Words
  PROVE  Text(w) \in Texts /\ TrimSpace(Text(w)) = Text(w) /\ ToLower(Text(w)) = Text(w)
<1>1. FALSE \in BOOLEAN
  OBVIOUS
<1> QED
  BY <1>1, TextMade, Zenon DEF Text

LEMMA AutoPlain ==
  /\ Text("auto") \in Texts /\ Text("none") \in Texts
  /\ TrimSpace(Text("auto")) = Text("auto") /\ ToLower(Text("auto")) = Text("auto")
  /\ Text("none") # Text("")
<1>1. "auto" \in Words /\ "none" \in Words
  BY OptionsAssumption
<1>2. Text("none").word # Text("").word
  BY DEF Text
<1>3. Text("none") # Text("")
  BY <1>2, Zenon
<1> QED
  BY <1>1, <1>3, TextPlain, Zenon

\* The lookup name of a name is its own, and a name's with the blanks gone.
LEMMA LookupName ==
  ASSUME NEW n \in Texts
  PROVE  /\ TrimSpace(n) \in Texts
         /\ backendLookupName(n) \in Texts
         /\ backendLookupName(backendLookupName(n)) = backendLookupName(n)
         /\ backendLookupName(TrimSpace(n)) = backendLookupName(n)
         /\ TrimSpace(TrimSpace(n)) = TrimSpace(n)
BY DEF Texts, backendLookupName, ToLower, TrimSpace

\* A set of naturals that is not empty has a least element, and Min is it.
LEMMA MinOf ==
  ASSUME NEW S \in SUBSET Nat, S # {}
  PROVE  Min(S) \in S /\ \A y \in S : Min(S) <= y
<1>1. \E x \in S : \A y \in S : ~(<<y, x>> \in OpToRel(<, Nat))
  BY NatLessThanWellFounded, WFMin, Zenon
<1>2. PICK x \in S : \A y \in S : ~(<<y, x>> \in OpToRel(<, Nat))
  BY <1>1
<1>3. ASSUME NEW y \in S PROVE x <= y
  <2>1. <<y, x>> \in Nat \X Nat /\ <<y, x>> \notin OpToRel(<, Nat)
    BY <1>2
  <2>2. ~(<<y, x>>[1] < <<y, x>>[2])
    BY <2>1 DEF OpToRel
  <2> QED
    BY <2>2
<1> QED
  BY <1>3 DEF Min

-----------------------------------------------------------------------------
(***************************************************************************)
(* normalizeBackend.                                                       *)
(***************************************************************************)
\* A backend's fields have their types, and so have a trimmed backend's.
LEMMA TrimmedFields ==
  ASSUME NEW b \in Backends
  PROVE  /\ b.name \in Texts /\ b.address \in HostPorts /\ b.version \in Texts
         /\ b.forwarding \in Texts /\ b.detect \in BOOLEAN
         /\ Trimmed(b) \in Backends
         /\ Trimmed(b).name = TrimSpace(b.name)
         /\ Trimmed(b).address = TrimSpace(b.address)
         /\ Trimmed(b).version = TrimSpace(b.version)
         /\ Trimmed(b).forwarding = b.forwarding /\ Trimmed(b).detect = b.detect
<1>1. /\ b.name \in Texts /\ b.address \in HostPorts /\ b.version \in Texts
      /\ b.forwarding \in Texts /\ b.detect \in BOOLEAN
  BY DEF Backends
<1>2. TrimSpace(b.address) \in HostPorts
  BY <1>1 DEF HostPorts, TrimSpace
<1>3. TrimSpace(b.name) \in Texts /\ TrimSpace(b.version) \in Texts
  BY <1>1, LookupName
<1> QED
  BY <1>1, <1>2, <1>3 DEF Trimmed, Backends

\* What normalizeBackend checks does not depend on what it fills in: the verdict
\* looks at the trimmed name, the address and whether the forwarding is known.
LEMMA SameError ==
  ASSUME NEW b, NEW c,
         c.name = b.name, c.address = b.address,
         c.forwarding \in ForwardingModes \cup {Text("")}
            <=> b.forwarding \in ForwardingModes \cup {Text("")}
  PROVE  BackendError(c) = BackendError(b)
BY DEF BackendError

\* The backend that normalizeBackend leaves, by its fields.
LEMMA NormalForm ==
  ASSUME NEW b \in Backends
  PROVE  LET n == NormalizeBackend(b).backend
             auto == ToLower(TrimSpace(b.version)) \in {Text(""), Text("auto")}
         IN  /\ n \in Backends
             /\ n.name = TrimSpace(b.name)
             /\ n.address = TrimSpace(b.address)
             /\ n.version = IF auto THEN Text("auto") ELSE TrimSpace(b.version)
             /\ n.detect = (b.detect \/ auto)
             /\ n.forwarding = IF b.forwarding = Text("") THEN Text("none")
                               ELSE b.forwarding
             /\ NormalizeBackend(b).err = BackendError(Trimmed(b))
<1> DEFINE t == Trimmed(b)
           auto == ToLower(t.version) \in {Text(""), Text("auto")}
           n == [t EXCEPT !.version = IF auto THEN Text("auto") ELSE @,
                          !.detect = @ \/ auto,
                          !.forwarding = IF @ = Text("") THEN Text("none") ELSE @]
<1>1. /\ NormalizeBackend(b).backend = n
      /\ NormalizeBackend(b).err = BackendError(t)
  BY DEF NormalizeBackend
<1>2. Text("auto") \in Texts /\ Text("none") \in Texts
  BY AutoPlain
<1>3. t \in Backends
  BY TrimmedFields
<1>4. n \in Backends
  <2> HIDE DEF t
  <2> QED
    BY <1>2, <1>3 DEF Backends
<1>5. /\ n.name = t.name /\ n.address = t.address
      /\ n.version = IF auto THEN Text("auto") ELSE t.version
      /\ n.detect = (t.detect \/ auto)
      /\ n.forwarding = IF t.forwarding = Text("") THEN Text("none") ELSE t.forwarding
  <2> HIDE DEF t
  <2> QED
    BY <1>3 DEF Backends
<1> HIDE DEF n
<1> QED
  BY <1>1, <1>4, <1>5, TrimmedFields

\* A normalised backend has the name it is looked up by, gets the same verdict
\* and is left as it is.
LEMMA Normalised ==
  ASSUME NEW b \in Backends
  PROVE  LET n == NormalizeBackend(b).backend
         IN  /\ n \in Backends
             /\ backendLookupName(n.name) = backendLookupName(b.name)
             /\ NormalizeBackend(n).err = NormalizeBackend(b).err
             /\ NormalizeBackend(n).backend = n
<1> DEFINE n == NormalizeBackend(b).backend
           m == NormalizeBackend(n).backend
           auto(x) == ToLower(TrimSpace(x.version)) \in {Text(""), Text("auto")}
<1>1. /\ n \in Backends
      /\ n.name = TrimSpace(b.name)
      /\ n.address = TrimSpace(b.address)
      /\ n.version = IF auto(b) THEN Text("auto") ELSE TrimSpace(b.version)
      /\ n.detect = (b.detect \/ auto(b))
      /\ n.forwarding = IF b.forwarding = Text("") THEN Text("none")
                        ELSE b.forwarding
      /\ NormalizeBackend(b).err = BackendError(Trimmed(b))
  BY NormalForm
<1> HIDE DEF n
<1>2. /\ m \in Backends
      /\ m.name = TrimSpace(n.name)
      /\ m.address = TrimSpace(n.address)
      /\ m.version = IF auto(n) THEN Text("auto") ELSE TrimSpace(n.version)
      /\ m.detect = (n.detect \/ auto(n))
      /\ m.forwarding = IF n.forwarding = Text("") THEN Text("none")
                        ELSE n.forwarding
      /\ NormalizeBackend(n).err = BackendError(Trimmed(n))
  BY <1>1, NormalForm
<1> HIDE DEF m
<1>3. /\ TrimSpace(TrimSpace(b.address)) = TrimSpace(b.address)
      /\ TrimSpace(TrimSpace(b.name)) = TrimSpace(b.name)
      /\ TrimSpace(TrimSpace(b.version)) = TrimSpace(b.version)
      /\ backendLookupName(TrimSpace(b.name)) = backendLookupName(b.name)
  <2>1. b.address \in HostPorts /\ b.name \in Texts /\ b.version \in Texts
    BY TrimmedFields
  <2>2. TrimSpace(TrimSpace(b.address)) = TrimSpace(b.address)
    BY <2>1 DEF HostPorts, TrimSpace
  <2> QED
    BY <2>1, <2>2, LookupName
<1>4. BackendError(Trimmed(n)) = BackendError(Trimmed(b))
  <2>1. Trimmed(n).name = TrimSpace(n.name) /\ Trimmed(b).name = TrimSpace(b.name)
    BY <1>1, TrimmedFields
  <2>2. /\ Trimmed(n).address = TrimSpace(n.address)
        /\ Trimmed(b).address = TrimSpace(b.address)
    BY <1>1, TrimmedFields
  <2>3. Trimmed(n).forwarding = n.forwarding /\ Trimmed(b).forwarding = b.forwarding
    BY <1>1, TrimmedFields
  <2>4. n.forwarding \in ForwardingModes \cup {Text("")}
           <=> b.forwarding \in ForwardingModes \cup {Text("")}
    BY <1>1 DEF ForwardingModes
  <2> QED
    BY <1>1, <1>3, <2>1, <2>2, <2>3, <2>4, SameError
<1>5. m = n
  <2>1. m.name = n.name /\ m.address = n.address
    BY <1>1, <1>2, <1>3
  <2>2. m.version = n.version /\ m.detect = n.detect
    <3>1. CASE auto(b)
      <4>1. n.version = Text("auto") /\ n.detect = TRUE
        BY <1>1, <3>1
      <4>2. auto(n)
        BY <4>1, AutoPlain
      <4> QED
        BY <1>2, <4>1, <4>2
    <3>2. CASE ~auto(b)
      <4>1. TrimSpace(n.version) = n.version /\ ~auto(n)
        BY <1>1, <1>3, <3>2
      <4>2. n.detect \in BOOLEAN
        BY <1>1, TrimmedFields
      <4> QED
        BY <1>2, <4>1, <4>2
    <3> QED
      BY <3>1, <3>2
  <2>3. m.forwarding = n.forwarding
    BY <1>1, <1>2, AutoPlain
  <2>4. m \in Backends /\ n \in Backends
    BY <1>1, <1>2
  <2> QED
    BY <2>1, <2>2, <2>3, <2>4 DEF Backends
<1> QED
  BY <1>1, <1>2, <1>3, <1>4, <1>5 DEF m, n

-----------------------------------------------------------------------------
(***************************************************************************)
(* validate.                                                               *)
(***************************************************************************)
\* cs is bs with some of its backends normalised.
PartlyNormal(bs, cs) ==
    /\ Len(cs) = Len(bs)
    /\ \A i \in DOMAIN bs :
          cs[i] = bs[i] \/ cs[i] = NormalizeBackend(bs[i]).backend

\* No two backends have one lookup name.
Distinct(bs) ==
    \A i, j \in DOMAIN bs :
        backendLookupName(bs[i].name) = backendLookupName(bs[j].name) => i = j

\* The loop ends at a backend, and without an error only if no backend has one.
LEMMA LoopEnd ==
  ASSUME NEW bs \in Seq(Backends), bs # <<>>
  PROVE  /\ StopsAt(bs) \in DOMAIN bs
         /\ ErrorAt(bs, StopsAt(bs)) = "nil"
              => \A i \in DOMAIN bs : ErrorAt(bs, i) = "nil"
<1> DEFINE bad == {i \in DOMAIN bs : ErrorAt(bs, i) # "nil"}
<1>1. DOMAIN bs = 1..Len(bs) /\ Len(bs) \in Nat /\ Len(bs) # 0
  OBVIOUS
<1>2. CASE bad = {}
  BY <1>1, <1>2 DEF StopsAt
<1>3. CASE bad # {}
  <2>1. StopsAt(bs) = Min(bad)
    BY <1>3 DEF StopsAt
  <2>2. Min(bad) \in bad
    <3>1. bad \in SUBSET Nat
      BY <1>1
    <3> HIDE DEF bad
    <3> QED
      BY <1>3, <3>1, MinOf
  <2> QED
    BY <2>1, <2>2
<1> QED
  BY <1>2, <1>3

\* Normalising some of the backends changes no verdict of the loop: the lookup
\* names it compares are the same.
LEMMA LoopAgain ==
  ASSUME NEW bs \in Seq(Backends), NEW cs \in Seq(Backends), PartlyNormal(bs, cs)
  PROVE  /\ DOMAIN cs = DOMAIN bs
         /\ \A i \in DOMAIN bs :
              /\ backendLookupName(cs[i].name) = backendLookupName(bs[i].name)
              /\ NormalizeBackend(cs[i]).err = NormalizeBackend(bs[i]).err
              /\ NormalizeBackend(cs[i]).backend = NormalizeBackend(bs[i]).backend
              /\ ErrorAt(cs, i) = ErrorAt(bs, i)
              /\ Written(cs, i) <=> Written(bs, i)
         /\ StopsAt(cs) = StopsAt(bs)
<1>1. DOMAIN cs = DOMAIN bs /\ DOMAIN bs = 1..Len(bs) /\ Len(bs) \in Nat
  BY DEF PartlyNormal
<1>2. ASSUME NEW i \in DOMAIN bs
      PROVE  /\ backendLookupName(cs[i].name) = backendLookupName(bs[i].name)
             /\ NormalizeBackend(cs[i]).err = NormalizeBackend(bs[i]).err
             /\ NormalizeBackend(cs[i]).backend = NormalizeBackend(bs[i]).backend
  <2>1. bs[i] \in Backends
    BY <1>1
  <2>2. CASE cs[i] = bs[i]
    BY <2>2
  <2>3. CASE cs[i] = NormalizeBackend(bs[i]).backend
    BY <2>1, <2>3, Normalised
  <2> QED
    BY <2>2, <2>3 DEF PartlyNormal
<1>3. ASSUME NEW i \in DOMAIN bs
      PROVE  Duplicated(cs, i) <=> Duplicated(bs, i)
  <2>1. \A j \in 1..(i - 1) : j \in DOMAIN bs
    BY <1>1
  <2> QED
    BY <1>2, <2>1 DEF Duplicated
<1>4. \A i \in DOMAIN bs : ErrorAt(cs, i) = ErrorAt(bs, i)
  BY <1>2, <1>3 DEF ErrorAt
<1>5. StopsAt(cs) = StopsAt(bs)
  <2>1. {i \in DOMAIN cs : ErrorAt(cs, i) # "nil"}
          = {i \in DOMAIN bs : ErrorAt(bs, i) # "nil"}
    BY <1>1, <1>4
  <2>2. Len(cs) = Len(bs)
    BY DEF PartlyNormal
  <2> QED
    BY <2>1, <2>2 DEF StopsAt
<1>6. \A i \in DOMAIN bs : Written(cs, i) <=> Written(bs, i)
  BY <1>2, <1>5 DEF Written
<1> QED
  BY <1>1, <1>2, <1>4, <1>5, <1>6

\* validate leaves a list of backends, partly normalised.
LEMMA Rewritten ==
  ASSUME NEW o, o.backends \in Seq(Backends)
  PROVE  /\ Validate(o).backends \in Seq(Backends)
         /\ PartlyNormal(o.backends, Validate(o).backends)
<1> DEFINE bs == o.backends
           cs == [i \in DOMAIN bs |->
                    IF Written(bs, i) THEN NormalizeBackend(bs[i]).backend ELSE bs[i]]
<1>1. Validate(o).backends = bs \/ Validate(o).backends = cs
  BY DEF Validate
<1>2. PartlyNormal(bs, bs)
  BY DEF PartlyNormal
<1>3. \A i \in DOMAIN bs : bs[i] \in Backends /\ NormalizeBackend(bs[i]).backend \in Backends
  BY Normalised
<1>4. DOMAIN bs = 1..Len(bs) /\ Len(bs) \in Nat
  OBVIOUS
<1>5. cs \in Seq(Backends) /\ Len(cs) = Len(bs)
  <2>1. cs \in [1..Len(bs) -> Backends]
    BY <1>3, <1>4
  <2> HIDE DEF cs
  <2> QED
    BY <1>4, <2>1
<1>6. PartlyNormal(bs, cs)
  BY <1>5 DEF PartlyNormal
<1> QED
  BY <1>1, <1>2, <1>5, <1>6

\* validate may be called again with what it left in the caller's slice: for
\* every list of backends, accepted or refused half-way, the verdict and the
\* backends are those of the first call.
THEOREM ValidateAgain ==
  ASSUME NEW o, NEW p, o.backends \in Seq(Backends),
         p.mode = o.mode, p.dynamic = o.dynamic,
         p.backends = Validate(o).backends
  PROVE  Validate(p) = Validate(o)
<1> DEFINE bs == o.backends
           cs == p.backends
           out(xs) == [i \in DOMAIN xs |->
                         IF Written(xs, i) THEN NormalizeBackend(xs[i]).backend
                         ELSE xs[i]]
<1>1. CASE o.mode \notin Modes \/ bs = <<>>
  BY <1>1 DEF Validate
<1>2. CASE o.mode \in Modes /\ bs # <<>>
  <2>1. /\ Validate(o) = [err |-> ErrorAt(bs, StopsAt(bs)), backends |-> out(bs)]
        /\ cs = out(bs)
    BY <1>2 DEF Validate
  <2>2. cs \in Seq(Backends) /\ PartlyNormal(bs, cs)
    BY Rewritten
  <2>3. cs # <<>>
    BY <1>2, <2>2 DEF PartlyNormal
  <2>4. Validate(p) = [err |-> ErrorAt(cs, StopsAt(cs)), backends |-> out(cs)]
    BY <1>2, <2>3 DEF Validate
  <2>5. ErrorAt(cs, StopsAt(cs)) = ErrorAt(bs, StopsAt(bs))
    BY <1>2, <2>2, LoopAgain, LoopEnd
  <2>6. out(cs) = out(bs)
    <3>1. ASSUME NEW i \in DOMAIN bs PROVE out(cs)[i] = out(bs)[i]
      BY <2>1, <2>2, LoopAgain
    <3> QED
      BY <2>2, <3>1, LoopAgain
  <2> QED
    BY <2>1, <2>4, <2>5, <2>6
<1> QED
  BY <1>1, <1>2

\* The lookup names of what validate accepts are distinct, as it leaves them.
LEMMA AcceptedDistinct ==
  ASSUME NEW o, o.backends \in Seq(Backends), Validate(o).err = "nil"
  PROVE  Distinct(Validate(o).backends)
<1> DEFINE bs == o.backends
           cs == Validate(o).backends
<1>1. CASE bs = <<>>
  <2>1. cs = <<>>
    BY <1>1 DEF Validate
  <2> QED
    BY <2>1 DEF Distinct
<1>2. CASE bs # <<>>
  <2>1. cs \in Seq(Backends) /\ PartlyNormal(bs, cs)
    BY Rewritten
  <2>2. ErrorAt(bs, StopsAt(bs)) = "nil"
    BY <1>2 DEF Validate
  <2>3. \A i \in DOMAIN bs : ErrorAt(bs, i) = "nil"
    BY <1>2, <2>2, LoopEnd
  <2>4. \A i \in DOMAIN bs : ~Duplicated(bs, i)
    BY <2>3 DEF ErrorAt
  <2>5. ASSUME NEW i \in DOMAIN bs, NEW j \in DOMAIN bs, i < j
        PROVE  backendLookupName(bs[i].name) # backendLookupName(bs[j].name)
    BY <2>4, <2>5 DEF Duplicated
  <2>6. Distinct(bs)
    BY <2>5 DEF Distinct
  <2>7. /\ DOMAIN cs = DOMAIN bs
        /\ \A i \in DOMAIN bs :
              backendLookupName(cs[i].name) = backendLookupName(bs[i].name)
    BY <2>1, LoopAgain
  <2> QED
    BY <2>6, <2>7 DEF Distinct
<1> QED
  BY <1>1, <1>2

\* Every verdict of validate is one of the errors New can return, or none.
LEMMA VerdictIn ==
  ASSUME NEW o, o.backends \in Seq(Backends)
  PROVE  Validate(o).err \in Errors \cup {"nil"}
<1> DEFINE bs == o.backends
<1>1. CASE o.mode \notin Modes \/ bs = <<>>
  BY <1>1 DEF Validate, Errors
<1>2. CASE o.mode \in Modes /\ bs # <<>>
  <2>1. Validate(o).err = ErrorAt(bs, StopsAt(bs))
    BY <1>2 DEF Validate
  <2>2. bs[StopsAt(bs)] \in Backends
    BY <1>2, LoopEnd
  <2>3. NormalizeBackend(bs[StopsAt(bs)]).err = BackendError(Trimmed(bs[StopsAt(bs)]))
    BY <2>2, NormalForm
  <2>4. BackendError(Trimmed(bs[StopsAt(bs)])) \in Errors \cup {"nil"}
    BY DEF BackendError, Errors
  <2> QED
    BY <2>1, <2>3, <2>4 DEF ErrorAt, Errors
<1> QED
  BY <1>1, <1>2

-----------------------------------------------------------------------------
(***************************************************************************)
(* The address table.                                                      *)
(***************************************************************************)
\* The table gives each backend its own address, under its name and its lookup
\* name, and knows no other name.
Serves(table, bs, addr) ==
    /\ \A i \in DOMAIN bs : /\ bs[i].name \in DOMAIN table
                            /\ backendLookupName(bs[i].name) \in DOMAIN table
    /\ \A n \in DOMAIN table, i \in DOMAIN bs :
          backendLookupName(n) = backendLookupName(bs[i].name) => table[n] = addr[i]
    /\ \A n \in DOMAIN table : \E i \in DOMAIN bs :
          backendLookupName(n) = backendLookupName(bs[i].name)

\* So does the table made from backends with distinct lookup names.
LEMMA TableOf ==
  ASSUME NEW bs \in Seq(Backends), Distinct(bs), NEW a
  PROVE  Serves(AddressTable(bs, a), bs, a)
<1> DEFINE keys(i) == {bs[i].name, backendLookupName(bs[i].name)}
           all == UNION {keys(i) : i \in DOMAIN bs}
           table == AddressTable(bs, a)
<1>1. /\ DOMAIN table = all
      /\ \A n \in all : table[n] = a[Max({i \in DOMAIN bs : n \in keys(i)})]
  BY DEF AddressTable
<1>2. ASSUME NEW i \in DOMAIN bs
      PROVE  /\ bs[i].name \in Texts
             /\ \A n \in keys(i) :
                  n \in Texts /\ backendLookupName(n) = backendLookupName(bs[i].name)
  <2>1. bs[i].name \in Texts
    BY TrimmedFields
  <2> QED
    BY <2>1, LookupName
<1>3. ASSUME NEW n \in all
      PROVE  \E i \in DOMAIN bs : n \in keys(i) /\ {j \in DOMAIN bs : n \in keys(j)} = {i}
  <2>1. PICK i \in DOMAIN bs : n \in keys(i)
    OBVIOUS
  <2>2. \A j \in DOMAIN bs : n \in keys(j) => j = i
    <3> HIDE DEF keys
    <3> QED
      BY <1>2, <2>1 DEF Distinct
  <2> QED
    BY <2>1, <2>2
<1>4. \A i \in DOMAIN bs : Max({i}) = i
  <2>1. \A i \in DOMAIN bs : i \in Nat
    OBVIOUS
  <2> QED
    BY <2>1 DEF Max
<1>5. ASSUME NEW n \in DOMAIN table
      PROVE  \E i \in DOMAIN bs :
                /\ backendLookupName(n) = backendLookupName(bs[i].name)
                /\ table[n] = a[i]
  <2> HIDE DEF table, all, keys
  <2> QED
    BY <1>1, <1>2, <1>3, <1>4, <1>5
<1>6. \A i \in DOMAIN bs :
        bs[i].name \in DOMAIN table /\ backendLookupName(bs[i].name) \in DOMAIN table
  BY <1>1
<1> HIDE DEF table
<1>7. \A n \in DOMAIN table, i \in DOMAIN bs :
        backendLookupName(n) = backendLookupName(bs[i].name) => table[n] = a[i]
  BY <1>5 DEF Distinct
<1> QED
  BY <1>5, <1>6, <1>7 DEF table, Serves

=============================================================================
