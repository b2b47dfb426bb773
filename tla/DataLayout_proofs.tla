------------------------- MODULE DataLayout_proofs -------------------------
(***************************************************************************)
(* A reference reaches its object, for files of any number of objects and  *)
(* data lines, whatever their alignments and sizes.                        *)
(***************************************************************************)
EXTENDS DataLayout, SequenceTheorems, TLAPS

Origins == {"pad", "comm", "long", "zero"}
Output == [of : Nat, from : Origins]
Written(o, from) == [of |-> o, from |-> from]
Entry == [name : Nat \ {0}, addr : Nat, of : Nat \ {0}]

-----------------------------------------------------------------------------
(* The inductive invariant.                                                *)

Typed ==
  /\ TypeOK
  /\ info \in Seq(Entry) /\ out \in Seq(Output)
  /\ \A i \in 1..Len(out) : out[i].from = "zero" => out[i].of # Pad

\* The entries are of objects that were read; a saved name is of a later one.
Entries ==
  /\ \A k \in 1..Len(info) : info[k].of =< seen /\ (name # 0 => info[k].of < name)
  /\ pc = "data" => name = 0 /\ Len(info) > 0 /\ info[Len(info)].of = seen

\* While there is no .zero, $pos and $size count the bytes that are written.
NoZeros == \A i \in 1..Len(out) : out[i].from # "zero"
Position ==
  /\ pc = "scan" /\ NoZeros => pos = 4 * Len(out)
  /\ pc = "data" /\ NoZeros => pos + size = 4 * Len(out)

\* After n words of others come those of object o, or its data lines are
\* still to come.
BeginsAfter(n, o) ==
  /\ \A i \in 1..n : out[i].of # o
  /\ \/ n < Len(out) /\ out[n + 1].of = o
     \/ /\ \A i \in 1..Len(out) : out[i].of # o
        /\ pc = "data" /\ o = seen => n = Len(out)

Beginnings ==
  \A k \in 1..Len(info) :
    ~ZeroBefore(info[k].of) =>
      \E n \in 0..Len(out) : info[k].addr = 4 * n /\ BeginsAfter(n, info[k].of)

\* All words but the padding are of objects with an entry.
Covered ==
  \A i \in 1..Len(out) :
    out[i].of # Pad => \E k \in 1..Len(info) : info[k].of = out[i].of

Resolved == ref.sym # 0 => pc = "code" /\ ref.addr = Address(ref.sym)

IInv == Typed /\ Entries /\ Position /\ Beginnings /\ Covered /\ Resolved
-----------------------------------------------------------------------------
(* The numbers and the words written.                                      *)

LEMMA WordsForFacts ==
  ASSUME NEW bytes \in Int, bytes >= 0
  PROVE  WordsFor(bytes) \in Nat /\ (bytes > 0 => WordsFor(bytes) > 0)
BY DEF WordsFor

LEMMA PaddingFacts ==
  ASSUME TypeOK, NEW align \in Aligns
  PROVE  Padding(align) \in Nat
<1>1. align \in Nat \ {0} /\ pos \in Nat BY BytesAssumption DEF TypeOK
<1> DEFINE q == (pos + align - 1) \div align
<1>2. q \in Int /\ align * q + ((pos + align - 1) % align) = pos + align - 1
  BY <1>1
<1>3. (pos + align - 1) % align \in 0..(align - 1) BY <1>1
<1>4. align * q \in Int BY <1>1, <1>2
<1> HIDE DEF q
<1>5. align * q - pos >= 0 BY <1>1, <1>2, <1>3, <1>4
<1>6. WordsFor(align * q - pos) \in Nat BY <1>1, <1>4, <1>5, WordsForFacts
<1> QED BY <1>6 DEF Padding, q

LEMMA WrittenFacts == \A o, from : Written(o, from).of = o /\ Written(o, from).from = from
BY DEF Written

\* Words are appended behind those that are there.
LEMMA WordsGrow ==
  ASSUME NEW q \in Seq(Output), NEW n \in Nat, NEW o \in Nat,
         NEW from \in Origins
  PROVE  /\ q \o Words(n, o, from) \in Seq(Output)
         /\ Len(q \o Words(n, o, from)) = Len(q) + n
         /\ \A i \in 1..Len(q) : (q \o Words(n, o, from))[i] = q[i]
         /\ \A i \in 1..n : (q \o Words(n, o, from))[Len(q) + i] = Written(o, from)
<1> DEFINE w == Words(n, o, from)
<1>1. Written(o, from) \in Output BY DEF Output, Written
<1>2. w = [i \in 1..n |-> Written(o, from)] BY DEF Words, Written
<1>3. w \in Seq(Output) /\ Len(w) = n /\ \A i \in 1..n : w[i] = Written(o, from)
  BY <1>1, <1>2
<1> HIDE DEF w
<1>4. /\ q \o w \in Seq(Output) /\ Len(q \o w) = Len(q) + n
      /\ \A i \in 1..(Len(q) + n) : (q \o w)[i] = IF i <= Len(q) THEN q[i] ELSE w[i - Len(q)]
  BY <1>3, ConcatProperties
<1>5. Len(q) \in Nat OBVIOUS
<1>6. \A i \in 1..Len(q) : (q \o w)[i] = q[i] BY <1>4, <1>5
<1>7. ASSUME NEW i \in 1..n PROVE (q \o w)[Len(q) + i] = Written(o, from)
  <2>1. Len(q) + i \in 1..(Len(q) + n) /\ ~(Len(q) + i <= Len(q)) /\ Len(q) + i - Len(q) = i
    BY <1>5
  <2> QED BY <1>3, <1>4, <2>1
<1> QED BY <1>4, <1>6, <1>7 DEF w

\* The output grows by p words of padding and m words of object o.
Grown(p, m, o, from) ==
  /\ out' \in Seq(Output) /\ Len(out') = Len(out) + p + m
  /\ \A i \in 1..Len(out) : out'[i] = out[i]
  /\ \A i \in (Len(out) + 1)..(Len(out) + p) : out'[i] = Written(Pad, "pad")
  /\ \A i \in (Len(out) + p + 1)..(Len(out) + p + m) : out'[i] = Written(o, from)

LEMMA PadGrows ==
  ASSUME Typed, NEW p \in Nat, out' = out \o Words(p, Pad, "pad"), NEW o, NEW from
  PROVE  Grown(p, 0, o, from)
<1>1. /\ out' \in Seq(Output) /\ Len(out') = Len(out) + p
      /\ \A i \in 1..Len(out) : out'[i] = out[i]
      /\ \A i \in 1..p : out'[Len(out) + i] = Written(Pad, "pad")
  <2>1. out \in Seq(Output) /\ Pad \in Nat /\ "pad" \in Origins BY DEF Typed, Pad, Origins
  <2> QED BY <2>1, WordsGrow
<1>2. Len(out) \in Nat BY DEF Typed
<1>3. ASSUME NEW i \in (Len(out) + 1)..(Len(out) + p)
      PROVE  out'[i] = Written(Pad, "pad")
  <2>1. i - Len(out) \in 1..p /\ Len(out) + (i - Len(out)) = i BY <1>2
  <2> QED BY <1>1, <2>1
<1> QED BY <1>1, <1>2, <1>3 DEF Grown

LEMMA ObjectGrows ==
  ASSUME Typed, NEW p \in Nat, NEW m \in Nat, NEW o \in Nat,
         NEW from \in {"comm", "long", "zero"},
         out' = out \o Words(p, Pad, "pad") \o Words(m, o, from)
  PROVE  Grown(p, m, o, from)
<1>1. PICK q : q = out \o Words(p, Pad, "pad") OBVIOUS
<1>2. /\ q \in Seq(Output) /\ Len(q) = Len(out) + p
      /\ \A i \in 1..Len(out) : q[i] = out[i]
      /\ \A i \in 1..p : q[Len(out) + i] = Written(Pad, "pad")
  <2>1. out \in Seq(Output) /\ Pad \in Nat /\ "pad" \in Origins BY DEF Typed, Pad, Origins
  <2>2. /\ out \o Words(p, Pad, "pad") \in Seq(Output)
        /\ Len(out \o Words(p, Pad, "pad")) = Len(out) + p
        /\ \A i \in 1..Len(out) : (out \o Words(p, Pad, "pad"))[i] = out[i]
        /\ \A i \in 1..p : (out \o Words(p, Pad, "pad"))[Len(out) + i] = Written(Pad, "pad")
    BY <2>1, WordsGrow
  <2> QED BY <1>1, <2>2
<1>3. /\ out' \in Seq(Output) /\ Len(out') = Len(q) + m
      /\ \A i \in 1..Len(q) : out'[i] = q[i]
      /\ \A i \in 1..m : out'[Len(q) + i] = Written(o, from)
  <2>1. out' = q \o Words(m, o, from) /\ from \in Origins BY <1>1 DEF Origins
  <2>2. q \in Seq(Output) BY <1>2
  <2>3. /\ q \o Words(m, o, from) \in Seq(Output)
        /\ Len(q \o Words(m, o, from)) = Len(q) + m
        /\ \A i \in 1..Len(q) : (q \o Words(m, o, from))[i] = q[i]
        /\ \A i \in 1..m : (q \o Words(m, o, from))[Len(q) + i] = Written(o, from)
    BY <2>1, <2>2, WordsGrow
  <2> QED BY <2>1, <2>3
<1>4. Len(out) \in Nat /\ Len(q) \in Nat BY <1>2 DEF Typed
<1>5. ASSUME NEW i \in (Len(out) + 1)..(Len(out) + p)
      PROVE  out'[i] = Written(Pad, "pad")
  <2>1. Len(q) = Len(out) + p BY <1>2
  <2>2. i - Len(out) \in 1..p /\ Len(out) + (i - Len(out)) = i /\ i \in 1..Len(q)
    BY <1>4, <2>1
  <2> QED BY <1>2, <1>3, <2>2
<1>6. ASSUME NEW i \in (Len(out) + p + 1)..(Len(out) + p + m)
      PROVE  out'[i] = Written(o, from)
  <2>1. Len(q) = Len(out) + p BY <1>2
  <2>2. i - Len(q) \in 1..m /\ Len(q) + (i - Len(q)) = i BY <1>4, <2>1
  <2> QED BY <1>3, <2>2
<1>7. \A i \in 1..Len(out) : out'[i] = out[i] BY <1>2, <1>3, <1>4
<1> QED BY <1>2, <1>3, <1>4, <1>5, <1>6, <1>7 DEF Grown

\* Data lines write only words of the object under way.
LEMMA LineGrows ==
  ASSUME Typed, NEW m \in Nat, NEW o \in Nat, NEW from \in {"comm", "long", "zero"},
         out' = out \o Words(m, o, from)
  PROVE  Grown(0, m, o, from)
<1>1. /\ out' \in Seq(Output) /\ Len(out') = Len(out) + m
      /\ \A i \in 1..Len(out) : out'[i] = out[i]
      /\ \A i \in 1..m : out'[Len(out) + i] = Written(o, from)
  <2>1. out \in Seq(Output) /\ from \in Origins BY DEF Typed, Origins
  <2> QED BY <2>1, WordsGrow
<1>2. Len(out) \in Nat BY DEF Typed
<1>3. ASSUME NEW i \in (Len(out) + 0 + 1)..(Len(out) + 0 + m)
      PROVE  out'[i] = Written(o, from)
  <2>1. i - Len(out) \in 1..m /\ Len(out) + (i - Len(out)) = i BY <1>2
  <2> QED BY <1>1, <2>1
<1> QED BY <1>1, <1>2, <1>3 DEF Grown

\* A word of the output is an old one, padding, or one of the new object.
LEMMA GrownWords ==
  ASSUME Typed, NEW p \in Nat, NEW m \in Nat, NEW o \in Nat, NEW from, Grown(p, m, o, from),
         NEW i \in 1..Len(out')
  PROVE  \/ i \in 1..Len(out) /\ out'[i] = out[i]
         \/ i > Len(out) /\ i =< Len(out) + p /\ out'[i] = Written(Pad, "pad")
         \/ i > Len(out) + p /\ out'[i] = Written(o, from)
<1>1. Len(out) \in Nat /\ i \in 1..(Len(out) + p + m) BY DEF Typed, Grown
<1>2. CASE i =< Len(out) BY <1>1, <1>2 DEF Grown
<1>3. CASE i > Len(out) /\ i =< Len(out) + p
  <2>1. i \in (Len(out) + 1)..(Len(out) + p) BY <1>1, <1>3
  <2> QED BY <1>3, <2>1 DEF Grown
<1>4. CASE i > Len(out) + p
  <2>1. i \in (Len(out) + p + 1)..(Len(out) + p + m) BY <1>1, <1>4
  <2> QED BY <1>4, <2>1 DEF Grown
<1> QED BY <1>1, <1>2, <1>3, <1>4

-----------------------------------------------------------------------------
(* An object begins.                                                       *)

LEMMA NextNameFacts ==
  ASSUME Typed, Entries
  PROVE  /\ NextName \in 1..(seen + 1)
         /\ \A k \in 1..Len(info) : info[k].of < NextName
<1>1. seen \in Nat /\ name \in 0..seen BY MaxAssumption DEF Typed, TypeOK
<1>2. \A k \in 1..Len(info) : info[k] \in Entry BY DEF Typed
<1>3. \A k \in 1..Len(info) : info[k].of \in Nat BY <1>2 DEF Entry
<1> QED BY <1>1, <1>3 DEF NextName, Entries

LEMMA EntriesRead ==
  ASSUME Typed, Entries
  PROVE  \A k \in 1..Len(info) : info[k].of \in Nat \ {0} /\ info[k].of =< seen
<1>1. \A k \in 1..Len(info) : info[k] \in Entry BY DEF Typed
<1> QED BY <1>1 DEF Entry, Entries

\* Of the words written so far, none is of an object that was not yet read.
LEMMA OldWords ==
  ASSUME Typed
  PROVE  \A i \in 1..Len(out) : out[i].of \in 0..seen
BY DEF Typed, TypeOK

\* A zero word of an earlier object stays one.
LEMMA ZeroStays ==
  ASSUME Typed, NEW p \in Nat, NEW m \in Nat, NEW o \in Nat, NEW from, Grown(p, m, o, from),
         NEW obj, ZeroBefore(obj)
  PROVE  ZeroBefore(obj)'
<1>1. PICK i \in 1..Len(out) : out[i].from = "zero" /\ out[i].of < obj /\ out[i].of # Pad
  BY DEF ZeroBefore, Typed
<1>2. i \in 1..Len(out') /\ DOMAIN out' = 1..Len(out') BY DEF Typed, Grown
<1>3. out'[i] = out[i] BY DEF Grown
<1> QED BY <1>1, <1>2, <1>3 DEF ZeroBefore

\* Where an earlier object begins does not change.
LEMMA BeginningStays ==
  ASSUME Typed, NEW p \in Nat, NEW m \in Nat, NEW o \in Nat, NEW from, Grown(p, m, o, from),
         NEW obj \in Nat \ {0}, obj # o, obj =< seen, seen' >= seen, pc' = "data" => o = seen',
         NEW n \in 0..Len(out), BeginsAfter(n, obj)
  PROVE  n \in 0..Len(out') /\ BeginsAfter(n, obj)'
<1>1. Len(out) \in Nat /\ Len(out') = Len(out) + p + m BY DEF Typed, Grown
<1>2. \A i \in 1..n : out'[i].of # obj
  <2>1. \A i \in 1..n : i \in 1..Len(out) BY <1>1
  <2> QED BY <2>1 DEF Grown, BeginsAfter
<1>3. CASE n < Len(out) /\ out[n + 1].of = obj
  <2>1. n + 1 \in 1..Len(out) /\ n < Len(out') BY <1>1, <1>3
  <2>2. out'[n + 1] = out[n + 1] BY <2>1 DEF Grown
  <2> QED BY <1>1, <1>2, <1>3, <2>1, <2>2 DEF BeginsAfter
<1>4. CASE \A i \in 1..Len(out) : out[i].of # obj
  <2>1. \A i \in 1..Len(out') : out'[i].of # obj
    <3> SUFFICES ASSUME NEW i \in 1..Len(out') PROVE out'[i].of # obj OBVIOUS
    <3>1. \/ i \in 1..Len(out) /\ out'[i] = out[i]
          \/ out'[i] = Written(Pad, "pad")
          \/ out'[i] = Written(o, from)
      BY GrownWords
    <3> QED BY <1>4, <3>1, WrittenFacts DEF Pad
  <2>2. ~(pc' = "data" /\ obj = seen') OBVIOUS
  <2> QED BY <1>1, <1>2, <2>1, <2>2 DEF BeginsAfter
<1> QED BY <1>3, <1>4 DEF BeginsAfter

\* What .globl and .comm do: the new entry is of the next object, which
\* begins behind the padding.
NewEntry(p, m) ==
  /\ pc = "scan" /\ seen < MaxObjects
  /\ seen' = seen + 1 /\ name' = 0
  /\ info' = Append(info, [name |-> NextName, addr |-> pos + 4 * p, of |-> seen + 1])
  /\ Grown(p, m, seen + 1, "comm")
  /\ pos' = pos + 4 * (p + m)
  /\ \/ pc' = "data" /\ m = 0 /\ size' = 0 /\ declared' = 0 /\ lines' = 0
     \/ pc' = "scan" /\ m > 0 /\ UNCHANGED object
  /\ UNCHANGED <<aborted, ref>>

LEMMA NewInfo ==
  ASSUME Typed, Entries, NEW p \in Nat, NEW m \in Nat, NewEntry(p, m)
  PROVE  /\ info' \in Seq(Entry) /\ Len(info') = Len(info) + 1
         /\ \A k \in 1..Len(info) : info'[k] = info[k]
         /\ info'[Len(info) + 1] = [name |-> NextName, addr |-> pos + 4 * p, of |-> seen + 1]
<1>1. seen \in Nat /\ pos \in Nat BY MaxAssumption DEF Typed, TypeOK
<1>2. NextName \in Nat \ {0} BY <1>1, NextNameFacts
<1>3. [name |-> NextName, addr |-> pos + 4 * p, of |-> seen + 1] \in Entry
  BY <1>1, <1>2 DEF Entry
<1> QED BY <1>3, AppendProperties DEF NewEntry, Typed

LEMMA NewTyped ==
  ASSUME Typed, Entries, NEW p \in Nat, NEW m \in Nat, NewEntry(p, m)
  PROVE  Typed' /\ Entries'
<1>1. /\ seen \in 0..MaxObjects /\ seen < MaxObjects /\ MaxObjects \in Nat /\ pos \in Nat
      /\ size \in Nat /\ declared \in Nat /\ lines \in 0..MaxLines /\ MaxLines \in Nat
      /\ aborted \in BOOLEAN /\ ref.sym \in 0..MaxObjects
  BY MaxAssumption DEF Typed, TypeOK, NewEntry
<1>2. /\ Len(info) \in Nat /\ \A k \in 1..Len(info) : info[k] \in Entry /\ info[k].of =< seen
      /\ DOMAIN info = 1..Len(info)
  BY DEF Typed, Entries
<1>3. /\ info' \in Seq(Entry) /\ Len(info') = Len(info) + 1 /\ DOMAIN info' = 1..Len(info')
      /\ \A k \in 1..Len(info) : info'[k] = info[k]
      /\ info'[Len(info) + 1] = [name |-> NextName, addr |-> pos + 4 * p, of |-> seen + 1]
  BY NewInfo
<1>4. NextName \in 1..(seen + 1) /\ \A k \in 1..Len(info) : info[k].of < NextName
  BY NextNameFacts
<1>5. ASSUME NEW k \in 1..Len(info')
      PROVE  /\ info'[k].name \in 1..info'[k].of /\ info'[k].addr \in Nat
             /\ info'[k].of =< seen + 1
  <2>1. CASE k \in 1..Len(info)
    <3>1. info[k].name \in 1..info[k].of /\ info[k].addr \in Nat BY <1>2, <2>1 DEF Typed, TypeOK
    <3>2. info[k].of \in Nat BY <1>2, <2>1 DEF Entry
    <3> QED BY <1>1, <1>2, <1>3, <2>1, <3>1, <3>2
  <2>2. CASE k = Len(info) + 1 BY <1>1, <1>3, <1>4, <2>2
  <2> QED BY <1>2, <1>3, <2>1, <2>2
<1>6. ASSUME NEW j \in 1..Len(info'), NEW k \in 1..Len(info'), j < k
      PROVE  info'[j].of < info'[k].name
  <2>1. j \in 1..Len(info) BY <1>2, <1>3, <1>6
  <2>2. CASE k \in 1..Len(info)
    <3>1. info[j].of < info[k].name BY <1>2, <1>6, <2>1, <2>2 DEF Typed, TypeOK
    <3> QED BY <1>3, <2>1, <2>2, <3>1
  <2>3. CASE k = Len(info) + 1 BY <1>3, <1>4, <2>1, <2>3
  <2> QED BY <1>2, <1>3, <2>2, <2>3
<1>7. out' \in Seq(Output) /\ DOMAIN out' = 1..Len(out') BY DEF NewEntry, Grown
<1>8. ASSUME NEW i \in 1..Len(out')
      PROVE  /\ out'[i].of \in 0..(seen + 1)
             /\ out'[i].from = "zero" => out'[i].of # Pad
  <2>1. \/ i \in 1..Len(out) /\ out'[i] = out[i]
        \/ out'[i] = Written(Pad, "pad")
        \/ out'[i] = Written(seen + 1, "comm")
    BY <1>1, GrownWords DEF NewEntry
  <2>2. CASE i \in 1..Len(out) /\ out'[i] = out[i]
    <3>1. out[i].of \in 0..seen BY <2>2, OldWords
    <3> QED BY <1>1, <2>2, <3>1 DEF Typed
  <2>3. CASE out'[i] = Written(Pad, "pad") BY <1>1, <2>3, WrittenFacts DEF Pad
  <2>4. CASE out'[i] = Written(seen + 1, "comm") BY <1>1, <2>4, WrittenFacts
  <2> QED BY <2>1, <2>2, <2>3, <2>4
<1>9. TypeOK'
  <2>1. /\ pc' \in {"scan", "data"} /\ seen' = seen + 1 /\ name' = 0 /\ pos' = pos + 4 * (p + m)
        /\ aborted' = aborted /\ ref' = ref
        /\ \/ size' = 0 /\ declared' = 0 /\ lines' = 0
           \/ size' = size /\ declared' = declared /\ lines' = lines
    BY DEF NewEntry, object
  <2>2. seen' \in 0..MaxObjects /\ name' \in 0..seen' BY <1>1, <2>1
  <2>3. pos' \in Nat BY <1>1, <2>1
  <2>4. size' \in Nat /\ declared' \in Nat /\ lines' \in 0..MaxLines BY <1>1, <2>1
  <2>5. \A k \in DOMAIN info' : info'[k].name \in 1..info'[k].of /\ info'[k].addr \in Nat
    BY <1>3, <1>5
  <2>6. \A j, k \in DOMAIN info' : j < k => info'[j].of < info'[k].name BY <1>3, <1>6
  <2>7. \A i \in DOMAIN out' : out'[i].of \in 0..seen' BY <1>7, <1>8, <2>1
  <2> QED BY <1>1, <2>1, <2>2, <2>3, <2>4, <2>5, <2>6, <2>7 DEF TypeOK
<1> QED BY <1>1, <1>2, <1>3, <1>5, <1>7, <1>8, <1>9 DEF Typed, Entries, NewEntry

LEMMA NewKeeps ==
  ASSUME IInv, NEW p \in Nat, NEW m \in Nat, NewEntry(p, m)
  PROVE  IInv'
<1>1. Typed' /\ Entries' BY NewTyped DEF IInv
<1>2. /\ seen \in Nat /\ pos \in Nat /\ Len(out) \in Nat /\ Len(info) \in Nat
      /\ Len(out') = Len(out) + p + m /\ Grown(p, m, seen + 1, "comm")
      /\ \A k \in 1..Len(info) : info[k].of \in Nat \ {0} /\ info[k].of =< seen
  <2>1. seen \in Nat /\ pos \in Nat BY MaxAssumption DEF IInv, Typed, TypeOK
  <2>2. Len(out) \in Nat /\ Len(info) \in Nat BY DEF IInv, Typed
  <2>3. Grown(p, m, seen + 1, "comm") BY DEF NewEntry
  <2>4. Len(out') = Len(out) + p + m BY <2>3 DEF Grown
  <2> QED BY <2>1, <2>2, <2>3, <2>4, EntriesRead DEF IInv
<1>3. Typed /\ seen + 1 \in Nat BY <1>2 DEF IInv
<1>4. ASSUME NEW i \in 1..Len(out')
       PROVE  \/ i \in 1..Len(out) /\ out'[i] = out[i]
              \/ i > Len(out) /\ i =< Len(out) + p /\ out'[i] = Written(Pad, "pad")
              \/ i > Len(out) + p /\ out'[i] = Written(seen + 1, "comm")
  BY <1>2, <1>3, GrownWords
<1>5. /\ Len(info') = Len(info) + 1
      /\ \A k \in 1..Len(info) : info'[k] = info[k]
      /\ info'[Len(info) + 1] = [name |-> NextName, addr |-> pos + 4 * p, of |-> seen + 1]
  BY NewInfo DEF IInv
<1>6. NoZeros' => NoZeros
  <2> SUFFICES ASSUME NoZeros', NEW i \in 1..Len(out) PROVE out[i].from # "zero"
    BY DEF NoZeros
  <2>1. i \in 1..Len(out') /\ out'[i] = out[i] BY <1>2 DEF Grown
  <2> QED BY <2>1 DEF NoZeros
<1>7. Position'
  <2>1. NoZeros' => pos = 4 * Len(out) BY <1>6 DEF IInv, Position, NewEntry
  <2>2. NoZeros' => pos' = 4 * Len(out') BY <1>2, <2>1 DEF NewEntry
  <2>3. pc' = "data" => size' = 0 BY DEF NewEntry
  <2>4. pos' \in Nat BY <1>1 DEF Typed, TypeOK
  <2> QED BY <2>2, <2>3, <2>4 DEF Position
<1>8. Beginnings'
  <2> SUFFICES ASSUME NEW k \in 1..Len(info'), NEW o, o = info'[k].of, ~ZeroBefore(o)'
               PROVE  \E n \in 0..Len(out') : info'[k].addr = 4 * n /\ BeginsAfter(n, o)'
    BY DEF Beginnings, ZeroBefore, BeginsAfter
  <2>1. CASE k \in 1..Len(info)
    <3>1. o = info[k].of /\ ~ZeroBefore(o)
      <4>1. seen + 1 \in Nat BY <1>2
      <4> QED BY <1>2, <1>5, <2>1, <4>1, ZeroStays DEF IInv
    <3>2. PICK n \in 0..Len(out) : info[k].addr = 4 * n /\ BeginsAfter(n, o)
      BY <2>1, <3>1 DEF IInv, Beginnings
    <3>3. n \in 0..Len(out') /\ BeginsAfter(n, o)'
      <4>1. seen' = seen + 1 BY DEF NewEntry
      <4>2. /\ o \in Nat \ {0} /\ o # seen + 1 /\ o =< seen
            /\ seen' >= seen /\ seen + 1 \in Nat
        BY <1>2, <2>1, <3>1, <4>1
      <4> QED BY <1>2, <3>2, <4>1, <4>2, BeginningStays DEF IInv
    <3> QED BY <1>5, <2>1, <3>2, <3>3
  <2>2. CASE k = Len(info) + 1
    <3>1. o = seen + 1 /\ info'[k].addr = pos + 4 * p BY <1>5, <2>2
    <3>2. NoZeros
      <4> SUFFICES ASSUME NEW i \in 1..Len(out), out[i].from = "zero" PROVE FALSE BY DEF NoZeros
      <4>1. out[i].of \in 0..seen /\ out[i].of # Pad BY OldWords DEF IInv, Typed
      <4>2. i \in 1..Len(out') /\ out'[i] = out[i] /\ DOMAIN out' = 1..Len(out')
        BY <1>2 DEF Grown
      <4> QED BY <1>2, <3>1, <4>1, <4>2 DEF ZeroBefore
    <3>3. pos = 4 * Len(out) BY <3>2 DEF IInv, Position, NewEntry
    <3> DEFINE n == Len(out) + p
    <3>4. n \in 0..Len(out') /\ info'[k].addr = 4 * n BY <1>2, <3>1, <3>3
    <3>5. ASSUME NEW i \in 1..n PROVE out'[i].of # o
      <4>1. i \in 1..Len(out') BY <1>2
      <4>2. \/ i \in 1..Len(out) /\ out'[i] = out[i]
            \/ out'[i] = Written(Pad, "pad")
        BY <1>2, <1>3, <4>1, GrownWords
      <4>3. i \in 1..Len(out) => out[i].of \in 0..seen BY OldWords DEF IInv
      <4> QED BY <1>2, <3>1, <4>2, <4>3, WrittenFacts DEF Pad
    <3>6. \/ n < Len(out') /\ out'[n + 1].of = o
          \/ n = Len(out')
      <4>1. CASE m = 0 BY <1>2, <4>1
      <4>2. CASE m > 0
        <5>1. n + 1 \in (Len(out) + p + 1)..(Len(out) + p + m) /\ n < Len(out') BY <1>2, <4>2
        <5>2. out'[n + 1] = Written(seen + 1, "comm") BY <1>2, <5>1 DEF Grown
        <5> QED BY <3>1, <5>1, <5>2, WrittenFacts
      <4> QED BY <4>1, <4>2
    <3> HIDE DEF n
    <3>7. PICK x : x = n OBVIOUS
    <3>8. BeginsAfter(x, o)' BY <3>5, <3>6, <3>7 DEF BeginsAfter, NewEntry
    <3> QED BY <3>4, <3>7, <3>8
  <2> QED BY <1>2, <1>5, <2>1, <2>2
<1>9. Covered'
  <2> SUFFICES ASSUME NEW i \in 1..Len(out'), out'[i].of # Pad
               PROVE  \E k \in 1..Len(info') : info'[k].of = out'[i].of
    BY DEF Covered
  <2>1. \/ i \in 1..Len(out) /\ out'[i] = out[i]
        \/ out'[i] = Written(Pad, "pad")
        \/ out'[i] = Written(seen + 1, "comm")
    BY <1>4
  <2>2. CASE i \in 1..Len(out) /\ out'[i] = out[i]
    <3>1. PICK k \in 1..Len(info) : info[k].of = out[i].of BY <2>2 DEF IInv, Covered
    <3> QED BY <1>2, <1>5, <2>2, <3>1
  <2>3. CASE out'[i] = Written(seen + 1, "comm")
    <3>1. Len(info) + 1 \in 1..Len(info') BY <1>2, <1>5
    <3> QED BY <1>5, <2>3, <3>1, WrittenFacts
  <2> QED BY <1>2, <2>1, <2>2, <2>3, WrittenFacts
<1>10. Resolved' BY DEF IInv, Resolved, NewEntry
<1> QED BY <1>1, <1>7, <1>8, <1>9, <1>10 DEF IInv

-----------------------------------------------------------------------------
(* Data lines, and steps that write nothing.                               *)

LEMMA LineKeeps ==
  ASSUME IInv, NEW bytes \in Nat, DataLine(bytes), NEW m \in Nat, NEW from \in {"long", "zero"},
         Grown(0, m, seen, from), size' \in Nat,
         from # "zero" => size' = size + 4 * m, from = "zero" => m > 0
  PROVE  IInv'
<1>1. /\ pc = "data" /\ pc' = "data" /\ seen' = seen /\ name' = name /\ info' = info
      /\ pos' = pos /\ ref' = ref /\ aborted' = aborted
      /\ lines < MaxLines /\ lines' = lines + 1 /\ declared' = declared + bytes
  BY DEF DataLine
<1>2. /\ seen \in 0..MaxObjects /\ seen \in Nat /\ Len(out) \in Nat /\ Len(info) \in Nat
      /\ Len(out') = Len(out) + m /\ out' \in Seq(Output) /\ pos \in Nat /\ size \in Nat
      /\ DOMAIN out' = 1..Len(out')
  BY MaxAssumption DEF IInv, Typed, TypeOK, Grown
<1>3. /\ Len(info) > 0 /\ info[Len(info)].of = seen
      /\ \A k \in 1..Len(info) : info[k].of \in Nat \ {0} /\ info[k].of =< seen
  BY <1>1, EntriesRead DEF IInv, Entries
<1>4. seen # Pad
  <2>1. Len(info) \in 1..Len(info) BY <1>2, <1>3
  <2> QED BY <1>3, <2>1 DEF Pad
<1>5. ASSUME NEW i \in 1..Len(out')
      PROVE  \/ i \in 1..Len(out) /\ out'[i] = out[i]
             \/ i > Len(out) /\ out'[i] = Written(seen, from)
  BY <1>2, GrownWords DEF IInv
<1>6. Typed' /\ Entries'
  <2>1. ASSUME NEW i \in 1..Len(out')
        PROVE  out'[i].of \in 0..seen /\ (out'[i].from = "zero" => out'[i].of # Pad)
    <3>1. CASE i \in 1..Len(out) /\ out'[i] = out[i]
      <4>1. out[i].of \in 0..seen BY <3>1, OldWords DEF IInv
      <4> QED BY <3>1, <4>1 DEF IInv, Typed
    <3>2. CASE out'[i] = Written(seen, from) BY <1>2, <1>4, <3>2, WrittenFacts
    <3> QED BY <1>5, <3>1, <3>2
  <2>2. lines' \in 0..MaxLines /\ declared' \in Nat
    BY <1>1, MaxAssumption DEF IInv, Typed, TypeOK
  <2>3. TypeOK' BY <1>1, <1>2, <2>1, <2>2 DEF IInv, Typed, TypeOK
  <2> QED BY <1>1, <1>2, <2>1, <2>3 DEF IInv, Typed, Entries
<1>7. Position'
  <2> SUFFICES ASSUME NoZeros' PROVE pos' + size' = 4 * Len(out') BY <1>1 DEF Position
  <2>1. NoZeros
    <3> SUFFICES ASSUME NEW i \in 1..Len(out) PROVE out[i].from # "zero" BY DEF NoZeros
    <3>1. i \in 1..Len(out') /\ out'[i] = out[i] BY <1>2 DEF Grown
    <3> QED BY <3>1 DEF NoZeros
  <2>2. from # "zero"
    <3> SUFFICES ASSUME from = "zero" PROVE FALSE OBVIOUS
    <3>1. Len(out') \in 1..Len(out') /\ Len(out') \in (Len(out) + 0 + 1)..(Len(out) + 0 + m)
      BY <1>2
    <3>2. out'[Len(out')] = Written(seen, from) BY <3>1 DEF Grown
    <3> QED BY <3>1, <3>2, WrittenFacts DEF NoZeros
  <2>3. pos + size = 4 * Len(out) BY <1>1, <2>1 DEF IInv, Position
  <2> QED BY <1>1, <1>2, <2>2, <2>3
<1>8. Beginnings'
  <2> SUFFICES ASSUME NEW k \in 1..Len(info), NEW o, o = info[k].of, ~ZeroBefore(o)'
               PROVE  \E n \in 0..Len(out') : info[k].addr = 4 * n /\ BeginsAfter(n, o)'
    BY <1>1 DEF Beginnings
  <2>1. ~ZeroBefore(o) BY <1>1, <1>2, ZeroStays DEF IInv
  <2>2. PICK n \in 0..Len(out) : info[k].addr = 4 * n /\ BeginsAfter(n, o)
    BY <2>1 DEF IInv, Beginnings
  <2>3. CASE o # seen
    <3>1. o \in Nat \ {0} /\ o =< seen /\ seen' >= seen BY <1>1, <1>2, <1>3
    <3>2. n \in 0..Len(out') /\ BeginsAfter(n, o)'
      BY <1>1, <1>2, <2>2, <2>3, <3>1, BeginningStays DEF IInv
    <3> QED BY <2>2, <3>2
  <2>4. CASE o = seen
    <3>1. n \in 0..Len(out') /\ \A i \in 1..n : out'[i].of # seen
      <4>1. \A i \in 1..n : i \in 1..Len(out) BY <1>2
      <4>2. \A i \in 1..n : out[i].of # seen BY <2>2, <2>4 DEF BeginsAfter
      <4>3. \A i \in 1..Len(out) : out'[i] = out[i] BY DEF Grown
      <4>4. n \in 0..Len(out') BY <1>2
      <4>5. ASSUME NEW i \in 1..n PROVE out'[i].of # seen BY <4>1, <4>2, <4>3
      <4> QED BY <4>4, <4>5
    <3>2. CASE n < Len(out) /\ out[n + 1].of = seen
      <4>1. n + 1 \in 1..Len(out) /\ n < Len(out') BY <1>2, <3>2
      <4>2. out'[n + 1] = out[n + 1] BY <4>1 DEF Grown
      <4> QED BY <2>2, <2>4, <3>1, <3>2, <4>1, <4>2 DEF BeginsAfter
    <3>3. CASE n = Len(out) /\ \A i \in 1..Len(out) : out[i].of # seen
      <4>1. CASE m = 0
        <5>1. Len(out') = Len(out) BY <1>2, <4>1
        <5>2. \A i \in 1..Len(out') : out'[i].of # seen BY <3>3, <5>1 DEF Grown
        <5> QED BY <1>1, <2>2, <2>4, <3>1, <3>3, <5>1, <5>2 DEF BeginsAfter
      <4>2. CASE m > 0
        <5>1. n + 1 \in (Len(out) + 0 + 1)..(Len(out) + 0 + m) /\ n < Len(out')
          BY <1>2, <3>3, <4>2
        <5>2. out'[n + 1] = Written(seen, from) BY <5>1 DEF Grown
        <5>3. out'[n + 1].of = seen BY <5>2, WrittenFacts
        <5>4. BeginsAfter(n, o)' BY <2>4, <3>1, <5>1, <5>3 DEF BeginsAfter
        <5> QED BY <2>2, <3>1, <5>4
      <4> QED BY <4>1, <4>2
    <3> QED BY <1>1, <2>2, <2>4, <3>2, <3>3 DEF BeginsAfter
  <2> QED BY <2>3, <2>4
<1>9. Covered'
  <2> SUFFICES ASSUME NEW i \in 1..Len(out'), out'[i].of # Pad
               PROVE  \E k \in 1..Len(info) : info[k].of = out'[i].of
    BY <1>1 DEF Covered
  <2>1. CASE i \in 1..Len(out) /\ out'[i] = out[i] BY <2>1 DEF IInv, Covered
  <2>2. CASE out'[i] = Written(seen, from)
    <3>1. Len(info) \in 1..Len(info) BY <1>2, <1>3
    <3> QED BY <1>3, <2>2, <3>1, WrittenFacts
  <2> QED BY <1>5, <2>1, <2>2
<1>10. Resolved' BY <1>1 DEF IInv, Resolved
<1> QED BY <1>6, <1>7, <1>8, <1>9, <1>10 DEF IInv

\* A step that writes nothing and begins no object
LEMMA QuietKeeps ==
  ASSUME IInv, UNCHANGED <<info, out>>, Typed', Entries', Position', Resolved',
         pc' # "data" \/ (pc = "data" /\ seen' = seen)
  PROVE  IInv'
<1>1. \A n, o : BeginsAfter(n, o) => BeginsAfter(n, o)' BY DEF BeginsAfter
<1>2. \A o : ZeroBefore(o)' = ZeroBefore(o) BY DEF ZeroBefore
<1>3. Beginnings' BY <1>1, <1>2 DEF IInv, Beginnings
<1>4. Covered' BY DEF IInv, Covered
<1> QED BY <1>3, <1>4 DEF IInv

-----------------------------------------------------------------------------
(* The steps.                                                              *)

LEMMA InitHolds == ASSUME Init PROVE IInv
<1>1. info = <<>> /\ out = <<>> /\ Len(info) = 0 /\ Len(out) = 0 BY DEF Init
<1>2. info \in Seq(Entry) /\ out \in Seq(Output) BY <1>1
<1>3. TypeOK
  <2>1. DOMAIN info = {} /\ DOMAIN out = {} BY <1>1
  <2>2. ref.sym \in 0..MaxObjects
    <3>1. ref.sym = 0 BY DEF Init
    <3> QED BY <3>1, MaxAssumption
  <2>3. aborted \in BOOLEAN /\ pc \in {"scan", "data", "code"} BY DEF Init
  <2>4. /\ seen \in 0..MaxObjects /\ name \in 0..seen /\ pos \in Nat
        /\ size \in Nat /\ declared \in Nat /\ lines \in 0..MaxLines
    BY MaxAssumption DEF Init
  <2> QED BY <2>1, <2>2, <2>4, <2>3 DEF TypeOK
<1>4. Typed /\ Entries /\ Position
  BY <1>1, <1>2, <1>3 DEF Init, Typed, Entries, Position
<1>5. Beginnings /\ Covered BY <1>1 DEF Beginnings, Covered
<1>6. Resolved BY DEF Init, Resolved
<1> QED BY <1>4, <1>5, <1>6 DEF IInv

LEMMA NextHolds == ASSUME IInv, [Next]_vars PROVE IInv'
<1>1. Typed /\ Entries /\ TypeOK /\ Position /\ Resolved BY DEF IInv, Typed
<1>2. CASE ReadStatic
  <2>1. /\ pc = "scan" /\ pc' = "scan" /\ seen < MaxObjects /\ seen' = seen + 1
        /\ name' = NextName
        /\ UNCHANGED <<info, pos, out, size, declared, lines, aborted, ref>>
    BY <1>2 DEF ReadStatic, object
  <2>2. NextName \in 1..(seen + 1) /\ \A k \in 1..Len(info) : info[k].of < NextName
    BY <1>1, NextNameFacts
  <2>3. seen \in 0..MaxObjects /\ MaxObjects \in Nat BY <1>1, MaxAssumption DEF TypeOK
  <2>4. TypeOK' BY <1>1, <2>1, <2>2, <2>3 DEF TypeOK
  <2>5. Typed' BY <1>1, <2>1, <2>4 DEF Typed
  <2>6. \A k \in 1..Len(info) : info[k].of \in Nat BY <1>1, EntriesRead
  <2>7. Entries' BY <1>1, <2>1, <2>2, <2>3, <2>6 DEF Entries
  <2>8. Position' /\ Resolved' BY <1>1, <2>1 DEF Position, NoZeros, Resolved
  <2> QED BY <2>1, <2>5, <2>7, <2>8, QuietKeeps
<1>3. ASSUME NEW a \in Aligns, BeginGlobal(a) PROVE IInv'
  <2>1. Padding(a) \in Nat BY <1>1, PaddingFacts
  <2>2. Grown(Padding(a), 0, seen + 1, "comm") BY <1>1, <1>3, <2>1, PadGrows DEF BeginGlobal
  <2>3. NewEntry(Padding(a), 0) BY <1>3, <2>1, <2>2 DEF BeginGlobal, NewEntry
  <2> QED BY <2>1, <2>3, NewKeeps
<1>4. ASSUME NEW n \in CommSizes, NEW a \in Aligns, ReadComm(n, a) PROVE IInv'
  <2>1. Padding(a) \in Nat /\ seen + 1 \in Nat BY <1>1, PaddingFacts, MaxAssumption DEF TypeOK
  <2>2. WordsFor(n) \in Nat /\ WordsFor(n) > 0
    <3>1. n \in Int /\ n > 0 BY BytesAssumption
    <3> QED BY <3>1, WordsForFacts
  <2>3. Grown(Padding(a), WordsFor(n), seen + 1, "comm")
    BY <1>1, <1>4, <2>1, <2>2, ObjectGrows DEF ReadComm
  <2>4. pos' = pos + 4 * (Padding(a) + WordsFor(n))
    <3>1. pos \in Nat BY <1>1 DEF TypeOK
    <3>2. pos' = pos + 4 * Padding(a) + 4 * WordsFor(n) BY <1>4 DEF ReadComm
    <3> QED BY <2>1, <2>2, <3>1, <3>2
  <2>5. NewEntry(Padding(a), WordsFor(n))
    BY <1>4, <2>2, <2>3, <2>4 DEF ReadComm, NewEntry
  <2> QED BY <2>1, <2>2, <2>5, NewKeeps
<1>5. CASE ReadLong
  <2>1. size \in Nat /\ seen \in Nat BY <1>1, MaxAssumption DEF TypeOK
  <2>2. Grown(0, 1, seen, "long") BY <1>1, <1>5, <2>1, LineGrows DEF ReadLong
  <2>3. DataLine(4) /\ size' = size + 4 * 1 /\ size' \in Nat BY <1>5, <2>1 DEF ReadLong
  <2> QED BY <2>2, <2>3, LineKeeps
<1>6. ASSUME NEW n \in ZeroSizes, ReadZero(n) PROVE IInv'
  <2>1. size \in Nat /\ seen \in Nat /\ n \in Nat /\ n > 0
    BY <1>1, MaxAssumption, BytesAssumption DEF TypeOK
  <2>2. Grown(0, n, seen, "zero") BY <1>1, <1>6, <2>1, LineGrows DEF ReadZero
  <2>3. DataLine(n) /\ size' \in Nat BY <1>6, <2>1 DEF ReadZero
  <2> QED BY <2>1, <2>2, <2>3, LineKeeps
<1>7. CASE ReadOther
  <2>1. /\ pc = "data" /\ lines < MaxLines /\ lines' = lines + 1 /\ declared' = declared + 2
        /\ UNCHANGED <<pc, seen, name, info, pos, aborted, ref, out, size>>
    BY <1>7 DEF ReadOther, DataLine
  <2>2. lines' \in 0..MaxLines /\ declared' \in Nat BY <1>1, <2>1, MaxAssumption DEF TypeOK
  <2>3. TypeOK' BY <1>1, <2>1, <2>2 DEF TypeOK
  <2>4. Typed' /\ Entries' BY <1>1, <2>1, <2>3 DEF Typed, Entries
  <2>5. Position' /\ Resolved' BY <1>1, <2>1 DEF Position, NoZeros, Resolved
  <2> QED BY <2>1, <2>4, <2>5, QuietKeeps
<1>8. CASE ReadSize
  <2>1. /\ pc = "data" /\ pc' \in {"scan", "code"}
        /\ pc' = "scan" => pos' = pos + size
        /\ pc' = "code" => pos' = pos
        /\ aborted' \in BOOLEAN
        /\ UNCHANGED <<seen, name, info, out, size, declared, lines, ref>>
    BY <1>1, <1>8 DEF ReadSize, object, TypeOK
  <2>2. pos' \in Nat BY <1>1, <2>1 DEF TypeOK
  <2>3. TypeOK' BY <1>1, <2>1, <2>2 DEF TypeOK
  <2>4. Typed' /\ Entries' BY <1>1, <2>1, <2>3 DEF Typed, Entries
  <2>5. Position' BY <1>1, <2>1 DEF Position, NoZeros
  <2>6. Resolved' BY <1>1, <2>1 DEF Resolved
  <2> QED BY <2>1, <2>4, <2>5, <2>6, QuietKeeps
<1>9. CASE EndOfFile
  <2>1. /\ pc = "scan" /\ pc' = "code"
        /\ UNCHANGED <<seen, name, info, pos, out, size, declared, lines, aborted, ref>>
    BY <1>9 DEF EndOfFile, object
  <2>2. TypeOK' BY <1>1, <2>1 DEF TypeOK
  <2>3. Typed' /\ Entries' BY <1>1, <2>1, <2>2 DEF Typed, Entries
  <2>4. Position' /\ Resolved' BY <1>1, <2>1 DEF Position, Resolved
  <2> QED BY <2>1, <2>3, <2>4, QuietKeeps
<1>10. ASSUME NEW s \in 1..MaxObjects, Resolve(s) PROVE IInv'
  <2>1. /\ pc = "code" /\ ref' = [sym |-> s, addr |-> Address(s)]
        /\ UNCHANGED <<pc, seen, name, info, pos, out, size, declared, lines, aborted>>
    BY <1>10 DEF Resolve, object
  <2>2. TypeOK' BY <1>1, <2>1 DEF TypeOK
  <2>3. Typed' /\ Entries' BY <1>1, <2>1, <2>2 DEF Typed, Entries
  <2>4. Position' BY <1>1, <2>1 DEF Position
  <2>5. Address(s)' = Address(s) BY <2>1 DEF Address, SelectInSeq
  <2>6. Resolved' BY <2>1, <2>5 DEF Resolved, Address
  <2> QED BY <2>1, <2>3, <2>4, <2>6, QuietKeeps
<1>11. CASE UNCHANGED vars
  <2>1. UNCHANGED <<pc, seen, name, info, pos, out, size, declared, lines, aborted, ref>>
    BY <1>11 DEF vars, object
  <2>2. TypeOK' BY <1>1, <2>1 DEF TypeOK
  <2>3. Typed' /\ Entries' BY <1>1, <2>1, <2>2 DEF Typed, Entries
  <2>4. Position' BY <1>1, <2>1 DEF Position, NoZeros
  <2>5. Resolved'
    <3>1. Address(ref.sym)' = Address(ref.sym) BY <2>1 DEF Address, SelectInSeq
    <3> QED BY <1>1, <2>1, <3>1 DEF Resolved
  <2> QED BY <2>1, <2>3, <2>4, <2>5, QuietKeeps
<1> QED
  BY <1>2, <1>3, <1>4, <1>5, <1>6, <1>7, <1>8, <1>9, <1>10, <1>11 DEF Next

-----------------------------------------------------------------------------
(* The theorems.                                                           *)

(* While no .zero is read, $pos is the place of the next word, and each    *)
(* entry holds the place of its object's first word.                       *)
THEOREM InductiveInvariant == Spec => []IInv
BY InitHolds, NextHolds, PTL DEF Spec

(* Every variable keeps its type, and no name is saved twice.              *)
THEOREM TypeCorrect == Spec => []TypeOK
BY InductiveInvariant, PTL DEF IInv, Typed

\* get_address() finds the only entry that has a name.
LEMMA OnlyEntry ==
  ASSUME Typed, NEW k \in 1..Len(info),
         \A j \in 1..Len(info) : info[j].name = info[k].name => j = k
  PROVE  Address(info[k].name) = info[k].addr
<1> DEFINE I == {i \in 1..Len(info) : info[i].name = info[k].name}
<1>1. I = {k} OBVIOUS
<1>2. k \in Int OBVIOUS
<1>3. Min(I) = k BY <1>1, <1>2 DEF Min
<1>4. SelectInSeq(info, LAMBDA entry : entry.name = info[k].name) = IF I # {} THEN Min(I) ELSE 0
  BY DEF SelectInSeq
<1>5. k # 0 OBVIOUS
<1> QED BY <1>1, <1>3, <1>4, <1>5 DEF Address

(* A symbol is replaced by the byte where its object begins, for any       *)
(* number of objects and lines, alignments and sizes.                      *)
THEOREM ReferencesReach == Spec => []ReferenceReachesObject
<1>1. IInv => ReferenceReachesObject
  <2> SUFFICES ASSUME IInv, NEW s \in 1..seen, ref.sym = s, PlacesOf(s) # {},
                      \A k \in DOMAIN info : info[k].name = info[k].of, ~ZeroBefore(s)
               PROVE  ref.addr = BeginOf(s)
    BY DEF ReferenceReachesObject
  <2>1. /\ info \in Seq(Entry) /\ DOMAIN info = 1..Len(info) /\ DOMAIN out = 1..Len(out)
        /\ Len(out) \in Nat /\ seen \in Nat
    BY MaxAssumption DEF IInv, Typed, TypeOK
  <2>2. PICK w \in 1..Len(out) : out[w].of = s BY <2>1 DEF PlacesOf
  <2>3. PICK k \in 1..Len(info) : info[k].of = s BY <2>2 DEF IInv, Covered, Pad
  <2>4. info[k].name = s BY <2>1, <2>3
  <2>5. \A j \in 1..Len(info) : info[j].name = info[k].name => j = k
    <3> SUFFICES ASSUME NEW j \in 1..Len(info), info[j].name = s, j # k PROVE FALSE
      BY <2>4
    <3>1. info[j].of = s /\ s \in Nat BY <2>1
    <3>2. j < k \/ k < j OBVIOUS
    <3>3. \A i, l \in 1..Len(info) : i < l => info[i].of < info[l].name
      BY <2>1 DEF IInv, Typed, TypeOK
    <3>4. j < k => s < s BY <2>4, <3>1, <3>3
    <3>5. k < j => s < s BY <2>3, <3>1, <3>3
    <3> QED BY <3>1, <3>2, <3>4, <3>5
  <2>6. ref.addr = info[k].addr
    <3>1. Address(s) = info[k].addr BY <2>4, <2>5, OnlyEntry DEF IInv
    <3> QED BY <3>1 DEF IInv, Resolved
  <2>7. PICK n \in 0..Len(out) : info[k].addr = 4 * n /\ BeginsAfter(n, s)
    BY <2>3 DEF IInv, Beginnings
  <2>8. n < Len(out) /\ out[n + 1].of = s /\ \A i \in 1..n : out[i].of # s
    BY <2>2, <2>7 DEF BeginsAfter
  <2>9. n + 1 \in PlacesOf(s) /\ \A j \in PlacesOf(s) : n + 1 <= j
    BY <2>1, <2>8 DEF PlacesOf
  <2>10. PlacesOf(s) \subseteq Int BY <2>1 DEF PlacesOf
  <2>11. (CHOOSE i \in PlacesOf(s) : \A j \in PlacesOf(s) : i <= j) = n + 1
    <3>1. \A i \in PlacesOf(s) : (\A j \in PlacesOf(s) : i <= j) => i = n + 1
      BY <2>9, <2>10
    <3> QED BY <2>9, <3>1
  <2>12. BeginOf(s) = 4 * n
    <3>1. n \in Nat /\ 4 * (n + 1 - 1) = 4 * n BY <2>1
    <3>2. BeginOf(s) = Byte(n + 1) BY <2>11 DEF BeginOf
    <3> QED BY <3>1, <3>2 DEF Byte
  <2> QED BY <2>6, <2>7, <2>12
<1> QED BY <1>1, InductiveInvariant, PTL
=============================================================================
