----------------------------- MODULE DataLayout -----------------------------
(***************************************************************************)
(* script/llvm2envyas, between the compiler's assembly and the loader:     *)
(* datagen() lays the objects of the file out as one list of words and     *)
(* remembers each one's name and address, codegen() puts those addresses   *)
(* in the place of the names, and hex2bin makes four bytes of each word.   *)
(*                                                                         *)
(* An object is its number in the file.  The value of a word is left out;  *)
(* a word of the output keeps which object it belongs to and which         *)
(* directive it comes from.                                                *)
(***************************************************************************)
EXTENDS Integers, Sequences, SequencesExt

CONSTANTS
  MaxObjects, MaxLines,  \* bounds: objects in a file, data lines of one
  Aligns,                \* alignments of an object, in bytes
  CommSizes,             \* sizes of a .comm object, in bytes
  ZeroSizes              \* arguments of .zero, in bytes

ASSUME MaxAssumption == MaxObjects \in Nat /\ MaxLines \in Nat
ASSUME BytesAssumption ==
  Aligns \subseteq Nat \ {0} /\ CommSizes \subseteq Nat \ {0} /\ ZeroSizes \subseteq Nat \ {0}

VARIABLES
  pc,        \* "scan" for an object, "data" of one, then codegen(): "code"
  seen,      \* objects of the file that have been read
  name,      \* the name saved for the entry under way, 0 for none
  info,      \* data_info: name and address (and the object that was there)
  pos,       \* $pos
  out,       \* the words written to the data file
  size,      \* $size of the object under way
  declared,  \* what its .size will say
  lines,     \* its data lines so far
  aborted,   \* "Size unmatched" was printed
  ref        \* the last symbol codegen() replaced, and by what

object == <<size, declared, lines>>
vars == <<pc, seen, name, info, pos, out, object, aborted, ref>>

Pad == 0
Words(n, of, from) == [i \in 1..n |-> [of |-> of, from |-> from]]

WordsFor(bytes) == (bytes + 3) \div 4

\* Words of zero before an object of this alignment: up to the first multiple
\* of it that is not below $pos
Padding(align) ==
  IF pos % align = 0 THEN 0
  ELSE WordsFor(align * ((pos + align - 1) \div align) - pos)

\* Fault variant of NextName: the name of the first entry is kept.
FirstName == IF info = <<>> THEN seen + 1 ELSE info[1].name

\* The name of the next entry: the last .type line that was not read over
NextName == IF name = 0 THEN seen + 1 ELSE name

-----------------------------------------------------------------------------
Init ==
  /\ pc = "scan" /\ seen = 0 /\ name = 0
  /\ info = <<>> /\ pos = 0 /\ out = <<>>
  /\ size = 0 /\ declared = 0 /\ lines = 0
  /\ aborted = FALSE /\ ref = [sym |-> 0, addr |-> 0]

\* An object with neither .globl nor .comm (a static one with a value): its
\* name is saved, and the search for .globl or .comm goes on past its data.
ReadStatic ==
  /\ pc = "scan" /\ seen < MaxObjects
  /\ seen' = seen + 1
  /\ name' = NextName
  /\ UNCHANGED <<pc, info, pos, out, object, aborted, ref>>

\* .globl and .align: pad, save the location; the data lines follow.
BeginGlobal(align) ==
  /\ pc = "scan" /\ seen < MaxObjects
  /\ LET at == pos + 4 * Padding(align)
     IN /\ pos' = at
        /\ info' = Append(info, [name |-> NextName, addr |-> at, of |-> seen + 1])
  /\ out' = out \o Words(Padding(align), Pad, "pad")
  /\ seen' = seen + 1 /\ name' = 0
  /\ size' = 0 /\ declared' = 0 /\ lines' = 0
  /\ pc' = "data"
  /\ UNCHANGED <<aborted, ref>>

\* Fault variant of ReadComm: $pos goes on by the size, not by whole words.
ReadCommBytes(bytes, align) ==
  /\ pc = "scan" /\ seen < MaxObjects
  /\ LET at == pos + 4 * Padding(align)
     IN /\ info' = Append(info, [name |-> NextName, addr |-> at, of |-> seen + 1])
        /\ pos' = at + bytes
  /\ out' = out \o Words(Padding(align), Pad, "pad") \o Words(WordsFor(bytes), seen + 1, "comm")
  /\ seen' = seen + 1 /\ name' = 0
  /\ UNCHANGED <<pc, object, aborted, ref>>

\* .comm: pad, save the location, and zeros for its size
ReadComm(bytes, align) ==
  /\ pc = "scan" /\ seen < MaxObjects
  /\ LET at == pos + 4 * Padding(align)
     IN /\ info' = Append(info, [name |-> NextName, addr |-> at, of |-> seen + 1])
        /\ pos' = at + 4 * WordsFor(bytes)
  /\ out' = out \o Words(Padding(align), Pad, "pad") \o Words(WordsFor(bytes), seen + 1, "comm")
  /\ seen' = seen + 1 /\ name' = 0
  /\ UNCHANGED <<pc, object, aborted, ref>>

DataLine(bytes) ==
  /\ pc = "data" /\ lines < MaxLines
  /\ lines' = lines + 1
  /\ declared' = declared + bytes
  /\ UNCHANGED <<pc, seen, name, info, pos, aborted, ref>>

ReadLong ==
  /\ DataLine(4)
  /\ out' = out \o Words(1, seen, "long")
  /\ size' = size + 4

\* .zero: a word for each of its bytes, and a byte counted for each word
ReadZero(bytes) ==
  /\ DataLine(bytes)
  /\ out' = out \o Words(bytes, seen, "zero")
  /\ size' = size + bytes

\* Any other data directive, as .short, is passed over.
ReadOther ==
  /\ DataLine(2)
  /\ UNCHANGED <<out, size>>

\* .size ends the object; when it disagrees, datagen() gives up.
ReadSize ==
  /\ pc = "data" /\ lines > 0
  /\ IF size = declared THEN /\ pos' = pos + size
                             /\ pc' = "scan"
                             /\ UNCHANGED aborted
                        ELSE /\ aborted' = TRUE
                             /\ pc' = "code"
                             /\ UNCHANGED pos
  /\ UNCHANGED <<seen, name, info, out, object, ref>>

EndOfFile ==
  /\ pc = "scan"
  /\ pc' = "code"
  /\ UNCHANGED <<seen, name, info, pos, out, object, aborted, ref>>

\* get_address(): the first entry of that name, or 0
Address(sym) ==
  LET k == SelectInSeq(info, LAMBDA entry : entry.name = sym)
  IN IF k = 0 THEN 0 ELSE info[k].addr

\* codegen() replaces one symbol of the code.
Resolve(sym) ==
  /\ pc = "code"
  /\ ref' = [sym |-> sym, addr |-> Address(sym)]
  /\ UNCHANGED <<pc, seen, name, info, pos, out, object, aborted>>

Next ==
  \/ ReadStatic
  \/ \E a \in Aligns : BeginGlobal(a)
  \/ \E n \in CommSizes, a \in Aligns : ReadComm(n, a)
  \/ ReadLong \/ ReadOther \/ ReadSize \/ EndOfFile
  \/ \E n \in ZeroSizes : ReadZero(n)
  \/ \E s \in 1..MaxObjects : Resolve(s)

Spec == Init /\ [][Next]_vars

-----------------------------------------------------------------------------
(* Properties.                                                             *)

(* Every variable has its type; an entry is never saved twice for a name.  *)
TypeOK ==
  /\ pc \in {"scan", "data", "code"}
  /\ seen \in 0..MaxObjects /\ name \in 0..seen
  /\ \A k \in DOMAIN info : info[k].name \in 1..info[k].of /\ info[k].addr \in Nat
  /\ \A j, k \in DOMAIN info : j < k => info[j].of < info[k].name
  /\ pos \in Nat /\ size \in Nat /\ declared \in Nat /\ lines \in 0..MaxLines
  /\ \A i \in DOMAIN out : out[i].of \in 0..seen
  /\ aborted \in BOOLEAN /\ ref.sym \in 0..MaxObjects

\* hex2bin: word i of the data file is at this byte of the data section.
Byte(i) == 4 * (i - 1)

PlacesOf(obj) == {i \in DOMAIN out : out[i].of = obj}
BeginOf(obj) == Byte(CHOOSE i \in PlacesOf(obj) : \A j \in PlacesOf(obj) : i <= j)
ZeroBefore(obj) == \E i \in DOMAIN out : out[i].from = "zero" /\ out[i].of < obj /\ out[i].of # Pad

(* A symbol of the code is replaced by the byte of the data section where  *)
(* its own object begins, whatever the alignments, the .comm sizes that    *)
(* are no whole words and the data before it, and also when datagen() gave *)
(* up later; but for a file with a static object or an earlier .zero.      *)
ReferenceReachesObject ==
  \A s \in 1..seen :
    (/\ ref.sym = s /\ PlacesOf(s) # {}
     /\ \A k \in DOMAIN info : info[k].name = info[k].of
     /\ ~ZeroBefore(s))
    => ref.addr = BeginOf(s)

(* The location saved for an object is the one its words have in the data  *)
(* section, also after a .zero: "save the object location".                *)
LocationAfterZero ==
  \A k \in DOMAIN info : PlacesOf(info[k].of) # {} => info[k].addr = BeginOf(info[k].of)
=============================================================================
