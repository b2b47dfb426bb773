--------------------------- MODULE Loader_proofs ---------------------------
(***************************************************************************)
(* The loader's properties for every size of buffer, page, section and     *)
(* file.                                                                   *)
(***************************************************************************)
EXTENDS Loader, Integers, TLAPS

-----------------------------------------------------------------------------
(* Pages and sections.                                                     *)

\* The page number of a word in the middle of a page is that of the word
\* before it.
LEMMA PageNumbers ==
  ASSUME NEW n \in Nat
  PROVE  /\ n \div PageWords \in Nat /\ n \div PageWords =< n
         /\ n > 0 /\ n % PageWords # 0 => (n - 1) \div PageWords = n \div PageWords
<1>1. PageWords \in Nat /\ PageWords > 0 BY SizesAssumption
<1> QED BY <1>1

LEMMA SectionSize ==
  ASSUME NEW p \in SectionPages \cup {0}
  PROVE  p * PageWords \in 0..BufferWords
<1>1. CASE p = 0 BY <1>1, SizesAssumption
<1>2. CASE p \in SectionPages BY <1>2, SizesAssumption
<1> QED BY <1>1, <1>2

-----------------------------------------------------------------------------
(* The inductive invariant.                                                *)

\* The upload of section k of engine e is over.
Uploaded(e, k) ==
  \/ pc = "start" \/ started # <<>>
  \/ e = "09" /\ eng = "1a"
  \/ e = eng /\ k = "code" /\ kind = "data"

\* The present engine's file k has been read.
FileRead(k) ==
  \/ kind = k /\ pc \notin {"sections", "file"}
  \/ k = "code" /\ kind = "data"

\* What StartedMeansLoaded asks of one section
Loaded(e, k) ==
  /\ file[e][k] <= section[e][k]
  /\ \A p \in Places :
       memory[e][k][p] = IF p < section[e][k] THEN Image(e, k, p) ELSE "none"
  /\ \A p \in Places : k = "code" /\ p < section[e][k] => tag[e][p] = p \div PageWords

\* Where main() is, as far as the other parts need it
Place ==
  /\ pc \in {"sections", "file", "begin", "words", "start"} => started = <<>>
  /\ pc = "send" => started # <<>>
  /\ pc = "sections" => kind = "code"
  /\ pc = "start" => eng = "1a" /\ kind = "data"

\* Until the loader gives up or has started the engines: what buffers hold
BufferInv ==
  pc \in {"sections", "file", "begin", "words"} =>
    \A k \in Kinds, p \in Places :
      buffer[k][p] = IF FileRead(k) THEN Image(eng, k, p)
                     ELSE IF eng = "1a" THEN Image("09", k, p) ELSE "zero"

\* The upload that runs
UploadInv ==
  /\ pc \in {"begin", "words"} => file[eng][kind] <= section[eng][kind]
  /\ pc = "words" =>
       /\ i <= section[eng][kind]
       /\ i > 0 /\ kind = "code" => page = (i - 1) \div PageWords
       /\ \A p \in Places :
            memory[eng][kind][p] = IF p < i THEN Image(eng, kind, p) ELSE "none"
       /\ \A p \in Places : kind = "code" /\ p < i => tag[eng][p] = p \div PageWords

\* The memories of the uploads that are over, and of those to come
MemoryInv ==
  \A e \in Engines, k \in Kinds :
    /\ Uploaded(e, k) => Loaded(e, k)
    /\ ~Uploaded(e, k) /\ ~(pc = "words" /\ e = eng /\ k = kind) /\ pc \notin {"out", "done"} =>
         \A p \in Places : memory[e][k][p] = "none"

IInv == TypeOK /\ Place /\ BufferInv /\ UploadInv /\ MemoryInv

\* The types that the steps below need
LEMMA Types ==
  ASSUME TypeOK
  PROVE  /\ BufferWords \in Nat /\ PageWords \in Nat \ {0}
         /\ eng \in Engines /\ kind \in Kinds /\ i \in Nat
         /\ \A e \in Engines, k \in Kinds : section[e][k] \in 0..BufferWords
         /\ \A e \in Engines, k \in Kinds : file[e][k] \in Nat
<1>1. BufferWords \in Nat /\ PageWords \in Nat \ {0} BY SizesAssumption
<1>2. ASSUME NEW e \in Engines, NEW k \in Kinds
      PROVE  section[e][k] \in 0..BufferWords /\ file[e][k] \in Nat
  <2>1. PICK p \in SectionPages \cup {0} : section[e][k] = p * PageWords BY DEF TypeOK
  <2>2. file[e][k] \in FileWords \cup {Absent} BY DEF TypeOK
  <2>3. section[e][k] \in 0..BufferWords
    <3>1. p * PageWords \in 0..BufferWords BY SectionSize
    <3> QED BY <2>1, <3>1
  <2>4. file[e][k] \in Nat
    <3>1. FileWords \subseteq Nat /\ Absent \in Nat BY SizesAssumption DEF Absent
    <3> QED BY <2>2, <3>1
  <2> QED BY <2>3, <2>4
<1> QED BY <1>1, <1>2 DEF TypeOK

LEMMA InitInv == ASSUME Init PROVE IInv
<1> USE DEF Init
<1>1. BufferWords \in Nat /\ PageWords \in Nat \ {0} BY SizesAssumption
<1>2. TypeOK
  <2>1. 0 \in {p * PageWords : p \in SectionPages \cup {0}}
    <3>1. 0 = 0 * PageWords BY <1>1
    <3> QED BY <3>1
  <2>2. section \in [Engines -> [Kinds -> {p * PageWords : p \in SectionPages \cup {0}}]]
    BY <2>1
  <2>3. file \in [Engines -> [Kinds -> FileWords \cup {Absent}]] BY DEF Absent
  <2>4. buffer \in [Kinds -> [Places -> Sources]] BY DEF Sources
  <2>5. /\ memory \in [Engines -> [Kinds -> [Places -> Sources \cup {"none"}]]]
        /\ tag \in [Engines -> [Places -> 0..BufferWords]]
        /\ i \in 0..BufferWords /\ page \in 0..BufferWords
    BY <1>1
  <2>6. saved260 \in BOOLEAN /\ bit260 = (saved260 /\ pc # "words") OBVIOUS
  <2> QED BY <2>2, <2>3, <2>4, <2>5, <2>6 DEF TypeOK, Engines, Kinds
<1>3. Place BY DEF Place
<1>4. BufferInv
  <2>1. pc = "sections" /\ eng = "09" /\ kind = "code" OBVIOUS
  <2> QED BY <2>1 DEF BufferInv, FileRead
<1>5. UploadInv BY DEF UploadInv
<1>6. MemoryInv
  <2>1. \A e \in Engines, k \in Kinds : ~Uploaded(e, k) BY DEF Uploaded
  <2> QED BY <2>1 DEF MemoryInv
<1> QED BY <1>2, <1>3, <1>4, <1>5, <1>6 DEF IInv

-----------------------------------------------------------------------------
(* The actions.                                                            *)

LEMMA ReadSectionsInv == ASSUME IInv, ReadSections PROVE IInv'
<1> USE DEF ReadSections, upload
<1>1. TypeOK /\ Place /\ BufferInv /\ UploadInv /\ MemoryInv BY DEF IInv
<1>2. PICK cs, ds \in SectionPages :
        section' = [section EXCEPT ![eng] = [code |-> cs * PageWords, data |-> ds * PageWords]]
  OBVIOUS
<1>3. TypeOK'
  <2>1. [code |-> cs * PageWords, data |-> ds * PageWords]
          \in [Kinds -> {p * PageWords : p \in SectionPages \cup {0}}]
    BY DEF Kinds
  <2>2. section' \in [Engines -> [Kinds -> {p * PageWords : p \in SectionPages \cup {0}}]]
    BY <1>1, <1>2, <2>1 DEF TypeOK
  <2> QED BY <1>1, <2>2 DEF TypeOK
<1>4. Place' BY <1>1 DEF Place
<1>5. started = <<>> /\ kind = "code" BY <1>1 DEF Place
<1>6. BufferInv' BY <1>1 DEF BufferInv, FileRead, Image
<1>7. UploadInv' BY <1>1 DEF UploadInv
<1>8. MemoryInv'
  <2> SUFFICES ASSUME NEW e \in Engines, NEW k \in Kinds
               PROVE  /\ Uploaded(e, k)' => Loaded(e, k)'
                      /\ ~Uploaded(e, k)' => \A p \in Places : memory[e][k][p] = "none"
    BY DEF MemoryInv, Places
  <2>1. Uploaded(e, k)' <=> Uploaded(e, k) BY <1>5 DEF Uploaded
  <2>2. Uploaded(e, k) => section'[e][k] = section[e][k]
    <3>1. Uploaded(e, k) => e # eng BY <1>5 DEF Uploaded
    <3> QED BY <1>1, <1>2, <3>1 DEF TypeOK
  <2>3. Uploaded(e, k) => Loaded(e, k)'
    BY <1>1, <2>2 DEF MemoryInv, Loaded, Image, Places
  <2> QED BY <1>1, <2>1, <2>3 DEF MemoryInv
<1> QED BY <1>3, <1>4, <1>6, <1>7, <1>8 DEF IInv

LEMMA ReadFileInv == ASSUME IInv, ReadFile PROVE IInv'
<1> USE DEF ReadFile, upload
<1>1. TypeOK /\ Place /\ BufferInv /\ UploadInv /\ MemoryInv BY DEF IInv
<1>2. PICK size \in FileWords \cup {Absent} :
        /\ file' = [file EXCEPT ![eng][kind] = size]
        /\ buffer' = IF size > BufferWords THEN buffer
                     ELSE [buffer EXCEPT ![kind] =
                            [p \in Places |-> IF p < size THEN eng ELSE @[p]]]
        /\ pc' = IF size > section[eng][kind] THEN "out" ELSE "begin"
  OBVIOUS
<1>3. /\ eng \in Engines /\ kind \in Kinds /\ started = <<>> /\ pc = "file"
      /\ BufferWords \in Nat /\ section[eng][kind] \in 0..BufferWords /\ size \in Nat
  BY <1>1, Types, SizesAssumption DEF Place, Absent
<1>4. /\ file'[eng][kind] = size
      /\ \A e \in Engines, k \in Kinds : e # eng \/ k # kind => file'[e][k] = file[e][k]
      /\ file' \in [Engines -> [Kinds -> FileWords \cup {Absent}]]
  BY <1>1, <1>2, <1>3 DEF TypeOK
<1>5. /\ buffer' \in [Kinds -> [Places -> Sources]]
      /\ \A k \in Kinds, p \in Places :
           ~(size > BufferWords) =>
             buffer'[k][p] = IF k = kind /\ p < size THEN eng ELSE buffer[k][p]
  <2>1. CASE size > BufferWords BY <1>1, <1>2, <2>1 DEF TypeOK
  <2>2. CASE ~(size > BufferWords)
    <3>1. buffer' = [buffer EXCEPT ![kind] = [p \in Places |-> IF p < size THEN eng ELSE buffer[kind][p]]]
      BY <1>2, <2>2
    <3>2. [p \in Places |-> IF p < size THEN eng ELSE buffer[kind][p]] \in [Places -> Sources]
      BY <1>1, <1>3 DEF TypeOK, Sources
    <3> QED BY <1>1, <1>3, <3>1, <3>2 DEF TypeOK
  <2> QED BY <2>1, <2>2
<1>6. TypeOK'
  <2>1. pc' \in {"out", "begin"} BY <1>2
  <2> QED BY <1>1, <1>3, <1>4, <1>5, <2>1 DEF TypeOK
<1>7. Place' BY <1>1, <1>2, <1>3 DEF Place
<1>8. BufferInv'
  <2> SUFFICES ASSUME pc' # "out", NEW k \in Kinds, NEW p \in Places
               PROVE  (buffer[k][p] = IF FileRead(k) THEN Image(eng, k, p)
                                      ELSE IF eng = "1a" THEN Image("09", k, p) ELSE "zero")'
    BY DEF BufferInv, Places
  <2>1. size <= section[eng][kind] /\ pc' = "begin" /\ ~(size > BufferWords) BY <1>2, <1>3
  <2>2. p \in Int BY <1>3 DEF Places
  <2>3. /\ buffer[k][p] = IF FileRead(k) THEN Image(eng, k, p)
                          ELSE IF eng = "1a" THEN Image("09", k, p) ELSE "zero"
        /\ buffer'[k][p] = IF k = kind /\ p < size THEN eng ELSE buffer[k][p]
    BY <1>1, <1>3, <1>5, <2>1 DEF BufferInv
  <2>4. CASE k = kind
    <3>1. ~FileRead(k) /\ FileRead(k)' BY <1>3, <2>1, <2>4 DEF FileRead
    <3>2. eng = "1a" => file'["09"][k] = file["09"][k] BY <1>3, <1>4 DEF Engines
    <3>3. file'[eng][k] = size BY <1>4, <2>4
    <3> QED BY <1>3, <2>3, <2>4, <3>1, <3>2, <3>3 DEF Image, Engines
  <2>5. CASE k # kind
    <3>1. FileRead(k)' = FileRead(k) BY <2>5 DEF FileRead
    <3>2. \A e \in Engines : file'[e][k] = file[e][k] BY <1>4, <2>5
    <3>3. buffer'[k][p] = buffer[k][p] BY <2>3, <2>5
    <3>4. \A e \in Engines : Image(e, k, p)' = Image(e, k, p) BY <3>2 DEF Image, Engines
    <3> QED BY <1>3, <2>3, <3>1, <3>3, <3>4 DEF Engines
  <2> QED BY <2>4, <2>5
<1>9. UploadInv'
  <2>1. pc' \in {"out", "begin"} /\ (pc' = "begin" => size <= section[eng][kind])
    BY <1>2, <1>3
  <2> QED BY <1>4, <2>1 DEF UploadInv
<1>10. MemoryInv'
  <2> SUFFICES ASSUME NEW e \in Engines, NEW k \in Kinds
               PROVE  /\ Uploaded(e, k)' => Loaded(e, k)'
                      /\ ~Uploaded(e, k)' => \A p \in Places : memory[e][k][p] = "none"
    BY DEF MemoryInv, Places
  <2>1. Uploaded(e, k)' <=> Uploaded(e, k) BY <1>2, <1>3 DEF Uploaded
  <2>2. ASSUME Uploaded(e, k)
        PROVE  /\ file'[e][k] = file[e][k]
               /\ e = "1a" => file'["09"][k] = file["09"][k]
    <3>1. e # eng \/ k # kind BY <1>3, <2>2 DEF Uploaded, Engines
    <3>2. e = "1a" => "09" # eng \/ k # kind BY <1>3, <2>2 DEF Uploaded, Engines
    <3> QED BY <1>4, <3>1, <3>2 DEF Engines
  <2>3. Uploaded(e, k) => Loaded(e, k)'
    BY <1>1, <2>2 DEF MemoryInv, Loaded, Image, Places, Engines
  <2> QED BY <1>1, <1>3, <2>1, <2>3 DEF MemoryInv
<1> QED BY <1>6, <1>7, <1>8, <1>9, <1>10 DEF IInv

LEMMA BeginUploadInv == ASSUME IInv, BeginUpload PROVE IInv'
<1> USE DEF BeginUpload
<1>1. TypeOK /\ Place /\ BufferInv /\ UploadInv /\ MemoryInv BY DEF IInv
<1>2. /\ eng \in Engines /\ kind \in Kinds /\ started = <<>>
      /\ BufferWords \in Nat /\ section[eng][kind] \in 0..BufferWords
  BY <1>1, Types DEF Place
<1>3. ~Uploaded(eng, kind) BY <1>2 DEF Uploaded
<1>4. TypeOK'
  <2>1. 0 \in 0..BufferWords BY <1>2
  <2>2. bit260 = (saved260 /\ TRUE) /\ bit260 \in BOOLEAN BY <1>1 DEF TypeOK
  <2>3. saved260' \in BOOLEAN /\ bit260' = (saved260' /\ pc' # "words") BY <2>2
  <2> QED BY <1>1, <2>1, <2>3 DEF TypeOK
<1>5. Place' BY <1>1 DEF Place
<1>6. BufferInv' BY <1>1 DEF BufferInv, FileRead, Image
<1>7. UploadInv'
  <2>1. \A p \in Places : memory[eng][kind][p] = "none"
    BY <1>1, <1>2, <1>3 DEF MemoryInv
  <2>2. \A p \in Places : ~(p < 0) BY DEF Places
  <2> QED BY <1>1, <1>2, <2>1, <2>2 DEF UploadInv, Places
<1>8. MemoryInv'
  <2>1. \A e \in Engines, k \in Kinds : Uploaded(e, k)' <=> Uploaded(e, k)
    BY DEF Uploaded
  <2>2. \A e \in Engines, k \in Kinds : Loaded(e, k)' <=> Loaded(e, k)
    BY DEF Loaded, Image, Places
  <2> QED BY <1>1, <2>1, <2>2 DEF MemoryInv, Places
<1> QED BY <1>4, <1>5, <1>6, <1>7, <1>8 DEF IInv

LEMMA UploadWordInv == ASSUME IInv, UploadWord PROVE IInv'
<1> USE DEF UploadWord
<1>1. TypeOK /\ Place /\ BufferInv /\ UploadInv /\ MemoryInv BY DEF IInv
<1> DEFINE newPage == IF kind = "code" /\ i % PageWords = 0 THEN i \div PageWords ELSE page
<1>2. /\ eng \in Engines /\ kind \in Kinds /\ started = <<>> /\ pc = "words" /\ pc' = pc
      /\ BufferWords \in Nat /\ section[eng][kind] \in 0..BufferWords
      /\ i \in 0..(BufferWords - 1) /\ i \in Places /\ i' = i + 1
      /\ page \in 0..BufferWords
  <2>1. /\ eng \in Engines /\ kind \in Kinds /\ started = <<>>
        /\ BufferWords \in Nat /\ section[eng][kind] \in 0..BufferWords /\ i \in Nat
    BY <1>1, Types DEF Place
  <2> QED BY <1>1, <2>1 DEF Places, TypeOK
<1>3. /\ newPage \in 0..BufferWords
      /\ kind = "code" => newPage = i \div PageWords
  <2>1. /\ i \div PageWords \in Nat /\ i \div PageWords =< i
        /\ i > 0 /\ i % PageWords # 0 => (i - 1) \div PageWords = i \div PageWords
    BY <1>2, PageNumbers
  <2>2. i = 0 => i % PageWords = 0
    <3>1. PageWords \in Nat /\ PageWords > 0 => 0 % PageWords = 0 OBVIOUS
    <3> QED BY <3>1, SizesAssumption
  <2>3. i > 0 /\ kind = "code" => page = (i - 1) \div PageWords BY <1>1, <1>2 DEF UploadInv
  <2>4. i \div PageWords \in 0..BufferWords BY <1>2, <2>1
  <2> QED BY <1>2, <2>1, <2>2, <2>3, <2>4
<1>4. /\ page' = newPage
      /\ tag' = IF kind = "code" THEN [tag EXCEPT ![eng][i] = newPage] ELSE tag
  OBVIOUS
<1> HIDE DEF newPage
<1>5. /\ memory' \in [Engines -> [Kinds -> [Places -> Sources \cup {"none"}]]]
      /\ memory'[eng][kind] = [memory[eng][kind] EXCEPT ![i] = buffer[kind][i]]
      /\ \A e \in Engines, k \in Kinds : e # eng \/ k # kind => memory'[e][k] = memory[e][k]
  <2>1. buffer[kind][i] \in Sources BY <1>1, <1>2 DEF TypeOK
  <2>2. memory \in [Engines -> [Kinds -> [Places -> Sources \cup {"none"}]]] BY <1>1 DEF TypeOK
  <2>3. memory' = [memory EXCEPT ![eng][kind][i] = buffer[kind][i]] OBVIOUS
  <2> HIDE DEF UploadWord
  <2> QED BY <1>2, <2>1, <2>2, <2>3
<1>6. /\ tag' \in [Engines -> [Places -> 0..BufferWords]]
      /\ kind = "code" => tag'[eng] = [tag[eng] EXCEPT ![i] = newPage]
      /\ \A e \in Engines : e # eng \/ kind # "code" => tag'[e] = tag[e]
  <2>1. tag \in [Engines -> [Places -> 0..BufferWords]] BY <1>1 DEF TypeOK
  <2> HIDE DEF UploadWord
  <2> QED BY <1>2, <1>3, <1>4, <2>1
<1>7. TypeOK'
  <2>1. i' \in 0..BufferWords BY <1>2
  <2> QED BY <1>1, <1>3, <1>4, <1>5, <1>6, <2>1 DEF TypeOK
<1>8. Place' BY <1>1 DEF Place
<1>9. BufferInv' BY <1>1 DEF BufferInv, FileRead, Image
<1>10. \A e, k : \A p \in Places : Image(e, k, p)' = Image(e, k, p) BY DEF Image
<1>11. UploadInv'
  <2>1. file[eng][kind] <= section[eng][kind] /\ i + 1 <= section[eng][kind]
    BY <1>1, <1>2 DEF UploadInv
  <2>2. kind = "code" => newPage = (i + 1 - 1) \div PageWords
    <3>1. i + 1 - 1 = i BY <1>2
    <3> QED BY <1>3, <3>1
  <2>3. ASSUME NEW p \in Places
        PROVE  memory'[eng][kind][p] = IF p < i + 1 THEN Image(eng, kind, p) ELSE "none"
    <3>1. memory[eng][kind][p] = IF p < i THEN Image(eng, kind, p) ELSE "none"
      BY <1>1, <1>2 DEF UploadInv
    <3>2. buffer[kind][i] = Image(eng, kind, i)
      <4>1. FileRead(kind) BY <1>2 DEF FileRead
      <4> QED BY <1>1, <1>2, <4>1 DEF BufferInv
    <3>3. memory[eng][kind] \in [Places -> Sources \cup {"none"}] BY <1>1, <1>2 DEF TypeOK
    <3>4. p \in Int /\ (p < i + 1 <=> p < i \/ p = i) BY <1>2 DEF Places
    <3> QED BY <1>2, <1>5, <3>1, <3>2, <3>3, <3>4
  <2>4. ASSUME NEW p \in Places, kind = "code", p < i + 1
        PROVE  tag'[eng][p] = p \div PageWords
    <3>1. p < i => tag[eng][p] = p \div PageWords BY <1>1, <1>2, <2>4 DEF UploadInv
    <3>2. tag[eng] \in [Places -> 0..BufferWords] BY <1>1, <1>2 DEF TypeOK
    <3>3. p \in Int /\ (p < i \/ p = i) BY <1>2, <2>4 DEF Places
    <3> QED BY <1>2, <1>3, <1>6, <2>4, <3>1, <3>2, <3>3
  <2> HIDE DEF Places
  <2>5. Places' = Places BY DEF Places
  <2> QED BY <1>2, <1>4, <1>10, <2>1, <2>2, <2>3, <2>4, <2>5 DEF UploadInv
<1>12. MemoryInv'
  <2> SUFFICES ASSUME NEW e \in Engines, NEW k \in Kinds
               PROVE  /\ Uploaded(e, k)' => Loaded(e, k)'
                      /\ ~Uploaded(e, k)' /\ ~(e = eng /\ k = kind) =>
                           \A p \in Places : memory'[e][k][p] = "none"
    BY <1>2 DEF MemoryInv, Places
  <2>1. Uploaded(e, k)' <=> Uploaded(e, k) BY DEF Uploaded
  <2>2. ASSUME Uploaded(e, k) PROVE Loaded(e, k)'
    <3>1. e # eng \/ k # kind BY <1>2, <2>2 DEF Uploaded, Engines
    <3>2. k = "code" => tag'[e] = tag[e]
      BY <1>2, <1>6, <2>2 DEF Uploaded, Engines
    <3>3. memory'[e][k] = memory[e][k] BY <1>5, <3>1
    <3>4. Loaded(e, k) BY <1>1, <2>2 DEF MemoryInv
    <3> QED BY <3>2, <3>3, <3>4 DEF Loaded, Image, Places
  <2>3. ~Uploaded(e, k) /\ ~(e = eng /\ k = kind) => \A p \in Places : memory'[e][k][p] = "none"
    BY <1>1, <1>2, <1>5 DEF MemoryInv
  <2> QED BY <2>1, <2>2, <2>3
<1> QED BY <1>7, <1>8, <1>9, <1>11, <1>12 DEF IInv

LEMMA EndUploadInv == ASSUME IInv, EndUpload PROVE IInv'
<1> USE DEF EndUpload
<1>1. TypeOK /\ Place /\ BufferInv /\ UploadInv /\ MemoryInv BY DEF IInv
<1>2. /\ eng \in Engines /\ kind \in Kinds /\ started = <<>> /\ pc = "words"
      /\ BufferWords \in Nat /\ section[eng][kind] \in 0..BufferWords
      /\ i = section[eng][kind]
  BY <1>1, Types DEF Place
<1>3. /\ kind = "code" => kind' = "data" /\ pc' = "file" /\ eng' = eng
      /\ kind = "data" /\ eng = "09" => kind' = "code" /\ eng' = "1a" /\ pc' = "sections"
      /\ kind = "data" /\ eng = "1a" => pc' = "start" /\ kind' = kind /\ eng' = eng
      /\ \/ kind = "code"
         \/ kind = "data" /\ eng = "09"
         \/ kind = "data" /\ eng = "1a"
  BY <1>2 DEF Engines, Kinds
<1>4. TypeOK'
  <2>1. bit260' = (saved260' /\ pc' # "words")
    <3>1. pc' # "words" /\ bit260' = saved260 /\ saved260' = saved260 BY <1>3
    <3> QED BY <1>1, <3>1 DEF TypeOK
  <2>2. pc' \in {"file", "sections", "start"} /\ eng' \in Engines /\ kind' \in Kinds
    BY <1>2, <1>3 DEF Engines, Kinds
  <2> QED BY <1>1, <2>1, <2>2 DEF TypeOK
<1>5. Place' BY <1>1, <1>2, <1>3 DEF Place
<1>6. \A e, k : \A p \in Places : Image(e, k, p)' = Image(e, k, p) BY DEF Image
<1>7. BufferInv'
  <2> SUFFICES ASSUME pc' # "start", NEW k \in Kinds, NEW p \in Places
               PROVE  (buffer[k][p] = IF FileRead(k) THEN Image(eng, k, p)
                                      ELSE IF eng = "1a" THEN Image("09", k, p) ELSE "zero")'
    BY <1>3 DEF BufferInv, Places
  <2>1. buffer[k][p] = IF FileRead(k) THEN Image(eng, k, p)
                       ELSE IF eng = "1a" THEN Image("09", k, p) ELSE "zero"
    BY <1>1, <1>2 DEF BufferInv
  <2>2. CASE kind = "code"
    <3>1. FileRead(k)' = FileRead(k) BY <1>2, <1>3, <2>2 DEF FileRead, Kinds
    <3> QED BY <1>3, <1>6, <2>1, <2>2, <3>1
  <2>3. CASE kind = "data" /\ eng = "09"
    <3>1. FileRead(k) /\ ~FileRead(k)' BY <1>2, <1>3, <2>3 DEF FileRead, Kinds
    <3> QED BY <1>3, <1>6, <2>1, <2>3, <3>1
  <2> QED BY <1>3, <2>2, <2>3
<1>8. UploadInv' BY <1>3 DEF UploadInv
<1>9. Loaded(eng, kind)
  BY <1>1, <1>2 DEF UploadInv, Loaded
<1>10. \A e \in Engines, k \in Kinds : Loaded(e, k)' <=> Loaded(e, k)
  BY <1>6 DEF Loaded, Places
<1>11. MemoryInv'
  <2> SUFFICES ASSUME NEW e \in Engines, NEW k \in Kinds
               PROVE  /\ Uploaded(e, k)' => Loaded(e, k)
                      /\ ~Uploaded(e, k)' => \A p \in Places : memory[e][k][p] = "none"
    BY <1>10 DEF MemoryInv, Places
  <2>1. Uploaded(e, k)' <=> Uploaded(e, k) \/ (e = eng /\ k = kind)
    BY <1>2, <1>3 DEF Uploaded, Engines, Kinds
  <2>2. Uploaded(e, k) => Loaded(e, k) BY <1>1 DEF MemoryInv
  <2>3. ~Uploaded(e, k) /\ ~(e = eng /\ k = kind) => \A p \in Places : memory[e][k][p] = "none"
    BY <1>1, <1>2 DEF MemoryInv
  <2> QED BY <1>9, <2>1, <2>2, <2>3
<1> QED BY <1>4, <1>5, <1>7, <1>8, <1>11 DEF IInv

LEMMA EndInv == ASSUME IInv, Start \/ SendCommand \/ Finish PROVE IInv'
<1> USE DEF Start, SendCommand, Finish, upload
<1>1. TypeOK /\ Place /\ BufferInv /\ UploadInv /\ MemoryInv BY DEF IInv
<1>2. /\ pc \in {"start", "send", "out"} /\ pc' \in {"send", "out", "done"}
      /\ pc' = "send" => started' # <<>>
      /\ pc = "out" => started' = started
      /\ pc # "out" => pc = "start" \/ started # <<>>
      /\ UNCHANGED <<eng, kind, section, file, buffer, upload>>
  <2>1. pc = "send" => started # <<>> BY <1>1 DEF Place
  <2> QED BY <2>1
<1>3. started \in {<<>>, <<"1a", "09">>} /\ started' \in {started, <<"1a", "09">>}
  BY <1>1 DEF TypeOK
<1>4. TypeOK' BY <1>1, <1>2, <1>3 DEF TypeOK
<1>5. Place' BY <1>2 DEF Place
<1>6. BufferInv' /\ UploadInv' BY <1>2 DEF BufferInv, UploadInv
<1>7. MemoryInv'
  <2> SUFFICES ASSUME NEW e \in Engines, NEW k \in Kinds
               PROVE  /\ Uploaded(e, k)' => Loaded(e, k)
                      /\ pc' = "send" => Uploaded(e, k)'
    <3>1. \A e \in Engines, k \in Kinds : Loaded(e, k)' <=> Loaded(e, k)
      BY DEF Loaded, Image, Places
    <3> QED BY <1>2, <3>1 DEF MemoryInv
  <2>1. Uploaded(e, k)' => Uploaded(e, k) BY <1>2, <1>3 DEF Uploaded
  <2> QED BY <1>1, <1>2, <2>1 DEF MemoryInv, Uploaded
<1> QED BY <1>4, <1>5, <1>6, <1>7 DEF IInv

LEMMA NextInv == ASSUME IInv, [Next]_vars PROVE IInv'
<1>1. CASE UNCHANGED vars
  BY <1>1 DEF vars, upload, IInv, TypeOK, Place, BufferInv, FileRead, UploadInv, MemoryInv,
              Uploaded, Loaded, Image, Places
<1> QED
  BY <1>1, ReadSectionsInv, ReadFileInv, BeginUploadInv, UploadWordInv, EndUploadInv, EndInv
  DEF Next

(* At every step of the loader, buffers and memories hold what the uploads *)
(* so far have put there.                                                  *)
THEOREM Invariance == Spec => []IInv
<1>1. Init => IInv BY InitInv
<1>2. IInv /\ [Next]_vars => IInv' BY NextInv
<1> QED BY <1>1, <1>2, PTL DEF Spec

-----------------------------------------------------------------------------
(* The properties.                                                         *)

(* Every variable keeps its type, and every upload gives the gate 0x260    *)
(* back as it found it.                                                    *)
THEOREM TypeCorrect == Spec => []TypeOK
<1>1. IInv => TypeOK BY DEF IInv
<1> QED BY <1>1, Invariance, PTL

(* Engines are started only when all four sections are completely loaded,  *)
(* whatever the sizes of files, sections and pages.                        *)
THEOREM LoadedBeforeStart == Spec => []StartedMeansLoaded
<1>1. IInv => StartedMeansLoaded
  BY DEF IInv, MemoryInv, Uploaded, Loaded, StartedMeansLoaded
<1> QED BY <1>1, Invariance, PTL

(* No word is written twice, and none to an engine that runs.              *)
THEOREM WritesOnce == Spec => WrittenOnce
<1>1. IInv /\ [Next]_vars =>
        [\A e \in Engines, k \in Kinds, p \in Places :
           memory[e][k][p] # "none" \/ started # <<>> => memory'[e][k][p] = memory[e][k][p]]_vars
  <2> SUFFICES ASSUME IInv, Next, NEW e \in Engines, NEW k \in Kinds, NEW p \in Places,
                      memory[e][k][p] # "none" \/ started # <<>>
               PROVE  memory'[e][k][p] = memory[e][k][p]
    OBVIOUS
  <2>1. CASE ~UploadWord
    <3>1. memory' = memory
      BY <2>1 DEF Next, ReadSections, ReadFile, BeginUpload, EndUpload, Start, SendCommand,
                  Finish, upload
    <3> QED BY <3>1
  <2>2. CASE UploadWord
    <3> USE DEF UploadWord
    <3>1. TypeOK /\ Place /\ UploadInv BY DEF IInv
    <3>2. /\ eng \in Engines /\ kind \in Kinds /\ i \in Nat /\ started = <<>>
      BY <2>2, <3>1, Types DEF Place
    <3>3. memory[e][k][p] # "none" BY <3>2
    <3>4. e = eng /\ k = kind => p # i
      BY <2>2, <3>1, <3>3 DEF UploadInv, Places
    <3>5. /\ memory \in [Engines -> [Kinds -> [Places -> Sources \cup {"none"}]]]
          /\ memory' = [memory EXCEPT ![eng][kind][i] = buffer[kind][i]]
      BY <2>2, <3>1 DEF TypeOK
    <3> HIDE DEF UploadWord
    <3> QED BY <3>2, <3>4, <3>5
  <2> QED BY <2>1, <2>2
<1> QED BY <1>1, Invariance, PTL DEF Spec, WrittenOnce
=============================================================================
