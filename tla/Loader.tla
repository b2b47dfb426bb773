------------------------------- MODULE Loader -------------------------------
(***************************************************************************)
(* The host loader src/loader/fucload.c: for the hub microcontroller (09)  *)
(* and then the GPC microcontrollers (1a) it reads the sizes of the code   *)
(* and data sections, reads each file into a buffer, uploads the whole     *)
(* section from that buffer, and at the end starts both engines.           *)
(*                                                                         *)
(* The unit is the 32-bit word an upload writes.  A file's content is      *)
(* abstracted to which file a word comes from: word i of a file is at      *)
(* place i of the buffer, so [buffer |-> source] says all there is.        *)
(* The files, the section sizes (register 0x620) and the microcontrollers' *)
(* upload registers are the environment.                                   *)
(***************************************************************************)
EXTENDS Naturals

CONSTANTS
  BufferWords,   \* words of the buffers code[] and data[]
  PageWords,     \* words of a page, 64
  SectionPages,  \* the page counts register 0x620 can report
  FileWords      \* the sizes a file can have

ASSUME SizesAssumption ==
  /\ BufferWords \in Nat /\ PageWords \in Nat \ {0}
  /\ SectionPages \subseteq Nat /\ FileWords \subseteq Nat
  \* 0xff pages are smaller than the buffer.
  /\ \A p \in SectionPages : p * PageWords < BufferWords

Engines == {"09", "1a"}
Kinds == {"code", "data"}
Absent == 0 \* read_binfile() of a file that fails to open returns 0

VARIABLES
  pc,          \* where main() is
  eng, kind,   \* the upload it is at
  section,     \* section[e][k]: cs_size and ds_size, in words
  file,        \* file[e][k]: the size read_binfile() returned
  buffer,      \* buffer[k][i]: which engine's file word i is from
  i, page,     \* the loop of the upload, and register 0x188
  bit260,      \* bit 0 of register 0x260
  saved260,    \* val260
  memory,      \* memory[e][k]: the words written, place to source
  tag,         \* tag[e]: code place to the page number it was written under
  started,     \* the engines whose 0x100 was written, in order
  sent         \* the command 0x10 has been written to 0x504

upload == <<i, page, bit260, saved260, memory, tag>>
vars == <<pc, eng, kind, section, file, buffer, upload, started, sent>>

Places == 0..(BufferWords - 1)

\* init_device() resets the engines: nothing is known of their memory.
Init ==
  /\ pc = "sections" /\ eng = "09" /\ kind = "code"
  /\ section = [e \in Engines |-> [k \in Kinds |-> 0]]
  /\ file = [e \in Engines |-> [k \in Kinds |-> 0]]
  /\ buffer = [k \in Kinds |-> [p \in Places |-> "zero"]]
  /\ i = 0 /\ page = 0
  /\ bit260 \in BOOLEAN /\ saved260 = bit260
  /\ memory = [e \in Engines |-> [k \in Kinds |-> [p \in Places |-> "none"]]]
  /\ tag = [e \in Engines |-> [p \in Places |-> 0]]
  /\ started = <<>> /\ sent = FALSE

-----------------------------------------------------------------------------
\* cs_size and ds_size from register 0x620, once for each engine
ReadSections ==
  /\ pc = "sections"
  /\ \E cs, ds \in SectionPages :
       section' = [section EXCEPT ![eng] = [code |-> cs * PageWords, data |-> ds * PageWords]]
  /\ pc' = "file"
  /\ UNCHANGED <<eng, kind, file, buffer, upload, started, sent>>

\* Fault variant of ReadFile: the size is compared with the buffer's.
ReadFileThatFitsBuffer ==
  /\ pc = "file"
  /\ \E size \in FileWords \cup {Absent} :
       /\ file' = [file EXCEPT ![eng][kind] = size]
       /\ buffer' = IF size > BufferWords THEN buffer
                    ELSE [buffer EXCEPT ![kind] =
                           [p \in Places |-> IF p < size THEN eng ELSE @[p]]]
       /\ pc' = IF size > BufferWords THEN "out" ELSE "begin"
  /\ UNCHANGED <<eng, kind, section, upload, started, sent>>

\* read_binfile(): a file larger than the buffer has its size returned unread;
\* a shorter one leaves the rest of the buffer as it was.
ReadFile ==
  /\ pc = "file"
  /\ \E size \in FileWords \cup {Absent} :
       /\ file' = [file EXCEPT ![eng][kind] = size]
       /\ buffer' = IF size > BufferWords THEN buffer
                    ELSE [buffer EXCEPT ![kind] =
                           [p \in Places |-> IF p < size THEN eng ELSE @[p]]]
       /\ pc' = IF size > section[eng][kind] THEN "out" ELSE "begin"
  /\ UNCHANGED <<eng, kind, section, upload, started, sent>>

\* upload_code(), upload_data(): close gate 0x260 and set the index.
BeginUpload ==
  /\ pc = "begin"
  /\ saved260' = bit260 /\ bit260' = FALSE
  /\ i' = 0 /\ page' = 0
  /\ pc' = "words"
  /\ UNCHANGED <<eng, kind, section, file, buffer, memory, tag, started, sent>>

\* Fault variant of UploadWord: register 0x188 is set after a page's first word.
UploadWordLatePage ==
  /\ pc = "words" /\ i < section[eng][kind]
  /\ page' = IF kind = "code" /\ i % PageWords = 0 THEN i \div PageWords ELSE page
  /\ tag' = IF kind = "code" THEN [tag EXCEPT ![eng][i] = page] ELSE tag
  /\ memory' = [memory EXCEPT ![eng][kind][i] = buffer[kind][i]]
  /\ i' = i + 1
  /\ UNCHANGED <<pc, eng, kind, section, file, buffer, bit260, saved260, started, sent>>

\* One word of the section; code starts a page every PageWords words.
UploadWord ==
  /\ pc = "words" /\ i < section[eng][kind]
  /\ LET newPage == IF kind = "code" /\ i % PageWords = 0 THEN i \div PageWords ELSE page
     IN /\ page' = newPage
        /\ tag' = IF kind = "code" THEN [tag EXCEPT ![eng][i] = newPage] ELSE tag
  /\ memory' = [memory EXCEPT ![eng][kind][i] = buffer[kind][i]]
  /\ i' = i + 1
  /\ UNCHANGED <<pc, eng, kind, section, file, buffer, bit260, saved260, started, sent>>

\* Fault variant of EndUpload: the gate is left closed.
EndUploadClosed ==
  /\ pc = "words" /\ i = section[eng][kind]
  /\ IF kind = "code" THEN /\ kind' = "data" /\ pc' = "file" /\ UNCHANGED eng
     ELSE IF eng = "09" THEN /\ kind' = "code" /\ eng' = "1a" /\ pc' = "sections"
     ELSE /\ pc' = "start" /\ UNCHANGED <<kind, eng>>
  /\ UNCHANGED <<section, file, buffer, upload, started, sent>>

\* Fault variant of EndUpload: 09 is uploaded again in the place of 1a.
EndUploadSameEngine ==
  /\ pc = "words" /\ i = section[eng][kind]
  /\ bit260' = saved260
  /\ IF kind = "code" THEN kind' = "data" /\ pc' = "file"
                      ELSE kind' = "code" /\ pc' = "sections"
  /\ UNCHANGED <<eng, section, file, buffer, i, page, saved260, memory, tag, started, sent>>

\* The gate is restored; code is followed by data, 09 by 1a.
EndUpload ==
  /\ pc = "words" /\ i = section[eng][kind]
  /\ bit260' = saved260
  /\ IF kind = "code" THEN /\ kind' = "data" /\ pc' = "file" /\ UNCHANGED eng
     ELSE IF eng = "09" THEN /\ kind' = "code" /\ eng' = "1a" /\ pc' = "sections"
     ELSE /\ pc' = "start" /\ UNCHANGED <<kind, eng>>
  /\ UNCHANGED <<section, file, buffer, i, page, saved260, memory, tag, started, sent>>

\* doit(): trigger the GPC microcontrollers, then the hub.
Start ==
  /\ pc = "start"
  /\ started' = <<"1a", "09">>
  /\ pc' = "send"
  /\ UNCHANGED <<eng, kind, section, file, buffer, upload, sent>>

\* 0x840, 0x500 and 0x504: a first command for the hub
SendCommand ==
  /\ pc = "send"
  /\ sent' = TRUE
  /\ pc' = "out"
  /\ UNCHANGED <<eng, kind, section, file, buffer, upload, started>>

\* fini_device()
Finish ==
  /\ pc = "out"
  /\ pc' = "done"
  /\ UNCHANGED <<eng, kind, section, file, buffer, upload, started, sent>>

Next ==
  \/ ReadSections \/ ReadFile
  \/ BeginUpload \/ UploadWord \/ EndUpload
  \/ Start \/ SendCommand \/ Finish

Spec == Init /\ [][Next]_vars
FairSpec == Spec /\ WF_vars(Next)
-----------------------------------------------------------------------------
(* Properties.                                                             *)

Sources == Engines \cup {"zero"}

(* Every variable has its type; the gate 0x260 is closed while words are   *)
(* written and has its own value again outside the two uploads.            *)
TypeOK ==
  /\ pc \in {"sections", "file", "begin", "words", "start", "send", "out", "done"}
  /\ eng \in Engines /\ kind \in Kinds
  /\ section \in [Engines -> [Kinds -> {p * PageWords : p \in SectionPages \cup {0}}]]
  /\ file \in [Engines -> [Kinds -> FileWords \cup {Absent}]]
  /\ buffer \in [Kinds -> [Places -> Sources]]
  /\ i \in 0..BufferWords /\ page \in 0..BufferWords
  /\ saved260 \in BOOLEAN /\ bit260 = (saved260 /\ pc # "words")
  /\ memory \in [Engines -> [Kinds -> [Places -> Sources \cup {"none"}]]]
  /\ tag \in [Engines -> [Places -> 0..BufferWords]]
  /\ started \in {<<>>, <<"1a", "09">>} /\ sent \in BOOLEAN

\* What an upload leaves at place p of engine e's section.  The buffers are
\* not cleared between the engines, so past the end of its own file a GPC
\* gets what the hub's file left there.
Image(e, k, p) ==
  IF p < file[e][k] THEN e
  ELSE IF e = "1a" /\ p < file["09"][k] THEN "09" ELSE "zero"

(* A microcontroller is started only when every file fitted its section    *)
(* and all four sections were written to the last word: its own file       *)
(* first, and each code word under the number of its own page.             *)
StartedMeansLoaded ==
  started # <<>> => \A e \in Engines, k \in Kinds :
    /\ file[e][k] <= section[e][k]
    /\ \A p \in Places :
         memory[e][k][p] = IF p < section[e][k] THEN Image(e, k, p) ELSE "none"
    /\ \A p \in Places :
         k = "code" /\ p < section[e][k] => tag[e][p] = p \div PageWords

(* A word that has been written is not written again, and an engine that   *)
(* runs is not written to: its sections are loaded once, before the start. *)
WrittenOnce ==
  [][\A e \in Engines, k \in Kinds, p \in Places :
       memory[e][k][p] # "none" \/ started # <<>> => memory'[e][k][p] = memory[e][k][p]]_vars

(* The loader comes to fini_device(), and then either both engines run and *)
(* the hub has its first command, or some file did not fit and none does.  *)
EndsLoadedOrNot ==
  <>[](pc = "done" /\ IF \E e \in Engines, k \in Kinds : file[e][k] > section[e][k]
                      THEN started = <<>> /\ ~sent ELSE started # <<>> /\ sent)
=============================================================================
