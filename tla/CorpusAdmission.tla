--------------------------- MODULE CorpusAdmission ---------------------------
(***************************************************************************)
(* loadProjectedCorpus (projected-corpus.ts): a published corpus, that is  *)
(* a manifest, a projection plan, traces with their receipts, the compiler *)
(* lock and the model's sources, is admitted file by file while somebody   *)
(* may edit, replace or remove files.  The trusted model handle names one  *)
(* publication; the lock, the manifest and every other file are bound to   *)
(* it by digests.  At the end preflightSuite (suite-preflight.ts) reads    *)
(* the sources (specFromFiles in spec.ts) and the traces once more.        *)
(*                                                                         *)
(* A file is a sequence of bytes; a byte is the publication it belongs to, *)
(* so a digest is the bytes themselves and a mixture of publications is    *)
(* the digest of none.  CR is the byte that source normalisation drops.    *)
(* The corpus has one member; the model has a root module and one that it  *)
(* extends.                                                                *)
(***************************************************************************)
EXTENDS Naturals, Sequences, SequencesExt, FiniteSetsExt

CONSTANTS
    Publications,    \* publications of the corpus
    Trusted,         \* the one the model handle was generated with
    FileBytes,       \* limit of one file
    AggregateBytes,  \* limit of all files of load
    WorkflowBytes,   \* limit of all files of the preflight
    MaxEdits         \* edits of the files while they are read (bound)

ASSUME CorpusAssumption ==
    /\ Publications \subseteq Nat \ {0} /\ Trusted \in Publications
    /\ FileBytes \in Nat /\ AggregateBytes \in Nat /\ WorkflowBytes \in Nat
    /\ MaxEdits \in Nat

CR == 0

VARIABLES
    path,       \* path[f]: inode of file f, 0 when there is none
    inode,      \* inode[i]: its bytes and its modification time
    extra,      \* a file the manifest does not name lies in the directory
    ambiguous,  \* a search directory holds a second copy of the dependency
    edits,      \* edits made so far
    step,       \* which read of Reads is next
    reading,    \* the read under way
    got,        \* got[k]: bytes that read k returned
    budget,     \* bytes load may still read
    remaining,  \* bytes the preflight may still read
    spent,      \* bytes taken from files by load and by the preflight
    held,       \* contents of the opened file since the read began
    outcome     \* running, refused or admitted

diskVars == <<path, inode, extra, ambiguous, edits>>
loadVars == <<step, reading, got, budget, remaining, spent, held, outcome>>
corpusVars     == <<diskVars, loadVars>>

Sources == {"root", "dep"}
Names   == {"manifest", "lock", "root", "dep", "plan", "trace", "receipt"}

(* The file as publication p has it; the publications project the traces of   *)
(* the same model.                                                            *)
Published(p, f) == IF f \in Sources THEN <<Trusted, Trusted>> ELSE <<p, p>>

(* The same source with carriage returns. *)
WithCR(bytes) == <<Head(bytes), CR>> \o Tail(bytes)

Forms(f) == {Published(p, f) : p \in Publications}
            \cup IF f \in Sources THEN {WithCR(Published(p, f)) : p \in Publications} ELSE {}

(* replace(/\r\n?/g, "\n") *)
normalized(bytes) == SelectSeq(bytes, LAMBDA b : b # CR)

(* The reads of load in order, then those of the preflight, then the         *)
(* manifest again.  "members" is the directory listing.                      *)
Reads == << "manifest", "lock", "dep", "root", "plan", "trace", "receipt", "members",
            "root", "dep", "trace", "manifest" >>
Preflight == 9..11
Listing == 8

Inodes == 1..(7 + MaxEdits)
Place == << "manifest", "lock", "root", "dep", "plan", "trace", "receipt" >>
NoFile == [bytes |-> <<>>, mtime |-> 0]
Resting == [at |-> "lstat", size |-> 0, ino |-> 0, mtime |-> 0, bytes |-> <<>>]

CorpusInit ==
    /\ path = [f \in Names |-> CHOOSE i \in 1..7 : Place[i] = f]
    /\ \E p \in Publications, dos \in SUBSET Sources :
          inode = [i \in Inodes |->
                     IF i > 7 THEN NoFile
                     ELSE [mtime |-> 0,
                           bytes |-> IF Place[i] \in dos THEN WithCR(Published(p, Place[i]))
                                     ELSE Published(p, Place[i])]]
    /\ extra \in BOOLEAN
    /\ ambiguous \in BOOLEAN
    /\ edits = 0
    /\ step = 1
    /\ reading = Resting
    /\ got = [k \in 1..Len(Reads) |-> <<>>]
    /\ budget = AggregateBytes
    /\ remaining = WorkflowBytes
    /\ spent = [load |-> 0, preflight |-> 0]
    /\ held = {}
    /\ outcome = "running"

-----------------------------------------------------------------------------
(* Somebody edits files. *)

CanEdit == outcome = "running" /\ edits < MaxEdits /\ edits' = edits + 1

(* A write into the file: a byte changes, or one is appended. *)
WriteByte(f, k, b) ==
    /\ CanEdit /\ path[f] # 0
    /\ LET i == path[f]
           old == inode[i].bytes
           new == IF k > Len(old) THEN Append(old, b) ELSE [old EXCEPT ![k] = b]
       IN  /\ k \in 1..(Len(old) + 1)
           /\ inode' = [inode EXCEPT ![i] = [bytes |-> new, mtime |-> @.mtime + 1]]
           /\ held' = IF reading.ino = i THEN held \cup {new} ELSE held
    /\ UNCHANGED <<path, extra, ambiguous, step, reading, got, budget, remaining, spent, outcome>>

(* Another file is renamed to the place of f. *)
ReplaceFile(f, bytes) ==
    /\ CanEdit
    /\ path' = [path EXCEPT ![f] = 7 + edits']
    /\ inode' = [inode EXCEPT ![7 + edits'] = [bytes |-> bytes, mtime |-> 0]]
    /\ UNCHANGED <<extra, ambiguous, loadVars>>

RemoveFile(f) ==
    /\ CanEdit /\ path[f] # 0
    /\ path' = [path EXCEPT ![f] = 0]
    /\ UNCHANGED <<inode, extra, ambiguous, loadVars>>

(* The files whose state the current step of the load can see.  An edit of    *)
(* another file shows only in a later step, and is made there.                *)
Visible ==
    CASE step = Listing -> {"manifest", "plan", "trace", "receipt"}
      [] step = 9 -> {"root", "dep"}
      [] OTHER -> {Reads[step]}

Edit == \E f \in Visible :
    \/ \E k \in 1..(FileBytes + 2), b \in Publications : WriteByte(f, k, b)
    \/ \E bytes \in Forms(f) : ReplaceFile(f, bytes)
    \/ RemoveFile(f)

-----------------------------------------------------------------------------
(* One bounded read: read() of load, readWorkflowFile() of the preflight. *)

File == Reads[step]
InPreflight == step \in Preflight
Phase == IF InPreflight THEN "preflight" ELSE "load"

Refuse ==
    /\ outcome' = "refused"
    /\ UNCHANGED <<step, reading, got, budget, remaining, spent, held>>

(* lstat: a file too large is refused; the preflight also refuses one that    *)
(* its budget does not cover.                                                 *)
Lstat ==
    /\ reading.at = "lstat"
    /\ \/ path[File] = 0 /\ Refuse
       \/ /\ path[File] # 0
          /\ LET i == path[File]
                 size == Len(inode[i].bytes)
             IN  \/ size > FileBytes /\ Refuse
                 \/ size <= FileBytes /\ InPreflight /\ size > remaining /\ Refuse
                 \/ /\ size <= FileBytes /\ (InPreflight => size <= remaining)
                    /\ reading' = [reading EXCEPT !.at = "open", !.ino = i, !.size = size]
                    /\ UNCHANGED <<step, got, budget, remaining, spent, held, outcome>>

(* open and stat: it must still be the same file, in the preflight also of    *)
(* the same size.                                                             *)
Open ==
    /\ reading.at = "open"
    /\ LET i == path[File]
           same == i = reading.ino /\ (InPreflight => Len(inode[i].bytes) = reading.size)
       IN  \/ (i = 0 \/ ~same) /\ Refuse
           \/ /\ i # 0 /\ same
              /\ reading' = [reading EXCEPT !.at = "read", !.mtime = inode[i].mtime]
              /\ held' = {inode[i].bytes}
              /\ UNCHANGED <<step, got, budget, remaining, spent, outcome>>

(* Variant with a bug: the file is read to its end. *)
ReadBytes_ToTheEnd(n) ==
    /\ reading.at = "read"
    /\ LET left == SubSeq(inode[reading.ino].bytes, Len(reading.bytes) + 1,
                          Len(inode[reading.ino].bytes))
       IN  \/ /\ n \in 1..Len(left)
              /\ reading' = [reading EXCEPT !.bytes = @ \o SubSeq(left, 1, n)]
              /\ spent' = [spent EXCEPT ![Phase] = @ + n]
           \/ /\ left = <<>>
              /\ reading' = [reading EXCEPT !.at = "after"]
              /\ UNCHANGED spent
    /\ UNCHANGED <<step, got, budget, remaining, held, outcome>>

(* handle.read: some of the bytes that are left, into a buffer one byte       *)
(* larger than the size that was admitted.                                    *)
ReadBytes(n) ==
    /\ reading.at = "read"
    /\ LET room == reading.size + 1 - Len(reading.bytes)
           left == SubSeq(inode[reading.ino].bytes, Len(reading.bytes) + 1,
                          Len(inode[reading.ino].bytes))
       IN  \/ /\ room > 0 /\ n \in 1..Min({room, Len(left)})
              /\ reading' = [reading EXCEPT !.bytes = @ \o SubSeq(left, 1, n)]
              /\ spent' = [spent EXCEPT ![Phase] = @ + n]
           \/ /\ room = 0 \/ left = <<>>
              /\ reading' = [reading EXCEPT !.at = "after"]
              /\ UNCHANGED spent
    /\ UNCHANGED <<step, got, budget, remaining, held, outcome>>

(* Variant with a bug: only the size is compared after the reading. *)
Unchanged_SameSize ==
    /\ Len(reading.bytes) = reading.size
    /\ Len(inode[reading.ino].bytes) = reading.size

(* The second stat of the handle. *)
Unchanged ==
    /\ Len(reading.bytes) = reading.size
    /\ Len(inode[reading.ino].bytes) = reading.size
    /\ inode[reading.ino].mtime = reading.mtime

-----------------------------------------------------------------------------
(* What load and the preflight ask of the bytes. *)

(* The publication of the manifest that was read. *)
Claimed == CHOOSE p \in Publications : got[1] = Published(p, "manifest")

(* Variant with a bug: the lock need not name this manifest. *)
Bound_AnyManifest(bytes) == bytes = Published(Trusted, "lock")

(* The lock is a publication's, it is the one the model handle's provenance   *)
(* digest names, and its workflow names the manifest that was read.           *)
Bound(bytes) ==
    /\ bytes = Published(Trusted, "lock")
    /\ Claimed = Trusted

(* The closure is compared when both sources are read, the root again with    *)
(* the model digest.                                                          *)
ClosureMatches(dep) ==
    /\ normalized(got[9]) = Published(Trusted, "root")
    /\ normalized(dep) = Published(Trusted, "dep")

(* The check that follows read k. *)
Judge(k, bytes) ==
    CASE k = 1 -> \E p \in Publications : bytes = Published(p, "manifest")
      [] k = 2 -> Bound(bytes)
      [] k \in {3, 4} -> normalized(bytes) = Published(Claimed, Reads[k])
      [] k \in 5..7 -> bytes = Published(Claimed, Reads[k])
      [] k = 9 -> TRUE
      [] k = 10 -> ClosureMatches(bytes)
      [] k = 11 -> bytes = Published(Claimed, "trace")
      [] k = 12 -> bytes = got[1]

(* specFromFiles: the module the root extends must be found, and found once,  *)
(* before it is visited.                                                      *)
Located == step = 9 => path["dep"] # 0 /\ ~ambiguous

(* After the read the budgets are charged, load refusing what it does not     *)
(* cover, and the bytes are judged.                                           *)
Finish ==
    /\ reading.at = "after"
    /\ LET bytes == reading.bytes
           covered == InPreflight \/ Len(bytes) <= budget
           good == Unchanged /\ covered /\ Located /\ Judge(step, bytes)
       IN  \/ ~good /\ Refuse
           \/ /\ good
              /\ got' = [got EXCEPT ![step] = bytes]
              /\ budget' = IF InPreflight THEN budget ELSE budget - Len(bytes)
              /\ remaining' = IF InPreflight THEN remaining - Len(bytes) ELSE remaining
              /\ reading' = Resting
              /\ held' = {}
              /\ \/ step < Len(Reads) /\ step' = step + 1 /\ UNCHANGED outcome
                 \/ step = Len(Reads) /\ outcome' = "admitted" /\ UNCHANGED step
              /\ UNCHANGED spent

(* readdir: the corpus directory holds the named files and no other. *)
ListMembers ==
    /\ \/ extra /\ Refuse
       \/ \E f \in {"manifest", "plan", "trace", "receipt"} : path[f] = 0 /\ Refuse
       \/ /\ ~extra /\ \A f \in {"manifest", "plan", "trace", "receipt"} : path[f] # 0
          /\ step' = step + 1
          /\ UNCHANGED <<reading, got, budget, remaining, spent, held, outcome>>

Load ==
    /\ outcome = "running"
    /\ \/ step = Listing /\ ListMembers
       \/ step # Listing /\ (Lstat \/ Open \/ (\E n \in 1..(FileBytes + 1) : ReadBytes(n)) \/ Finish)
    /\ UNCHANGED diskVars

CorpusNext == Load \/ Edit

-----------------------------------------------------------------------------
(* What is admitted is, in every file, the publication the trusted model      *)
(* handle names, although load compares with the handle only the lock and the *)
(* sources, and files are replaced between two reads of the same name.        *)
AdmittedIsReviewed ==
    outcome = "admitted" =>
        \A k \in (1..Len(Reads)) \ {Listing} :
            LET bytes == IF Reads[k] \in Sources THEN normalized(got[k]) ELSE got[k]
            IN  bytes = Published(Trusted, Reads[k])

(* A read returns what the file held at one moment between its opening and    *)
(* its second stat: no mixture of two versions is hashed.                     *)
ReadsAreSnapshots ==
    reading.at = "after" /\ Unchanged => reading.bytes \in held

(* "Read at most the admitted size plus one; a growing file cannot bypass     *)
(* bounds" (projected-corpus.ts): load takes at most one file more than its   *)
(* aggregate, which it charges after the read; the preflight asks before and  *)
(* takes at most one byte more.                                               *)
ReadsAreBounded ==
    /\ spent.load <= AggregateBytes + FileBytes + 1
    /\ spent.preflight <= WorkflowBytes + 1
    /\ reading.at # "lstat" => Len(reading.bytes) <= FileBytes + 1

(* The admission of a corpus is sound while its files change: what it admits  *)
(* is the reviewed publication, what it hashes a file once held, and what it  *)
(* reads is bounded.                                                          *)
AdmissionIsSound == AdmittedIsReviewed /\ ReadsAreSnapshots /\ ReadsAreBounded
=============================================================================
