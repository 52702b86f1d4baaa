---------------------------- MODULE BundleExtract ----------------------------
(***************************************************************************)
(* Extraction of the binaries that are embedded in locksmith               *)
(* (internal/bundled): `init`, `plugins update` and `config pinentry` each *)
(* compare the installed files with the bundle's manifest, ask what to do  *)
(* with files that differ, write the entry to <dest>.tmp, compare its hash *)
(* and rename it.  Processes that extract at the same time share the       *)
(* temporary file.                                                         *)
(*                                                                         *)
(* Files are inodes: a descriptor that was opened before a rename writes   *)
(* to the installed file.  A file's content is the set of the bundle's     *)
(* chunks it has at their place.                                           *)
(***************************************************************************)
EXTENDS Naturals, Sequences

CONSTANTS
    Procs,    \* processes
    Entries,  \* files to install: the pinentry and the plugins
    Pinentry, \* the first of the entries of every extraction
    InBundle, \* entries of the manifest
    Corrupt,  \* entries whose content is not what the manifest says
    Chunks    \* entries are written in so many pieces

ASSUME BundleAssumption ==
    /\ Pinentry \in Entries
    /\ Corrupt \subseteq InBundle /\ InBundle \subseteq Entries
    /\ Chunks \in Nat \ {0}

VARIABLES
    dest,     \* what is installed
    tmp,      \* the temporary file of each entry
    content,  \* of the inodes each process made
    names,    \* entries a process has yet to extract
    step,     \* where it is with the first of them
    offset,   \* chunks written
    sticky,   \* the answer that holds for all the rest
    forceOverwrite,
    prompts   \* there is somebody to ask

(* Histories.                                                              *)
VARIABLES
    open,     \* the inode that each process writes to
    clash,    \* entries whose temporary file two processes had open at once
    agreed    \* who was told to overwrite what

bundleVars == <<dest, tmp, content, names, step, offset, sticky,
                forceOverwrite, prompts, open, clash, agreed>>

None    == "none"     \* no file, or nothing
Other   == "other"    \* a file of another version, or the user's own
Current == "current"  \* a file with the bundle's content

(* A file that is none of these is named by the process that made it.      *)
ASSUME FileAssumption == Procs \cap {None, Other, Current} = {}

Steps == {"idle", "check", "ask", "write", "verify", "rename", "done", "error"}

BundleTypeOK ==
    /\ dest \in [Entries -> Procs \cup {None, Other, Current}]
    /\ tmp \in [Entries -> Procs \cup {None}]
    /\ content \in [Procs \X Entries -> SUBSET (1 .. Chunks)]
    /\ names \in [Procs -> Seq(Entries)]
    /\ step \in [Procs -> Steps]
    /\ offset \in [Procs -> 0 .. Chunks]
    /\ sticky \in [Procs -> {None, "overwriteAll", "keepAll"}]
    /\ forceOverwrite \in [Procs -> BOOLEAN]
    /\ prompts \in [Procs -> BOOLEAN]
    /\ open \in [Procs -> Procs \cup {None}]
    /\ clash \subseteq Entries
    /\ agreed \subseteq Procs \X Entries
    /\ \A p \in Procs : step[p] \in {"check", "ask", "write", "verify", "rename"}
                            => names[p] # <<>>

BundleInit ==
    /\ dest \in [Entries -> {None, Other, Current}]
    /\ tmp = [e \in Entries |-> None]
    /\ content = [f \in Procs \X Entries |-> {}]
    /\ names = [p \in Procs |-> <<>>]
    /\ step = [p \in Procs |-> "idle"]
    /\ offset = [p \in Procs |-> 0]
    /\ sticky = [p \in Procs |-> None]
    /\ forceOverwrite \in [Procs -> BOOLEAN]
    /\ prompts \in [Procs -> BOOLEAN]
    /\ open = [p \in Procs |-> None]
    /\ clash = {}
    /\ agreed = {}

-----------------------------------------------------------------------------
(* An inode is named by the process that made it.                          *)
Whole(e, f) == f = Current \/ (f \in Procs /\ content[<<f, e>>] = 1 .. Chunks)

Entry(p) == Head(names[p])

optVars == <<forceOverwrite, prompts>>

(* The next entry, or the end.                                             *)
Advance(p) ==
    /\ names' = [names EXCEPT ![p] = Tail(@)]
    /\ step' = [step EXCEPT ![p] = IF Len(names[p]) = 1 THEN "done" ELSE "check"]

(* An error ends the command.                                              *)
Quit(p) ==
    /\ names' = [names EXCEPT ![p] = <<>>]
    /\ step' = [step EXCEPT ![p] = "error"]

To(p, place) ==
    /\ step' = [step EXCEPT ![p] = place]
    /\ UNCHANGED names

Extract(p, list) ==
    /\ step[p] = "idle"
    /\ names' = [names EXCEPT ![p] = list]
    /\ step' = [step EXCEPT ![p] = "check"]
    /\ UNCHANGED <<dest, tmp, content, offset, sticky, optVars, open, clash, agreed>>

(* Hash the installed file.  The entry is not in the manifest, or the file *)
(* cannot be read: that ends the command.                                  *)
Check(p) ==
    /\ step[p] = "check"
    /\ LET e == Entry(p) IN
          \/ Quit(p) /\ UNCHANGED agreed
          \/ /\ e \in InBundle /\ Whole(e, dest[e])
             /\ Advance(p)
             /\ UNCHANGED agreed
          \/ /\ e \in InBundle /\ ~Whole(e, dest[e])
             /\ IF dest[e] # None /\ ~forceOverwrite[p]
                   THEN To(p, "ask") /\ UNCHANGED agreed
                   ELSE /\ To(p, "write")
                        /\ agreed' = IF dest[e] = None THEN agreed ELSE agreed \cup {<<p, e>>}
    /\ UNCHANGED <<dest, tmp, content, offset, sticky, optVars, open, clash>>

Answers(p) ==
    IF sticky[p] # None THEN {sticky[p]}
    ELSE IF ~prompts[p] THEN {"keep"}
    ELSE {"overwrite", "keep", "overwriteAll", "keepAll"}

(* Mutant of Keeps: the sticky answer is not looked at.                    *)
KeepsOnce(answer) == answer = "keep"

Keeps(answer) == answer \in {"keep", "keepAll"}

(* resolveConflict.                                                        *)
Resolve(p) ==
    /\ step[p] = "ask"
    /\ \E answer \in Answers(p) :
          /\ sticky' = [sticky EXCEPT ![p] =
                            IF answer \in {"overwriteAll", "keepAll"} THEN answer ELSE @]
          /\ IF Keeps(answer) THEN Advance(p) ELSE To(p, "write")
          /\ agreed' = IF answer \in {"overwrite", "overwriteAll"}
                          THEN agreed \cup {<<p, Entry(p)>>} ELSE agreed
    /\ UNCHANGED <<dest, tmp, content, offset, optVars, open, clash>>

ResolveFails(p) ==
    /\ step[p] = "ask"
    /\ prompts[p] /\ sticky[p] = None
    /\ Quit(p)
    /\ UNCHANGED <<dest, tmp, content, offset, sticky, optVars, open, clash, agreed>>

-----------------------------------------------------------------------------
(* It writes e to the temporary file, or has written it.                   *)
Writing(q, e) ==
    /\ step[q] \in {"write", "verify", "rename"} /\ Entry(q) = e
    /\ step[q] = "write" => open[q] # None

(* writeEntry: the temporary file is made, or emptied.                     *)
OpenTmp(p) ==
    /\ step[p] = "write"
    /\ open[p] = None
    /\ LET e == Entry(p)
           f == IF tmp[e] = None THEN p ELSE tmp[e]
       IN  /\ tmp' = [tmp EXCEPT ![e] = f]
           /\ content' = [content EXCEPT ![<<f, e>>] = {}]
           /\ open' = [open EXCEPT ![p] = f]
           /\ clash' = IF \E q \in Procs : Writing(q, e)
                          THEN clash \cup {e} ELSE clash
    /\ UNCHANGED <<dest, names, step, offset, sticky, optVars, agreed>>

(* The directory, the embedded entry or the temporary file is not opened.  *)
OpenTmpFails(p) ==
    /\ step[p] = "write"
    /\ open[p] = None
    /\ Quit(p)
    /\ UNCHANGED <<dest, tmp, content, offset, sticky, optVars, open, clash, agreed>>

WriteChunk(p) ==
    /\ step[p] = "write"
    /\ open[p] # None
    /\ offset[p] < Chunks
    /\ offset' = [offset EXCEPT ![p] = @ + 1]
    /\ content' = [content EXCEPT ![<<open[p], Entry(p)>>] = @ \cup
                       IF Entry(p) \in Corrupt THEN {} ELSE {offset[p] + 1}]
    /\ UNCHANGED <<dest, tmp, names, step, sticky, optVars, open, clash, agreed>>

CloseTmp(p) ==
    /\ step[p] = "write"
    /\ offset[p] = Chunks
    /\ To(p, "verify")
    /\ offset' = [offset EXCEPT ![p] = 0]
    /\ open' = [open EXCEPT ![p] = None]
    /\ UNCHANGED <<dest, tmp, content, sticky, optVars, clash, agreed>>

(* Mutant of Verify: the hash is not compared.                             *)
VerifyNothing(p) ==
    /\ step[p] = "verify"
    /\ To(p, "rename")
    /\ UNCHANGED <<dest, tmp, content, offset, sticky, optVars, open, clash, agreed>>

(* The hash is of what this process wrote, whatever is in the file.        *)
Verify(p) ==
    /\ step[p] = "verify"
    /\ IF Entry(p) \in Corrupt
          THEN /\ tmp' = [tmp EXCEPT ![Entry(p)] = None]
               /\ Quit(p)
          ELSE To(p, "rename") /\ UNCHANGED tmp
    /\ UNCHANGED <<dest, content, offset, sticky, optVars, open, clash, agreed>>

(* The disk is full: a write fails, or the close that follows the last     *)
(* one.  Whatever is at the temporary path is removed.                     *)
WriteFails(p) ==
    /\ step[p] = "write"
    /\ open[p] # None
    /\ tmp' = [tmp EXCEPT ![Entry(p)] = None]
    /\ open' = [open EXCEPT ![p] = None]
    /\ offset' = [offset EXCEPT ![p] = 0]
    /\ Quit(p)
    /\ UNCHANGED <<dest, content, sticky, optVars, clash, agreed>>

Rename(p) ==
    /\ step[p] = "rename"
    /\ tmp[Entry(p)] # None
    /\ dest' = [dest EXCEPT ![Entry(p)] = tmp[Entry(p)]]
    /\ tmp' = [tmp EXCEPT ![Entry(p)] = None]
    /\ Advance(p)
    /\ UNCHANGED <<content, offset, sticky, optVars, open, clash, agreed>>

(* Another process has renamed the temporary file or removed it, or there  *)
(* is another error; it is not removed then.                               *)
RenameFails(p) ==
    /\ step[p] = "rename"
    /\ Quit(p)
    /\ UNCHANGED <<dest, tmp, content, offset, sticky, optVars, open, clash, agreed>>

ExtractStep(p) ==
    \/ Check(p) \/ Resolve(p) \/ ResolveFails(p)
    \/ OpenTmp(p) \/ OpenTmpFails(p) \/ WriteChunk(p) \/ WriteFails(p)
    \/ CloseTmp(p) \/ Verify(p)
    \/ Rename(p) \/ RenameFails(p)

ExtractCrash(p) ==
    /\ Quit(p)
    /\ open' = [open EXCEPT ![p] = None]
    /\ offset' = [offset EXCEPT ![p] = 0]
    /\ UNCHANGED <<dest, tmp, content, sticky, optVars, clash, agreed>>

-----------------------------------------------------------------------------
(* What was installed is whole at any time, whatever crashed or failed on  *)
(* the way, and a corrupt entry never is: unless two processes wrote to    *)
(* one temporary file.                                                     *)
InstalledWhole ==
    \A e \in Entries : dest[e] \in Procs /\ e \notin clash => Whole(e, dest[e])

(* A file that is not the bundle's is replaced only if a user said so, to  *)
(* a question or with --force.                                             *)
OverwrittenOnlyIfAgreed ==
    [][\A e \in Entries :
          dest[e] = Other /\ dest'[e] # Other =>
              \E p \in Procs : <<p, e>> \in agreed]_dest
=============================================================================
