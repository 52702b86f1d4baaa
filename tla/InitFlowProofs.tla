--------------------------- MODULE InitFlowProofs ---------------------------
(***************************************************************************)
(* What InitFlow's commands leave behind, for any number of processes that *)
(* run them, fail or crash: the installed binaries are whole, the user's   *)
(* data is kept, only what the user agreed to give up is replaced, and an  *)
(* init that ends well has done what it was asked.                         *)
(***************************************************************************)
EXTENDS InitFlow, TLAPS

-----------------------------------------------------------------------------
(* The extraction.                                                         *)

(* It is about to make or to empty the temporary file of e.                *)
WillOpen(p, e) == step[p] \in {"ask", "write"} /\ open[p] = None /\ Entry(p) = e

(* A descriptor is open only while an entry is written.                    *)
OpenInv ==
    \A p \in Procs :
        /\ open[p] # None => step[p] = "write"
        /\ offset[p] > 0 => open[p] # None
        /\ step[p] = "rename" => Entry(p) \notin Corrupt

(* What the one process that writes e has written so far.                  *)
WriterInv(e) ==
    /\ \A p, q \in Procs : Writing(p, e) /\ Writing(q, e) => p = q
    /\ \A p \in Procs : Writing(p, e) =>
          /\ tmp[e] # None
          /\ step[p] = "write" => open[p] = tmp[e]
          /\ e \notin Corrupt =>
                content[<<tmp[e], e>>] =
                    1 .. (IF step[p] = "write" THEN offset[p] ELSE Chunks)

(* The temporary file is not the installed one, and its maker writes to it *)
(* or is gone; who made the installed file does not make it again.         *)
InodeInv(e) ==
    /\ tmp[e] # None => /\ dest[e] # tmp[e]
                        /\ step[tmp[e]] = "error" \/ Writing(tmp[e], e)
    /\ dest[e] \in Procs => Whole(e, dest[e]) /\ ~WillOpen(dest[e], e)

TmpInv == \A e \in Entries \ clash : WriterInv(e) /\ InodeInv(e)

(* A file that is being replaced is the bundle's, or its owner has agreed. *)
AgreedInv ==
    \A p \in Procs :
        step[p] \in {"write", "verify", "rename"} /\ dest[Entry(p)] = Other =>
            <<p, Entry(p)>> \in agreed

BundleInv == BundleTypeOK /\ OpenInv /\ TmpInv /\ AgreedInv

-----------------------------------------------------------------------------
(* The stages.                                                             *)

StageSet == {"config", "gpg", "claudeMd", "allow", "hook", "agentsMd", "policy", "rc"}
FlowSet  == {"idle", "select", "consent", "extract"} \cup Ended \cup StageSet

(* The types of what is not the extraction's.                              *)
FlowTypeOK ==
    /\ home \in Homes
    /\ want \in [Procs -> Wants]
    /\ flow \in [Procs -> FlowSet]
    /\ sub \in [Procs -> {"read", "trunc", "write", "append"}]
    /\ kept \in [Procs -> BOOLEAN]
    /\ shellHookPresent \in [Procs -> BOOLEAN]
    /\ claudeHookPresent \in [Procs -> BOOLEAN]
    /\ snap \in [Procs -> Settings \cup GpgConf]
    /\ config \in {"none", "empty", "invalid", "user", "ours"}
    /\ settings \in Settings
    /\ gpgConf \in GpgConf
    /\ sections \in [Sections -> Nat]
    /\ overlap \in BOOLEAN
    /\ torn \subseteq {"config", "settings", "gpgConf"}

(* What a process has read is of the file that it rewrites.                *)
HasRead(p) ==
    /\ sub[p] = "append" => flow[p] \in Sections
    /\ sub[p] = "trunc" => flow[p] \in {"gpg", "allow", "hook"}
    /\ sub[p] = "write" => flow[p] \in {"config", "gpg", "allow", "hook"}
    /\ sub[p] \in {"trunc", "write"} =>
          /\ flow[p] = "gpg" => snap[p] \in GpgConf /\ dest[Pinentry] # None
          /\ flow[p] \in {"allow", "hook"} => snap[p] \in Settings

StageInv == \A p \in Procs : HasRead(p)

AloneInv == ~overlap => \A p, q \in Procs : Active(p) /\ Active(q) => p = q

(* What the user had is in the file, or with the one who rewrites it.      *)
InSettings(p) == flow[p] \in {"allow", "hook"}

SettingsInv ==
    ~overlap /\ home.settings.json /\ home.settings.user /\ "settings" \notin torn =>
        /\ \/ settings.json /\ settings.user
           \/ \E p \in Procs : InSettings(p) /\ sub[p] = "write"
        /\ \A p \in Procs :
              InSettings(p) /\ sub[p] \in {"trunc", "write"} => snap[p].user

GpgInv ==
    ~overlap /\ home.gpgConf.user # "none" /\ "gpgConf" \notin torn =>
        /\ \/ gpgConf.user # "none"
           \/ \E p \in Procs : flow[p] = "gpg" /\ sub[p] = "write"
        /\ \A p \in Procs :
              flow[p] = "gpg" /\ sub[p] \in {"trunc", "write"} =>
                  snap[p].user # "none"

(* Who is about to append has found nothing, or, for the shell's file, had *)
(* found nothing when it asked.                                            *)
SectionInv ==
    ~overlap =>
        /\ \A f \in Sections : sections[f] <= 1
        /\ \A p \in Procs :
              /\ sub[p] = "append" => sections[flow[p]] = 0
              /\ /\ Active(p) /\ flow[p] \notin {"select", "consent"}
                 /\ want[p].kind \in {"auto", "init"} /\ ~shellHookPresent[p]
                 => sections["rc"] = 0

(* Who is going to replace the user's configuration was told to.           *)
WasTold(p) ==
    Active(p) /\ want[p].kind \in {"auto", "init"} /\ ~kept[p] =>
        want[p].kind = "init" /\ want[p].action = "overwrite"

ConfigInv == config = "user" => \A p \in Procs : WasTold(p)

StagesInv ==
    /\ FlowTypeOK /\ GpgHasPinentry /\ StageInv /\ AloneInv
    /\ SettingsInv /\ GpgInv /\ SectionInv /\ ConfigInv

IInv == BundleInv /\ StagesInv

-----------------------------------------------------------------------------
(* No step of the extraction touches another process.                      *)
Only(p) ==
    \A q \in Procs \ {p} : /\ step'[q] = step[q] /\ names'[q] = names[q]
                           /\ offset'[q] = offset[q] /\ open'[q] = open[q]

LEMMA EntryType ==
    ASSUME BundleTypeOK, NEW p \in Procs,
           step[p] \in {"check", "ask", "write", "verify", "rename"}
    PROVE  names[p] \in Seq(Entries) /\ names[p] # <<>> /\ Entry(p) \in Entries
<1>1. names[p] \in Seq(Entries) /\ names[p] # <<>>
  BY DEF BundleTypeOK
<1>2. QED
  BY <1>1 DEF Entry

LEMMA AdvanceFacts ==
    ASSUME BundleTypeOK, NEW p \in Procs, names[p] # <<>>, Advance(p)
    PROVE  /\ names' \in [Procs -> Seq(Entries)] /\ step' \in [Procs -> Steps]
           /\ step'[p] \in {"done", "check"}
           /\ step'[p] = "check" => names'[p] # <<>>
           /\ \A q \in Procs \ {p} : step'[q] = step[q] /\ names'[q] = names[q]
<1>1. names[p] \in Seq(Entries)
  BY DEF BundleTypeOK
<1>2. Tail(names[p]) \in Seq(Entries) /\ Len(Tail(names[p])) = Len(names[p]) - 1
      /\ Len(names[p]) \in Nat \ {0}
  BY <1>1
<1>3. names' \in [Procs -> Seq(Entries)] /\ names'[p] = Tail(names[p])
  BY <1>2 DEF Advance, BundleTypeOK
<1>4. step' \in [Procs -> Steps]
      /\ step'[p] = IF Len(names[p]) = 1 THEN "done" ELSE "check"
  BY DEF Advance, BundleTypeOK, Steps
<1>5. step'[p] = "check" => Len(names'[p]) # 0
  BY <1>2, <1>3, <1>4
<1>6. step'[p] = "check" => names'[p] # <<>>
  BY <1>5
<1>7. QED
  BY <1>3, <1>4, <1>6 DEF Advance, BundleTypeOK

LEMMA QuitFacts ==
    ASSUME BundleTypeOK, NEW p \in Procs, Quit(p)
    PROVE  /\ names' \in [Procs -> Seq(Entries)] /\ step' \in [Procs -> Steps]
           /\ step'[p] = "error"
           /\ \A q \in Procs \ {p} : step'[q] = step[q] /\ names'[q] = names[q]
<1>1. <<>> \in Seq(Entries)
  OBVIOUS
<1>2. QED
  BY <1>1 DEF Quit, BundleTypeOK, Steps

LEMMA ToFacts ==
    ASSUME BundleTypeOK, NEW p \in Procs, NEW place \in Steps, To(p, place)
    PROVE  /\ names' = names /\ step' \in [Procs -> Steps]
           /\ step'[p] = place /\ Entry(p)' = Entry(p)
           /\ \A q \in Procs \ {p} : step'[q] = step[q]
BY DEF To, BundleTypeOK, Entry

(* The types follow from what a step does to the processes' places.        *)
LEMMA BundleTypeStep ==
    ASSUME BundleTypeOK, NEW p \in Procs, ExtractStep(p)
    PROVE  BundleTypeOK' /\ Only(p)
<1> USE DEF optVars
<1>1. CASE Check(p)
  <2>1. /\ step[p] = "check" /\ Entry(p) \in Entries /\ names[p] # <<>>
        /\ UNCHANGED <<dest, tmp, content, offset, sticky, forceOverwrite, prompts,
                       open, clash>>
    BY <1>1, EntryType DEF Check
  <2>2. agreed' \subseteq Procs \X Entries
    BY <1>1, <2>1 DEF Check, BundleTypeOK
  <2>3. Quit(p) \/ Advance(p) \/ To(p, "ask") \/ To(p, "write")
    BY <1>1 DEF Check
  <2>4. /\ names' \in [Procs -> Seq(Entries)] /\ step' \in [Procs -> Steps]
        /\ \A q \in Procs \ {p} : step'[q] = step[q] /\ names'[q] = names[q]
        /\ step'[p] \in {"check", "ask", "write", "verify", "rename"} => names'[p] # <<>>
    <3>1. CASE Quit(p)
      BY <3>1, QuitFacts
    <3>2. CASE Advance(p)
      BY <2>1, <3>2, AdvanceFacts
    <3>3. CASE To(p, "ask") \/ To(p, "write")
      <4>1. PICK place \in {"ask", "write"} : To(p, place)
        BY <3>3
      <4>2. names' = names /\ names \in [Procs -> Seq(Entries)]
        BY <4>1, ToFacts DEF BundleTypeOK, Steps
      <4>3. QED
        BY <2>1, <4>1, <4>2, ToFacts DEF Steps
    <3>4. QED
      BY <2>3, <3>1, <3>2, <3>3
  <2>5. QED
    BY <2>1, <2>2, <2>4 DEF BundleTypeOK, Only
<1>2. CASE Resolve(p) \/ ResolveFails(p)
  <2>1. /\ step[p] = "ask" /\ Entry(p) \in Entries /\ names[p] # <<>>
        /\ UNCHANGED <<dest, tmp, content, offset, forceOverwrite, prompts, open, clash>>
    BY <1>2, EntryType DEF Resolve, ResolveFails
  <2>2. agreed' \subseteq Procs \X Entries
    BY <1>2, <2>1 DEF Resolve, ResolveFails, BundleTypeOK
  <2>3. sticky' \in [Procs -> {None, "overwriteAll", "keepAll"}]
    BY <1>2 DEF Resolve, ResolveFails, BundleTypeOK
  <2>4. Quit(p) \/ Advance(p) \/ To(p, "write")
    BY <1>2 DEF Resolve, ResolveFails
  <2>5. QED
    BY <2>1, <2>2, <2>3, <2>4, QuitFacts, AdvanceFacts, ToFacts
       DEF BundleTypeOK, Only, Steps
<1>3. CASE OpenTmp(p)
  <2> DEFINE e == Entry(p)
             f == IF tmp[e] = None THEN p ELSE tmp[e]
  <2>1. step[p] = "write" /\ e \in Entries
    BY <1>3, EntryType DEF OpenTmp
  <2>2. f \in Procs
    BY <2>1 DEF BundleTypeOK
  <2>3. /\ tmp' = [tmp EXCEPT ![e] = f]
        /\ content' = [content EXCEPT ![<<f, e>>] = {}]
        /\ open' = [open EXCEPT ![p] = f]
        /\ UNCHANGED <<dest, names, step, offset, sticky, forceOverwrite, prompts, agreed>>
    BY <1>3 DEF OpenTmp
  <2>4. /\ tmp' \in [Entries -> Procs \cup {None}]
        /\ open' \in [Procs -> Procs \cup {None}]
    BY <2>1, <2>2, <2>3 DEF BundleTypeOK
  <2>5. content' \in [Procs \X Entries -> SUBSET (1 .. Chunks)]
    BY <2>1, <2>2, <2>3 DEF BundleTypeOK
  <2>6. clash' \subseteq Entries
    BY <1>3, <2>1 DEF OpenTmp, BundleTypeOK
  <2>7. Only(p)
    BY <2>3 DEF Only, BundleTypeOK
  <2>8. QED
    BY <2>3, <2>4, <2>5, <2>6, <2>7 DEF BundleTypeOK
<1>4. CASE WriteChunk(p)
  <2>1. /\ step[p] = "write" /\ Entry(p) \in Entries /\ open[p] \in Procs
        /\ offset[p] \in 0 .. Chunks - 1 /\ Chunks \in Nat
    BY <1>4, EntryType, BundleAssumption DEF WriteChunk, BundleTypeOK
  <2>2. offset' \in [Procs -> 0 .. Chunks] /\ offset[p] + 1 \in 1 .. Chunks
    BY <1>4, <2>1 DEF WriteChunk, BundleTypeOK
  <2>3. content' \in [Procs \X Entries -> SUBSET (1 .. Chunks)]
    <3> DEFINE new == content[<<open[p], Entry(p)>>] \cup
                         IF Entry(p) \in Corrupt THEN {} ELSE {offset[p] + 1}
    <3>1. <<open[p], Entry(p)>> \in Procs \X Entries
      BY <2>1
    <3>2. new \in SUBSET (1 .. Chunks)
      BY <2>2, <3>1 DEF BundleTypeOK
    <3>3. content' = [content EXCEPT ![<<open[p], Entry(p)>>] = new]
      BY <1>4 DEF WriteChunk
    <3> HIDE DEF new
    <3>4. QED
      BY <3>1, <3>2, <3>3 DEF BundleTypeOK
  <2>4. UNCHANGED <<dest, tmp, names, step, sticky, forceOverwrite, prompts, open,
                    clash, agreed>>
    BY <1>4 DEF WriteChunk
  <2>5. Only(p)
    BY <1>4, <2>4 DEF WriteChunk, Only, BundleTypeOK
  <2>6. QED
    BY <2>2, <2>3, <2>4, <2>5 DEF BundleTypeOK
<1>5. CASE CloseTmp(p)
  <2>1. /\ step[p] = "write" /\ names[p] # <<>> /\ Chunks \in Nat
    BY <1>5, EntryType, BundleAssumption DEF CloseTmp
  <2>2. offset' \in [Procs -> 0 .. Chunks] /\ open' \in [Procs -> Procs \cup {None}]
    BY <1>5, <2>1 DEF CloseTmp, BundleTypeOK
  <2>3. UNCHANGED <<dest, tmp, content, sticky, forceOverwrite, prompts, clash, agreed>>
        /\ To(p, "verify") /\ "verify" \in Steps
    BY <1>5 DEF CloseTmp, Steps
  <2>4. Only(p)
    BY <1>5, <2>3, ToFacts DEF CloseTmp, Only, BundleTypeOK
  <2>5. QED
    BY <2>1, <2>2, <2>3, <2>4, ToFacts DEF BundleTypeOK
<1>6. CASE Verify(p)
  <2>1. /\ step[p] = "verify" /\ names[p] # <<>> /\ Entry(p) \in Entries
    BY <1>6, EntryType DEF Verify
  <2>2. /\ UNCHANGED <<dest, content, offset, sticky, forceOverwrite, prompts, open,
                       clash, agreed>>
        /\ Quit(p) \/ To(p, "rename")
        /\ "rename" \in Steps
        /\ tmp' \in [Entries -> Procs \cup {None}]
    BY <1>6, <2>1 DEF Verify, Steps, BundleTypeOK
  <2>3. QED
    BY <2>1, <2>2, QuitFacts, ToFacts DEF BundleTypeOK, Only
<1>7. CASE WriteFails(p)
  <2>1. /\ step[p] = "write" /\ Entry(p) \in Entries /\ Chunks \in Nat
    BY <1>7, EntryType, BundleAssumption DEF WriteFails
  <2>2. /\ UNCHANGED <<dest, content, sticky, forceOverwrite, prompts, clash, agreed>>
        /\ Quit(p)
        /\ tmp' \in [Entries -> Procs \cup {None}]
        /\ open' \in [Procs -> Procs \cup {None}]
        /\ offset' \in [Procs -> 0 .. Chunks]
    BY <1>7, <2>1 DEF WriteFails, BundleTypeOK
  <2>3. Only(p)
    BY <1>7, <2>2, QuitFacts DEF WriteFails, Only, BundleTypeOK
  <2>4. QED
    BY <2>2, <2>3, QuitFacts DEF BundleTypeOK, Only
<1>8. CASE Rename(p)
  <2>1. /\ step[p] = "rename" /\ Entry(p) \in Entries /\ names[p] # <<>>
    BY <1>8, EntryType DEF Rename
  <2>2. /\ UNCHANGED <<content, offset, sticky, forceOverwrite, prompts, open, clash,
                       agreed>>
        /\ Advance(p)
        /\ tmp' \in [Entries -> Procs \cup {None}]
        /\ dest' \in [Entries -> Procs \cup {None, Other, Current}]
    BY <1>8, <2>1 DEF Rename, BundleTypeOK
  <2>3. QED
    BY <2>1, <2>2, AdvanceFacts DEF BundleTypeOK, Only
<1>9. CASE OpenTmpFails(p) \/ RenameFails(p)
  BY <1>9, QuitFacts DEF OpenTmpFails, RenameFails, BundleTypeOK, Only
<1>10. QED
  BY <1>1, <1>2, <1>3, <1>4, <1>5, <1>6, <1>7, <1>8, <1>9 DEF ExtractStep

(* Where a step leads, and what it may change of the files.                *)
LEMMA OpenStep ==
    ASSUME BundleTypeOK, OpenInv, NEW p \in Procs, ExtractStep(p)
    PROVE  OpenInv'
<1>1. BundleTypeOK' /\ Only(p)
  BY BundleTypeStep
<1>2. \A q \in Procs \ {p} : /\ open'[q] # None => step'[q] = "write"
                             /\ offset'[q] > 0 => open'[q] # None
                             /\ step'[q] = "rename" => Entry(q)' \notin Corrupt
  BY <1>1 DEF Only, OpenInv, Entry
<1>3. /\ open'[p] # None => step'[p] = "write"
      /\ offset'[p] > 0 => open'[p] # None
      /\ step'[p] = "rename" => Entry(p)' \notin Corrupt
  <2>1. CASE Check(p) \/ Resolve(p) \/ ResolveFails(p) \/ RenameFails(p) \/ Rename(p)
    <3>1. /\ step[p] # "write" /\ UNCHANGED <<open, offset>>
          /\ Quit(p) \/ Advance(p) \/ To(p, "ask") \/ To(p, "write")
          /\ step[p] \in {"check", "ask", "rename"}
      BY <2>1 DEF Check, Resolve, ResolveFails, RenameFails, Rename
    <3>2. step'[p] # "rename"
      BY <3>1, EntryType, QuitFacts, AdvanceFacts, ToFacts DEF Steps
    <3>3. QED
      BY <3>1, <3>2 DEF OpenInv
  <2>2. CASE OpenTmp(p)
    <3> DEFINE f == IF tmp[Entry(p)] = None THEN p ELSE tmp[Entry(p)]
    <3>1. step[p] = "write" /\ Entry(p) \in Entries
      BY <2>2, EntryType DEF OpenTmp
    <3>2. f \in Procs /\ f # None
      BY <3>1, FileAssumption DEF BundleTypeOK
    <3>3. open'[p] = f /\ step' = step
      BY <2>2, <3>2 DEF OpenTmp, BundleTypeOK
    <3>4. QED
      BY <3>1, <3>2, <3>3
  <2>3. CASE WriteChunk(p)
    BY <2>3 DEF WriteChunk
  <2>4. CASE CloseTmp(p)
    <3>1. open'[p] = None /\ offset'[p] = 0
      BY <2>4 DEF CloseTmp, BundleTypeOK
    <3>2. step'[p] = "verify"
      BY <2>4, ToFacts DEF CloseTmp, Steps
    <3>3. QED
      BY <3>1, <3>2
  <2>5. CASE Verify(p)
    <3>1. step[p] = "verify" /\ UNCHANGED <<open, offset>>
          /\ (Quit(p) \/ (To(p, "rename") /\ Entry(p) \notin Corrupt))
      BY <2>5 DEF Verify
    <3>2. step'[p] = "rename" => Entry(p)' \notin Corrupt
      BY <3>1, QuitFacts, ToFacts DEF Steps
    <3>3. QED
      BY <3>1, <3>2 DEF OpenInv
  <2>6. CASE WriteFails(p)
    <3>1. open'[p] = None /\ offset'[p] = 0 /\ Quit(p)
      BY <2>6 DEF WriteFails, BundleTypeOK
    <3>2. QED
      BY <3>1, QuitFacts
  <2>7. CASE OpenTmpFails(p)
    <3>1. UNCHANGED <<open, offset>> /\ open[p] = None /\ step'[p] = "error"
      BY <2>7, QuitFacts DEF OpenTmpFails
    <3>2. QED
      BY <3>1 DEF OpenInv
  <2>8. QED
    BY <2>1, <2>2, <2>3, <2>4, <2>5, <2>6, <2>7 DEF ExtractStep
<1>4. QED
  BY <1>2, <1>3 DEF OpenInv

(* What is installed is not removed, and only a rename replaces it.        *)
LEMMA FilesStay ==
    ASSUME BundleTypeOK, NEW p \in Procs, ExtractStep(p)
    PROVE  \A e \in Entries : dest'[e] = dest[e] \/ (dest'[e] \in Procs /\ Rename(p)
                                                     /\ e = Entry(p))
<1>1. CASE Rename(p)
  <2>1. Entry(p) \in Entries /\ tmp[Entry(p)] \in Procs
    BY <1>1, EntryType DEF Rename, BundleTypeOK
  <2>2. QED
    BY <1>1, <2>1 DEF Rename, BundleTypeOK
<1>2. CASE ~Rename(p)
  BY <1>2 DEF ExtractStep, Check, Resolve, ResolveFails, OpenTmp, OpenTmpFails,
              WriteChunk, CloseTmp, Verify, WriteFails, RenameFails
<1>3. QED
  BY <1>1, <1>2

LEMMA AgreedStep ==
    ASSUME BundleTypeOK, AgreedInv, NEW p \in Procs, ExtractStep(p)
    PROVE  AgreedInv'
<1>1. BundleTypeOK' /\ Only(p)
  BY BundleTypeStep
<1>2. \A e \in Entries : dest'[e] = Other => dest[e] = Other
  BY FilesStay, FileAssumption
<1>3. agreed \subseteq agreed'
  BY DEF ExtractStep, Check, Resolve, ResolveFails, OpenTmp, OpenTmpFails, WriteChunk,
         CloseTmp, Verify, WriteFails, Rename, RenameFails
<1>4. ASSUME NEW q \in Procs \ {p}, step'[q] \in {"write", "verify", "rename"},
             dest'[Entry(q)'] = Other
      PROVE  <<q, Entry(q)'>> \in agreed'
  <2>1. step[q] = step'[q] /\ Entry(q)' = Entry(q)
    BY <1>1 DEF Only, Entry
  <2>2. Entry(q) \in Entries
    BY <1>4, <2>1, EntryType
  <2>3. dest[Entry(q)] = Other
    BY <1>2, <1>4, <2>1, <2>2
  <2>4. QED
    BY <1>3, <1>4, <2>1, <2>3 DEF AgreedInv
<1>5. ASSUME step'[p] \in {"write", "verify", "rename"}, dest'[Entry(p)'] = Other
      PROVE  <<p, Entry(p)'>> \in agreed'
  <2>1. CASE Check(p)
    <3>1. step[p] = "check" /\ Entry(p) \in Entries /\ names[p] # <<>>
      BY <2>1, EntryType DEF Check
    <3>2. ~Quit(p) /\ ~Advance(p) /\ ~To(p, "ask")
      BY <1>5, <3>1, QuitFacts, AdvanceFacts, ToFacts DEF Steps
    <3>3. /\ To(p, "write") /\ dest' = dest
          /\ agreed' = IF dest[Entry(p)] = None THEN agreed
                       ELSE agreed \cup {<<p, Entry(p)>>}
      BY <2>1, <3>2 DEF Check
    <3>4. Entry(p)' = Entry(p) /\ None # Other
      BY <3>3, ToFacts DEF Steps, None, Other
    <3>5. QED
      BY <1>5, <3>3, <3>4
  <2>2. CASE Resolve(p)
    <3>1. step[p] = "ask" /\ Entry(p) \in Entries /\ names[p] # <<>>
      BY <2>2, EntryType DEF Resolve
    <3>2. ~Advance(p)
      BY <1>5, <3>1, AdvanceFacts
    <3>3. PICK answer \in Answers(p) :
             /\ ~Keeps(answer) /\ To(p, "write")
             /\ agreed' = IF answer \in {"overwrite", "overwriteAll"}
                             THEN agreed \cup {<<p, Entry(p)>>} ELSE agreed
      BY <2>2, <3>2 DEF Resolve
    <3>4. answer \in {"overwrite", "overwriteAll"}
      BY <3>3 DEF Answers, Keeps, BundleTypeOK, None
    <3>5. Entry(p)' = Entry(p)
      BY <3>3, ToFacts DEF Steps
    <3>6. QED
      BY <3>3, <3>4, <3>5
  <2>3. CASE ~Check(p) /\ ~Resolve(p)
    <3>1. /\ step[p] \in {"ask", "write", "verify", "rename"}
          /\ \/ Quit(p) \/ Advance(p) \/ UNCHANGED <<step, names>>
             \/ step[p] # "ask" /\ (To(p, "verify") \/ To(p, "rename"))
          /\ step[p] = "ask" => Quit(p)
      BY <2>3 DEF ExtractStep, ResolveFails, OpenTmp, OpenTmpFails, WriteChunk,
                  CloseTmp, Verify, WriteFails, Rename, RenameFails
    <3>2. names[p] # <<>> /\ Entry(p) \in Entries
      BY <3>1, EntryType
    <3>3. ~Quit(p) /\ ~Advance(p)
      BY <1>5, <3>2, QuitFacts, AdvanceFacts
    <3>4. step[p] \in {"write", "verify", "rename"} /\ Entry(p)' = Entry(p)
      BY <3>1, <3>3, ToFacts DEF Steps, Entry
    <3>5. dest[Entry(p)] = Other
      BY <1>2, <1>5, <3>2, <3>4
    <3>6. QED
      BY <1>3, <3>4, <3>5 DEF AgreedInv
  <2>4. QED
    BY <2>1, <2>2, <2>3
<1>6. QED
  BY <1>4, <1>5 DEF AgreedInv

-----------------------------------------------------------------------------
(* The temporary files.  A step of p leaves alone an entry that p has not  *)
(* to do with, or not yet.                                                 *)
LEMMA Bystander ==
    ASSUME BundleTypeOK, NEW p \in Procs, NEW e \in Entries,
           WriterInv(e), InodeInv(e), Only(p),
           tmp'[e] = tmp[e], dest'[e] = dest[e],
           \A f \in Procs : content'[<<f, e>>] = content[<<f, e>>],
           ~Writing(p, e), ~Writing(p, e)', step[p] = "error" => step'[p] = "error",
           dest[e] = p => ~WillOpen(p, e)'
    PROVE  WriterInv(e)' /\ InodeInv(e)'
<1>1. \A q \in Procs \ {p} : /\ step'[q] = step[q] /\ offset'[q] = offset[q]
                             /\ Writing(q, e)' = Writing(q, e)
                             /\ WillOpen(q, e)' = WillOpen(q, e)
                             /\ open'[q] = open[q]
  BY DEF Only, Writing, WillOpen, Entry
<1>2. tmp[e] \in Procs \cup {None}
  BY DEF BundleTypeOK
<1>3. WriterInv(e)'
  <2>1. \A q, r \in Procs : Writing(q, e)' /\ Writing(r, e)' => q = r
    BY <1>1 DEF WriterInv
  <2>2. ASSUME NEW q \in Procs, Writing(q, e)'
        PROVE  /\ tmp'[e] # None
               /\ step'[q] = "write" => open'[q] = tmp'[e]
               /\ e \notin Corrupt =>
                     content'[<<tmp'[e], e>>] =
                         1 .. (IF step'[q] = "write" THEN offset'[q] ELSE Chunks)
    <3>1. q \in Procs \ {p} /\ Writing(q, e)
      BY <1>1, <2>2
    <3>2. tmp[e] \in Procs /\ content'[<<tmp[e], e>>] = content[<<tmp[e], e>>]
      BY <1>2, <3>1 DEF WriterInv
    <3>3. QED
      BY <1>1, <3>1, <3>2 DEF WriterInv
  <2>3. QED
    BY <2>1, <2>2 DEF WriterInv
<1>4. ASSUME tmp[e] # None
      PROVE  /\ dest[e] # tmp[e]
             /\ step'[tmp[e]] = "error" \/ Writing(tmp[e], e)'
  <2>1. PICK f \in Procs : f = tmp[e]
    BY <1>2, <1>4
  <2>2. dest[e] # f /\ (step[f] = "error" \/ Writing(f, e))
    BY <1>4, <2>1 DEF InodeInv
  <2>3. step'[f] = "error" \/ Writing(f, e)'
    BY <1>1, <2>2
  <2>4. Writing(f, e)' => Writing(tmp[e], e)'
    BY <2>1 DEF Writing, Entry
  <2>5. QED
    BY <2>1, <2>2, <2>3, <2>4
<1>5. ASSUME dest'[e] \in Procs PROVE Whole(e, dest[e])' /\ ~WillOpen(dest[e], e)'
  <2>1. dest[e] \in Procs /\ Whole(e, dest[e]) /\ ~WillOpen(dest[e], e)
    BY <1>5 DEF InodeInv
  <2>2. Whole(e, dest[e])'
    BY <2>1 DEF Whole
  <2>3. ~WillOpen(dest[e], e)'
    BY <1>1, <2>1 DEF WillOpen
  <2>4. QED
    BY <2>2, <2>3
<1>6. QED
  BY <1>3, <1>4, <1>5 DEF InodeInv

(* A step of p for the entry it is at.                                     *)
LEMMA OtherEntry ==
    ASSUME BundleTypeOK, NEW p \in Procs, Only(p), NEW e \in Entries \ {Entry(p)},
           WriterInv(e), InodeInv(e),
           step[p] \in {"check", "ask", "write", "verify", "rename"},
           step'[p] \in {"ask", "write", "verify", "rename"} => names'[p] = names[p],
           tmp'[e] = tmp[e], dest'[e] = dest[e],
           \A f \in Procs : content'[<<f, e>>] = content[<<f, e>>]
    PROVE  WriterInv(e)' /\ InodeInv(e)'
<1>1. ~Writing(p, e)
  BY DEF Writing
<1>2. ~Writing(p, e)' /\ ~WillOpen(p, e)'
  BY DEF Writing, WillOpen, Entry
<1>3. QED
  BY <1>1, <1>2, Bystander

LEMMA AskStep ==
    ASSUME BundleTypeOK, OpenInv, TmpInv, NEW p \in Procs,
           Check(p) \/ Resolve(p) \/ ResolveFails(p) \/ OpenTmpFails(p)
    PROVE  TmpInv'
<1>1. BundleTypeOK' /\ Only(p)
  BY BundleTypeStep DEF ExtractStep
<1>2. /\ step[p] \in {"check", "ask", "write"} /\ names[p] # <<>>
      /\ step[p] = "write" => open[p] = None
      /\ Entry(p) \in Entries
      /\ UNCHANGED <<dest, tmp, content, offset, open, clash>>
      /\ \/ Quit(p) \/ Advance(p)
         \/ To(p, "ask") /\ step[p] = "check" /\ ~Whole(Entry(p), dest[Entry(p)])
         \/ To(p, "write") /\ step[p] = "check" /\ ~Whole(Entry(p), dest[Entry(p)])
         \/ To(p, "write") /\ step[p] = "ask"
  BY EntryType DEF Check, Resolve, ResolveFails, OpenTmpFails
<1>3. open[p] = None
  BY <1>2 DEF OpenInv
<1> SUFFICES ASSUME NEW e \in Entries \ clash
             PROVE  WriterInv(e)' /\ InodeInv(e)'
  BY <1>2 DEF TmpInv
<1>5. WriterInv(e) /\ InodeInv(e)
  BY DEF TmpInv
<1>7. ~Writing(p, e) /\ step[p] # "error"
  BY <1>2 DEF Writing
<1>8. /\ step'[p] \in {"error", "done", "check", "ask", "write"}
      /\ step'[p] \in {"ask", "write"} => /\ Entry(p)' = Entry(p)
                                          /\ \/ ~Whole(Entry(p), dest[Entry(p)])
                                             \/ step[p] = "ask"
  BY <1>2, QuitFacts, AdvanceFacts, ToFacts DEF Steps
<1>9. ~Writing(p, e)'
  BY <1>2, <1>3, <1>8 DEF Writing
<1>10. dest[e] = p => ~WillOpen(p, e)'
  BY <1>3, <1>5, <1>8 DEF WillOpen, InodeInv
<1>11. QED
  BY <1>1, <1>2, <1>5, <1>7, <1>9, <1>10, Bystander

(* The only process that writes e, or nobody.                              *)
LEMMA SoleWriter ==
    ASSUME BundleTypeOK, NEW p \in Procs, NEW e \in Entries, Writing(p, e), WriterInv(e),
           Only(p)
    PROVE  /\ tmp[e] \in Procs
           /\ \A q \in Procs \ {p} : ~Writing(q, e) /\ ~Writing(q, e)'
<1>1. tmp[e] \in Procs
  BY DEF WriterInv, BundleTypeOK
<1>2. \A q \in Procs \ {p} : ~Writing(q, e)
  BY DEF WriterInv
<1>3. \A q \in Procs \ {p} : Writing(q, e)' = Writing(q, e)
  BY DEF Only, Writing, Entry
<1>4. QED
  BY <1>1, <1>2, <1>3

(* It goes on to write the same temporary file.                            *)
LEMMA GoesOn ==
    ASSUME BundleTypeOK, NEW p \in Procs, NEW e \in Entries, WriterInv(e), InodeInv(e),
           Only(p), Writing(p, e), Writing(p, e)', tmp'[e] = tmp[e], dest'[e] = dest[e],
           step'[p] = "write" => open'[p] = tmp[e],
           e \notin Corrupt => content'[<<tmp[e], e>>] =
                                   1 .. (IF step'[p] = "write" THEN offset'[p] ELSE Chunks),
           \A f \in Procs \ {tmp[e]} : content'[<<f, e>>] = content[<<f, e>>]
    PROVE  WriterInv(e)' /\ InodeInv(e)'
<1>1. /\ tmp[e] \in Procs /\ dest[e] # tmp[e] /\ tmp[e] # None
      /\ step[tmp[e]] = "error" \/ Writing(tmp[e], e)
      /\ \A q \in Procs \ {p} : ~Writing(q, e) /\ ~Writing(q, e)'
  BY SoleWriter DEF WriterInv, InodeInv
<1>2. WriterInv(e)'
  <2>1. \A q, r \in Procs : Writing(q, e)' /\ Writing(r, e)' => q = r
    BY <1>1
  <2>2. ASSUME NEW q \in Procs, Writing(q, e)' PROVE q = p
    BY <1>1, <2>2
  <2>3. QED
    BY <1>1, <2>1, <2>2 DEF WriterInv
<1>3. step'[tmp[e]] = "error" \/ Writing(tmp[e], e)'
  <2>1. PICK f \in Procs : f = tmp[e]
    BY <1>1
  <2>2. CASE f = p
    <3>1. Writing(p, e)' => Writing(tmp[e], e)'
      BY <2>1, <2>2 DEF Writing, Entry
    <3>2. QED
      BY <3>1
  <2>3. CASE f # p
    <3>1. step[f] = "error"
      BY <1>1, <2>1, <2>3
    <3>2. QED
      BY <2>1, <2>3, <3>1 DEF Only
  <2>4. QED
    BY <2>2, <2>3
<1>4. ASSUME dest[e] \in Procs PROVE Whole(e, dest[e])' /\ ~WillOpen(dest[e], e)'
  <2>1. PICK g \in Procs : g = dest[e] /\ Whole(e, g) /\ ~WillOpen(g, e) /\ g # tmp[e]
    BY <1>1, <1>4 DEF InodeInv
  <2>2. Whole(e, dest[e])'
    BY <2>1 DEF Whole
  <2>3. ~WillOpen(p, e)'
    BY DEF WillOpen, Writing
  <2>4. g # p => WillOpen(g, e)' = WillOpen(g, e)
    BY DEF WillOpen, Only, Entry
  <2>5. WillOpen(dest[e], e)' => WillOpen(g, e)'
    BY <2>1 DEF WillOpen, Entry
  <2>6. QED
    BY <2>1, <2>2, <2>3, <2>4, <2>5
<1>5. QED
  BY <1>1, <1>2, <1>3, <1>4 DEF InodeInv

(* It removes the temporary file and ends, or leaves it there.             *)
LEMMA GivesUp ==
    ASSUME BundleTypeOK, NEW p \in Procs, NEW e \in Entries, WriterInv(e), InodeInv(e),
           Only(p), Writing(p, e), step'[p] = "error",
           tmp'[e] = tmp[e] \/ tmp'[e] = None, dest'[e] = dest[e],
           \A f \in Procs : content'[<<f, e>>] = content[<<f, e>>]
    PROVE  WriterInv(e)' /\ InodeInv(e)'
<1>1. /\ tmp[e] \in Procs /\ dest[e] # tmp[e] /\ tmp[e] # None
      /\ step[tmp[e]] = "error" \/ Writing(tmp[e], e)
      /\ \A q \in Procs \ {p} : ~Writing(q, e) /\ ~Writing(q, e)'
  BY SoleWriter DEF WriterInv, InodeInv
<1>2. ~Writing(p, e)' /\ ~WillOpen(p, e)'
  BY DEF Writing, WillOpen
<1>3. WriterInv(e)'
  <2>1. \A q \in Procs : ~Writing(q, e)'
    BY <1>1, <1>2
  <2>2. QED
    BY <2>1 DEF WriterInv
<1>4. ASSUME tmp'[e] # None
      PROVE  tmp'[e] = tmp[e] /\ step'[tmp[e]] = "error"
  <2>1. PICK f \in Procs : f = tmp[e]
    BY <1>1
  <2>2. f # p => step[f] = "error"
    BY <1>1, <2>1
  <2>3. QED
    BY <1>4, <2>1, <2>2 DEF Only
<1>5. ASSUME dest[e] \in Procs PROVE Whole(e, dest[e])' /\ ~WillOpen(dest[e], e)'
  <2>1. PICK g \in Procs : g = dest[e] /\ Whole(e, g) /\ ~WillOpen(g, e)
    BY <1>5 DEF InodeInv
  <2>2. Whole(e, dest[e])'
    BY <2>1 DEF Whole
  <2>3. g # p => WillOpen(g, e)' = WillOpen(g, e)
    BY DEF WillOpen, Only, Entry
  <2>4. WillOpen(dest[e], e)' => WillOpen(g, e)'
    BY <2>1 DEF WillOpen, Entry
  <2>5. QED
    BY <1>2, <2>1, <2>2, <2>3, <2>4
<1>6. QED
  BY <1>1, <1>3, <1>4, <1>5 DEF InodeInv

(* A file that nobody writes is made, or emptied.                          *)
LEMMA OpenTmpStep ==
    ASSUME BundleTypeOK, OpenInv, TmpInv, NEW p \in Procs, OpenTmp(p)
    PROVE  TmpInv'
<1>1. BundleTypeOK' /\ Only(p)
  BY BundleTypeStep DEF ExtractStep
<1>2. step[p] = "write" /\ open[p] = None /\ offset[p] = 0
  <2>1. step[p] = "write" /\ open[p] = None
    BY DEF OpenTmp
  <2>2. offset[p] = 0
    BY <2>1, BundleAssumption DEF OpenInv, BundleTypeOK
  <2>3. QED
    BY <2>1, <2>2
<1>e. PICK e \in Entries : e = Entry(p)
  BY <1>2, EntryType
<1>f. PICK f \in Procs : f = IF tmp[e] = None THEN p ELSE tmp[e]
  BY DEF BundleTypeOK
<1>3. /\ tmp' = [tmp EXCEPT ![e] = f]
      /\ content' = [content EXCEPT ![<<f, e>>] = {}]
      /\ open' = [open EXCEPT ![p] = f]
      /\ UNCHANGED <<dest, names, step, offset>>
      /\ clash' = IF \E q \in Procs : Writing(q, e) THEN clash \cup {e} ELSE clash
  BY <1>e, <1>f DEF OpenTmp
<1> SUFFICES ASSUME NEW d \in Entries \ clash'
             PROVE  WriterInv(d)' /\ InodeInv(d)'
  BY DEF TmpInv
<1>4. WriterInv(d) /\ InodeInv(d) /\ d \notin clash
  BY <1>3 DEF TmpInv
<1>5. CASE d # e
  <2>1. /\ tmp'[d] = tmp[d] /\ dest'[d] = dest[d] /\ names'[p] = names[p]
        /\ \A g \in Procs : content'[<<g, d>>] = content[<<g, d>>]
    BY <1>2, <1>3, <1>5 DEF BundleTypeOK
  <2>2. QED
    BY <1>1, <1>2, <1>e, <1>4, <1>5, <2>1, OtherEntry
<1>6. CASE d = e
  <2>1. \A q \in Procs : ~Writing(q, e)
    BY <1>3, <1>6
  <2>2. /\ tmp'[e] = f /\ open'[p] = f /\ content'[<<f, e>>] = {} /\ f # None
        /\ dest' = dest
        /\ \A g \in Procs \ {f} : content'[<<g, e>>] = content[<<g, e>>]
    BY <1>2, <1>3, FileAssumption DEF BundleTypeOK
  <2>3. dest[e] # f /\ (f = p \/ step[f] = "error")
    <3>1. WillOpen(p, e)
      BY <1>2, <1>e DEF WillOpen
    <3>2. CASE tmp[e] = None
      BY <1>f, <1>4, <1>6, <3>1, <3>2 DEF InodeInv
    <3>3. CASE tmp[e] # None
      BY <1>f, <1>4, <1>6, <2>1, <3>3 DEF InodeInv
    <3>4. QED
      BY <3>2, <3>3
  <2>4. \A q \in Procs \ {p} : ~Writing(q, e)'
    BY <1>1, <2>1 DEF Only, Writing, Entry
  <2>5. WriterInv(e)'
    <3>1. \A q, r \in Procs : Writing(q, e)' /\ Writing(r, e)' => q = r
      BY <2>4
    <3>2. ASSUME NEW q \in Procs, Writing(q, e)' PROVE q = p
      BY <2>4, <3>2
    <3>3. content'[<<tmp'[e], e>>] = 1 .. offset'[p] /\ step'[p] = "write"
      <4>1. 1 .. 0 = {} /\ offset'[p] = 0
        BY <1>2, <1>3
      <4>2. QED
        BY <1>2, <1>3, <2>2, <4>1
    <3>4. QED
      BY <2>2, <3>1, <3>2, <3>3 DEF WriterInv
  <2>6. Writing(p, e)' /\ ~WillOpen(p, e)'
    <3>1. Entry(p)' = e /\ step'[p] = "write" /\ open'[p] # None
      BY <1>2, <1>e, <1>3, <2>2 DEF Entry
    <3>2. QED
      BY <3>1 DEF Writing, WillOpen
  <2>7. step'[f] = "error" \/ Writing(f, e)'
    <3>1. CASE f = p
      <4>1. Writing(p, e)' => Writing(f, e)'
        <5>1. step'[f] = step'[p] /\ names'[f] = names'[p] /\ open'[f] = open'[p]
          BY <3>1
        <5>2. QED
          BY <5>1 DEF Writing, Entry
      <4>2. QED
        BY <2>6, <4>1
    <3>2. CASE f # p
      BY <1>3, <2>3, <3>2
    <3>3. QED
      BY <3>1, <3>2
  <2>8. ASSUME dest[e] \in Procs PROVE Whole(e, dest[e])' /\ ~WillOpen(dest[e], e)'
    <3>1. PICK g \in Procs : g = dest[e] /\ Whole(e, g) /\ ~WillOpen(g, e) /\ g # f
      BY <1>4, <1>6, <2>3, <2>8 DEF InodeInv
    <3>2. Whole(e, dest[e])'
      BY <2>2, <3>1 DEF Whole
    <3>3. g # p => WillOpen(g, e)' = WillOpen(g, e)
      BY <1>1 DEF WillOpen, Only, Entry
    <3>4. WillOpen(dest[e], e)' => WillOpen(g, e)'
      BY <2>2, <3>1 DEF WillOpen, Entry
    <3>5. QED
      BY <2>6, <3>1, <3>2, <3>3, <3>4
  <2>9. QED
    BY <1>6, <2>2, <2>3, <2>5, <2>7, <2>8 DEF InodeInv
<1>7. QED
  BY <1>5, <1>6

(* The entry is written, closed, and its hash compared; or that fails.     *)
LEMMA WriteStep ==
    ASSUME BundleTypeOK, OpenInv, TmpInv, NEW p \in Procs,
           \/ WriteChunk(p) \/ CloseTmp(p) \/ Verify(p)
           \/ WriteFails(p) \/ RenameFails(p)
    PROVE  TmpInv'
<1>1. BundleTypeOK' /\ Only(p)
  BY BundleTypeStep DEF ExtractStep
<1>2. /\ step[p] \in {"write", "verify", "rename"} /\ UNCHANGED <<dest, clash>>
      /\ offset[p] \in 0 .. Chunks /\ Chunks \in Nat \ {0}
  BY BundleAssumption DEF WriteChunk, CloseTmp, Verify, WriteFails, RenameFails,
                          BundleTypeOK
<1>e. PICK e \in Entries : e = Entry(p)
  BY <1>2, EntryType
<1>3. Writing(p, e)
  BY <1>2, <1>e DEF WriteChunk, CloseTmp, Verify, WriteFails, RenameFails,
                     Writing, OpenInv
<1> SUFFICES ASSUME NEW d \in Entries \ clash
             PROVE  WriterInv(d)' /\ InodeInv(d)'
  BY <1>2 DEF TmpInv
<1>4. WriterInv(d) /\ InodeInv(d)
  BY DEF TmpInv
<1>n. step'[p] \in {"ask", "write", "verify", "rename"} => names'[p] = names[p]
  <2>1. Quit(p) \/ To(p, "verify") \/ To(p, "rename") \/ UNCHANGED names
    BY DEF WriteChunk, CloseTmp, Verify, WriteFails, RenameFails
  <2>2. QED
    BY <2>1, QuitFacts, ToFacts DEF Steps
<1>5. CASE d # e
  <2>1. tmp'[d] = tmp[d]
    BY <1>e, <1>5 DEF WriteChunk, CloseTmp, Verify, WriteFails, RenameFails,
                      BundleTypeOK
  <2>2. \A g \in Procs : content'[<<g, d>>] = content[<<g, d>>]
    <3>1. CASE WriteChunk(p)
      <4>1. <<open[p], e>> \in Procs \X Entries /\ \A g \in Procs : <<g, d>> # <<open[p], e>>
        BY <3>1, <1>5 DEF WriteChunk, BundleTypeOK
      <4>2. QED
        BY <3>1, <4>1, <1>e DEF WriteChunk, BundleTypeOK
    <3>2. CASE ~WriteChunk(p)
      BY <3>2 DEF CloseTmp, Verify, WriteFails, RenameFails
    <3>3. QED
      BY <3>1, <3>2
  <2>3. QED
    BY <1>1, <1>2, <1>e, <1>4, <1>5, <1>n, <2>1, <2>2, OtherEntry
<1>6. CASE d = e
  <2>0. tmp[e] \in Procs /\ WriterInv(e) /\ InodeInv(e) /\ e = Entry(p)
        /\ dest'[e] = dest[e]
    BY <1>1, <1>2, <1>3, <1>e, <1>4, <1>6, SoleWriter
  <2>1. CASE WriteChunk(p)
    <3>1. /\ step' = step /\ step[p] = "write" /\ names' = names /\ open' = open
          /\ tmp' = tmp /\ open[p] = tmp[e] /\ open[p] # None
          /\ offset'[p] = offset[p] + 1
      BY <2>1, <1>3, <2>0 DEF WriteChunk, WriterInv, BundleTypeOK
    <3>2. Writing(p, e)'
      BY <1>e, <3>1 DEF Writing, Entry
    <3>3. ASSUME e \notin Corrupt PROVE content'[<<tmp[e], e>>] = 1 .. offset[p] + 1
      <4>1. content[<<tmp[e], e>>] = 1 .. offset[p]
        BY <1>3, <2>0, <3>1, <3>3 DEF WriterInv
      <4>2. content'[<<tmp[e], e>>] = content[<<tmp[e], e>>] \cup {offset[p] + 1}
        BY <2>0, <2>1, <3>1, <3>3 DEF WriteChunk, BundleTypeOK
      <4>3. (1 .. offset[p]) \cup {offset[p] + 1} = 1 .. offset[p] + 1
        BY <1>2
      <4>4. QED
        BY <4>1, <4>2, <4>3
    <3>4. \A f \in Procs \ {tmp[e]} : content'[<<f, e>>] = content[<<f, e>>]
      BY <2>0, <2>1, <3>1 DEF WriteChunk, BundleTypeOK
    <3>5. QED
      BY <1>1, <1>3, <1>6, <2>0, <3>1, <3>2, <3>3, <3>4, GoesOn
  <2>2. CASE CloseTmp(p)
    <3>1. /\ step'[p] = "verify" /\ names' = names /\ step[p] = "write"
          /\ tmp' = tmp /\ content' = content /\ offset[p] = Chunks
      BY <2>2, ToFacts DEF CloseTmp, Steps
    <3>2. Writing(p, e)'
      BY <1>e, <3>1 DEF Writing, Entry
    <3>3. e \notin Corrupt => content[<<tmp[e], e>>] = 1 .. Chunks
      BY <1>3, <2>0, <3>1 DEF WriterInv
    <3>4. QED
      BY <1>1, <1>3, <1>6, <2>0, <3>1, <3>2, <3>3, GoesOn
  <2>3. CASE Verify(p) /\ e \notin Corrupt
    <3>1. /\ step'[p] = "rename" /\ names' = names /\ step[p] = "verify"
          /\ tmp' = tmp /\ content' = content
      BY <1>e, <2>3, ToFacts DEF Verify, Steps
    <3>2. Writing(p, e)'
      BY <1>e, <3>1 DEF Writing, Entry
    <3>3. e \notin Corrupt => content[<<tmp[e], e>>] = 1 .. Chunks
      BY <1>3, <2>0, <3>1 DEF WriterInv
    <3>4. QED
      BY <1>1, <1>3, <1>6, <2>0, <3>1, <3>2, <3>3, GoesOn
  <2>4. CASE WriteFails(p) \/ (Verify(p) /\ e \in Corrupt)
    <3>1. Quit(p) /\ tmp' = [tmp EXCEPT ![e] = None] /\ content' = content
      BY <1>e, <2>4 DEF WriteFails, Verify
    <3>2. step'[p] = "error" /\ tmp'[e] = None
      BY <3>1, QuitFacts DEF BundleTypeOK
    <3>3. QED
      BY <1>1, <1>3, <1>6, <2>0, <3>1, <3>2, GivesUp
  <2>5. CASE RenameFails(p)
    <3>1. step'[p] = "error" /\ tmp' = tmp /\ content' = content
      BY <2>5, QuitFacts DEF RenameFails
    <3>2. QED
      BY <1>1, <1>3, <1>6, <2>0, <3>1, GivesUp
  <2>6. QED
    BY <2>1, <2>2, <2>3, <2>4, <2>5
<1>7. QED
  BY <1>5, <1>6

(* The temporary file becomes the installed one, and it is whole.          *)
LEMMA RenameStep ==
    ASSUME BundleTypeOK, OpenInv, TmpInv, NEW p \in Procs, Rename(p)
    PROVE  TmpInv'
<1>1. BundleTypeOK' /\ Only(p)
  BY BundleTypeStep DEF ExtractStep
<1>2. step[p] = "rename" /\ names[p] # <<>> /\ UNCHANGED <<content, clash, open>>
      /\ Advance(p)
  BY EntryType DEF Rename
<1>e. PICK e \in Entries : e = Entry(p)
  BY <1>2, EntryType
<1>3. Writing(p, e) /\ e \notin Corrupt /\ open[p] = None
  BY <1>2, <1>e DEF Writing, OpenInv
<1>4. step'[p] \in {"done", "check"}
  BY <1>2, AdvanceFacts
<1> SUFFICES ASSUME NEW d \in Entries \ clash
             PROVE  WriterInv(d)' /\ InodeInv(d)'
  BY <1>2 DEF TmpInv
<1>5. WriterInv(d) /\ InodeInv(d)
  BY DEF TmpInv
<1>6. CASE d # e
  <2>1. tmp'[d] = tmp[d] /\ dest'[d] = dest[d]
    BY <1>e, <1>6 DEF Rename, BundleTypeOK
  <2>2. QED
    BY <1>1, <1>2, <1>e, <1>4, <1>5, <1>6, <2>1, OtherEntry
<1>7. CASE d = e
  <2>1. /\ tmp[e] \in Procs /\ tmp[e] # None
        /\ step[tmp[e]] = "error" \/ Writing(tmp[e], e)
        /\ \A q \in Procs \ {p} : ~Writing(q, e) /\ ~Writing(q, e)'
    BY <1>1, <1>3, <1>5, <1>7, SoleWriter DEF WriterInv, InodeInv
  <2>2. PICK f \in Procs : f = tmp[e]
    BY <2>1
  <2>3. tmp'[e] = None /\ dest'[e] = f
    BY <1>e, <2>2 DEF Rename, BundleTypeOK
  <2>4. \A q \in Procs : ~Writing(q, e)'
    BY <1>4, <2>1 DEF Writing
  <2>5. WriterInv(e)'
    BY <2>4 DEF WriterInv
  <2>6. content[<<f, e>>] = 1 .. Chunks
    BY <1>2, <1>3, <1>5, <1>7, <2>2 DEF WriterInv
  <2>7. Whole(e, dest[e])'
    BY <1>2, <2>3, <2>6 DEF Whole
  <2>8. ~WillOpen(dest[e], e)'
    <3>1. step'[f] \notin {"ask", "write"}
      <4>1. CASE f = p
        BY <1>4, <4>1
      <4>2. CASE f # p
        BY <1>1, <2>1, <2>2, <4>2 DEF Only
      <4>3. QED
        BY <4>1, <4>2
    <3>2. QED
      BY <2>3, <3>1 DEF WillOpen
  <2>9. QED
    BY <1>7, <2>3, <2>5, <2>7, <2>8 DEF InodeInv
<1>8. QED
  BY <1>6, <1>7

LEMMA BundleStep ==
    ASSUME BundleInv, NEW p \in Procs, ExtractStep(p)
    PROVE  BundleInv'
<1>1. TmpInv'
  BY AskStep, OpenTmpStep, WriteStep, RenameStep DEF ExtractStep, BundleInv
<1>2. QED
  BY <1>1, BundleTypeStep, OpenStep, AgreedStep DEF BundleInv

(* A command begins to extract.                                            *)
LEMMA ExtractBegins ==
    ASSUME BundleInv, NEW p \in Procs, NEW list \in Seq(Entries), list # <<>>,
           Extract(p, list)
    PROVE  BundleInv'
<1> USE DEF BundleInv
<1>1. /\ step[p] = "idle" /\ step'[p] = "check" /\ names'[p] = list
      /\ names' \in [Procs -> Seq(Entries)] /\ step' \in [Procs -> Steps]
      /\ Only(p)
      /\ UNCHANGED <<dest, tmp, content, offset, sticky, optVars, open, clash, agreed>>
  BY DEF Extract, BundleTypeOK, Only, Steps
<1>2. BundleTypeOK'
  BY <1>1 DEF BundleTypeOK, Only, optVars
<1>3. OpenInv'
  BY <1>1 DEF OpenInv, Only, Entry
<1>4. AgreedInv'
  BY <1>1 DEF AgreedInv, Only, Entry
<1>5. TmpInv'
  <2> SUFFICES ASSUME NEW e \in Entries \ clash
               PROVE  WriterInv(e)' /\ InodeInv(e)'
    BY <1>1 DEF TmpInv
  <2>1. WriterInv(e) /\ InodeInv(e)
    BY DEF TmpInv
  <2>2. ~Writing(p, e) /\ ~Writing(p, e)' /\ ~WillOpen(p, e)'
    BY <1>1 DEF Writing, WillOpen
  <2>3. QED
    BY <1>1, <2>1, <2>2, Bystander
<1>6. QED
  BY <1>2, <1>3, <1>4, <1>5

(* A crash leaves the temporary file as it is.                             *)
LEMMA CrashStep ==
    ASSUME BundleInv, NEW p \in Procs, ExtractCrash(p)
    PROVE  BundleInv' /\ dest' = dest
<1> USE DEF BundleInv
<1>1. /\ step'[p] = "error"
      /\ names' \in [Procs -> Seq(Entries)] /\ step' \in [Procs -> Steps]
      /\ \A q \in Procs \ {p} : step'[q] = step[q] /\ names'[q] = names[q]
      /\ UNCHANGED <<dest, tmp, content, sticky, optVars, clash, agreed>>
      /\ open' = [open EXCEPT ![p] = None] /\ offset' = [offset EXCEPT ![p] = 0]
  BY QuitFacts DEF ExtractCrash
<1>2. BundleTypeOK' /\ Only(p) /\ open'[p] = None /\ offset'[p] = 0
  <2>1. /\ open' \in [Procs -> Procs \cup {None}] /\ open'[p] = None
        /\ offset' \in [Procs -> 0 .. Chunks] /\ offset'[p] = 0
        /\ \A q \in Procs \ {p} : offset'[q] = offset[q] /\ open'[q] = open[q]
    BY <1>1, BundleAssumption DEF BundleTypeOK
  <2>2. Only(p)
    BY <1>1, <2>1 DEF Only
  <2>3. BundleTypeOK'
    BY <1>1, <2>1 DEF BundleTypeOK, optVars
  <2>4. QED
    BY <2>1, <2>2, <2>3
<1>3. OpenInv'
  BY <1>1, <1>2 DEF OpenInv, Only, Entry
<1>4. AgreedInv'
  BY <1>1, <1>2 DEF AgreedInv, Only, Entry
<1>5. TmpInv'
  <2> SUFFICES ASSUME NEW e \in Entries \ clash
               PROVE  WriterInv(e)' /\ InodeInv(e)'
    BY <1>1 DEF TmpInv
  <2>1. WriterInv(e) /\ InodeInv(e)
    BY DEF TmpInv
  <2>2. ~Writing(p, e)' /\ ~WillOpen(p, e)'
    BY <1>1 DEF Writing, WillOpen
  <2>3. QED
    BY <1>1, <1>2, <2>1, <2>2, Bystander, GivesUp
<1>6. QED
  BY <1>1, <1>2, <1>3, <1>4, <1>5

(* What is installed does not depend on the stages.                        *)
LEMMA BundleKept ==
    ASSUME BundleInv, UNCHANGED bundleVars
    PROVE  BundleInv'
BY DEF BundleInv, BundleTypeOK, OpenInv, TmpInv, WriterInv, InodeInv, AgreedInv,
       Writing, WillOpen, Whole, Entry, bundleVars

-----------------------------------------------------------------------------
(* The stages in their order.                                              *)
LEMMA StageNames ==
    /\ Len(Stages) = 8 /\ \A i \in 1 .. 8 : Stages[i] \in StageSet
    /\ {Stages[i] : i \in 1 .. Len(Stages)} = StageSet
    /\ Stages[8] = "rc" /\ \A i \in 1 .. 8 : Stages[i] = "rc" => i = 8
    /\ Sections \subseteq StageSet /\ "rc" \in Sections
<1>1. Len(Stages) = 8 /\ \A i \in 1 .. 8 : Stages[i] \in StageSet
  BY DEF Stages, StageSet
<1>2. ASSUME NEW s \in StageSet PROVE \E i \in 1 .. 8 : Stages[i] = s
  BY DEF Stages, StageSet
<1>3. Stages[8] = "rc" /\ \A i \in 1 .. 8 : Stages[i] = "rc" => i = 8
  BY DEF Stages
<1>4. Sections \subseteq StageSet /\ "rc" \in Sections
  BY DEF Sections, StageSet
<1>5. QED
  BY <1>1, <1>2, <1>3, <1>4

LEMMA MinFacts ==
    ASSUME NEW S \in SUBSET (1 .. 8), S # {}
    PROVE  Min(S) \in S /\ \A y \in S : Min(S) <= y
<1>1. \E x \in S : \A y \in S : x <= y
  <2> SUFFICES ASSUME \A x \in S : \E y \in S : y < x
               PROVE  FALSE
    OBVIOUS
  <2>1. 1 \notin S
    OBVIOUS
  <2>2. 2 \notin S /\ 3 \notin S
    BY <2>1
  <2>3. 4 \notin S /\ 5 \notin S
    BY <2>1, <2>2
  <2>4. 6 \notin S /\ 7 \notin S
    BY <2>1, <2>2, <2>3
  <2>5. 8 \notin S
    BY <2>1, <2>2, <2>3, <2>4
  <2>6. PICK x \in S : x \in 1 .. 8
    OBVIOUS
  <2>7. x \in {1, 2, 3, 4, 5, 6, 7, 8}
    BY <2>6
  <2>8. QED
    BY <2>1, <2>2, <2>3, <2>4, <2>5, <2>7
<1>2. QED
  BY <1>1 DEF Min

LEMMA PlaceFacts ==
    ASSUME NEW s \in StageSet
    PROVE  Place(s) \in 1 .. 8 /\ Stages[Place(s)] = s
<1>1. \E i \in 1 .. Len(Stages) : Stages[i] = s
  BY StageNames
<1>2. QED
  BY <1>1, StageNames DEF Place

(* The next stage is wanted, and none is passed over that was wanted.      *)
LEMMA StageFromFacts ==
    ASSUME NEW p \in Procs, NEW i \in 1 .. 9
    PROVE  /\ StageFrom(p, i) \in StageSet \cup {"done"}
           /\ i = 9 => StageFrom(p, i) = "done"
           /\ \/ /\ StageFrom(p, i) = "done"
                 /\ \A j \in i .. 8 : ~Wanted(p, Stages[j])
              \/ \E k \in i .. 8 : /\ StageFrom(p, i) = Stages[k]
                                   /\ \A j \in i .. (k - 1) : ~Wanted(p, Stages[j])
<1> DEFINE after == {j \in i .. Len(Stages) : Wanted(p, Stages[j])}
<1>1. after \in SUBSET (1 .. 8) /\ (i = 9 => after = {})
  BY StageNames
<1>2. \A j \in i .. 8 : Wanted(p, Stages[j]) <=> j \in after
  BY StageNames
<1>3. after # {} => Min(after) \in after /\ \A y \in after : Min(after) <= y
  BY <1>1, MinFacts
<1>4. StageFrom(p, i) = IF after = {} THEN "done" ELSE Stages[Min(after)]
  BY DEF StageFrom
<1>5. after \subseteq i .. 8
  BY StageNames
<1> HIDE DEF after
<1>6. CASE after = {}
  BY <1>2, <1>4, <1>6
<1>7. CASE after # {}
  <2>1. PICK k \in i .. 8 : k = Min(after)
    BY <1>3, <1>5, <1>7
  <2>2. \A j \in i .. (k - 1) : j \notin after /\ j \in i .. 8
    BY <1>3, <1>7, <2>1
  <2>3. Stages[k] \in StageSet /\ i # 9
    BY <1>1, <1>7, <2>1, StageNames
  <2>4. QED
    BY <1>2, <1>4, <1>7, <2>1, <2>2, <2>3
<1>8. QED
  BY <1>6, <1>7

LEMMA TypeParts == TypeOK <=> BundleTypeOK /\ FlowTypeOK
BY StageNames DEF TypeOK, FlowTypeOK, FlowSet

(* A step of p leaves alone what the others know, and nobody else is       *)
(* active unless two run at once.                                          *)
Others(p) ==
    \A q \in Procs \ {p} : /\ flow'[q] = flow[q] /\ sub'[q] = sub[q]
                           /\ snap'[q] = snap[q] /\ kept'[q] = kept[q]
                           /\ shellHookPresent'[q] = shellHookPresent[q]

Lone(p) == ~overlap' => ~overlap /\ \A q \in Procs \ {p} : ~Active(q)

(* The steps of InitFlow proper.                                           *)
FlowStep(p) ==
    \/ RunInit(p) \/ RunUpdate(p) \/ RunConfigPinentry(p)
    \/ Select(p) \/ Consent(p) \/ EmptyBundle(p) \/ Extracted(p)
    \/ \E f \in Sections : AppendIfAbsent(p, f) \/ Append_(p, f)
    \/ \E stage \in {"allow", "hook"} : ReadSettings(p, stage)
    \/ ReadGpgConf(p)
    \/ Truncate(p)
    \/ writeConfigFile(p) \/ ApplyGPGPinentry(p)
    \/ installClaudeSandbox(p) \/ mergeSettings(p)
    \/ StageFails(p)

LEMMA LeaveFacts ==
    ASSUME FlowTypeOK, NEW p \in Procs, flow[p] \in StageSet, Leave(p)
    PROVE  /\ flow' \in [Procs -> FlowSet] /\ flow'[p] \in StageSet \cup {"done"}
           /\ flow[p] = "rc" => flow'[p] = "done"
           /\ sub' \in [Procs -> {"read", "trunc", "write", "append"}]
           /\ sub'[p] = "read"
           /\ \A q \in Procs \ {p} : flow'[q] = flow[q] /\ sub'[q] = sub[q]
<1> DEFINE next == StageFrom(p, Place(flow[p]) + 1)
<1>1. Place(flow[p]) + 1 \in 1 .. 9
      /\ (flow[p] = "rc" => Place(flow[p]) + 1 = 9)
  BY PlaceFacts, StageNames
<1>2. next \in StageSet \cup {"done"} /\ (flow[p] = "rc" => next = "done")
  BY <1>1, StageFromFacts
<1>3. next \in FlowSet
  BY <1>2 DEF FlowSet, Ended
<1>4. flow' = [flow EXCEPT ![p] = next] /\ sub' = [sub EXCEPT ![p] = "read"]
  BY DEF Leave, Goto
<1> HIDE DEF next
<1>5. QED
  BY <1>2, <1>3, <1>4 DEF FlowTypeOK

LEMMA WithinFacts ==
    ASSUME FlowTypeOK, NEW p \in Procs,
           NEW place \in {"read", "trunc", "write", "append"}, Within(p, place)
    PROVE  /\ flow' = flow /\ sub'[p] = place
           /\ sub' \in [Procs -> {"read", "trunc", "write", "append"}]
           /\ \A q \in Procs \ {p} : sub'[q] = sub[q]
BY DEF Within, FlowTypeOK

LEMMA GotoFacts ==
    ASSUME FlowTypeOK, NEW p \in Procs, NEW place \in FlowSet, Goto(p, place)
    PROVE  /\ flow' \in [Procs -> FlowSet] /\ flow'[p] = place
           /\ \A q \in Procs \ {p} : flow'[q] = flow[q]
BY DEF Goto, FlowTypeOK

LEMMA Forms ==
    /\ NoSettings \in Settings /\ NoGpgConf \in GpgConf
    /\ \A s \in Settings : /\ [s EXCEPT !.json = TRUE, !.allow = TRUE] \in Settings
                           /\ [s EXCEPT !.json = TRUE, !.hook = TRUE] \in Settings
                           /\ [s EXCEPT !.json = TRUE, !.allow = TRUE].user = s.user
                           /\ [s EXCEPT !.json = TRUE, !.hook = TRUE].user = s.user
                           /\ [s EXCEPT !.json = TRUE, !.allow = TRUE].json
                           /\ [s EXCEPT !.json = TRUE, !.hook = TRUE].json
    /\ \A u \in {"none", "comment"} : [user |-> u, ours |-> 1] \in GpgConf
<1>1. NoSettings \in Settings /\ NoGpgConf \in GpgConf
  BY DEF NoSettings, Settings, NoGpgConf, GpgConf
<1>2. ASSUME NEW s \in Settings
      PROVE  /\ [s EXCEPT !.json = TRUE, !.allow = TRUE] \in Settings
             /\ [s EXCEPT !.json = TRUE, !.hook = TRUE] \in Settings
             /\ [s EXCEPT !.json = TRUE, !.allow = TRUE].user = s.user
             /\ [s EXCEPT !.json = TRUE, !.hook = TRUE].user = s.user
             /\ [s EXCEPT !.json = TRUE, !.allow = TRUE].json
             /\ [s EXCEPT !.json = TRUE, !.hook = TRUE].json
  BY DEF Settings
<1>3. ASSUME NEW u \in {"none", "comment"} PROVE [user |-> u, ours |-> 1] \in GpgConf
  BY DEF GpgConf
<1>4. QED
  BY <1>1, <1>2, <1>3

-----------------------------------------------------------------------------
(* What a step of p has to keep.                                           *)
LEMMA ActiveAt ==
    ASSUME NEW q \in Procs
    PROVE  /\ flow[q] \in StageSet \cup {"select", "consent", "extract"} => Active(q)
           /\ Active(q) /\ FlowTypeOK =>
                 flow[q] \in StageSet \cup {"select", "consent", "extract"}
BY DEF Active, StageSet, Ended, FlowTypeOK, FlowSet

LEMMA LoneKept ==
    ASSUME AloneInv, NEW p \in Procs, Active(p), overlap' = overlap
    PROVE  Lone(p)
BY DEF AloneInv, Lone

LEMMA LoneBegins ==
    ASSUME FlowTypeOK, NEW p \in Procs, Begins(p)
    PROVE  Lone(p)
BY DEF Begins, Lone, FlowTypeOK

LEMMA AloneKept ==
    ASSUME NEW p \in Procs, Lone(p), Others(p)
    PROVE  AloneInv'
BY DEF AloneInv, Lone, Others, Active

LEMMA StageKept ==
    ASSUME StageInv, NEW p \in Procs, Others(p), dest' = dest, HasRead(p)'
    PROVE  StageInv'
BY DEF StageInv, HasRead, Others

LEMMA SettingsKept ==
    ASSUME SettingsInv, NEW p \in Procs, Others(p), Lone(p),
           UNCHANGED <<home, settings>>, torn \subseteq torn',
           InSettings(p) /\ sub[p] = "write" => "settings" \in torn',
           InSettings(p)' /\ sub'[p] \in {"trunc", "write"} =>
               (settings.json => snap'[p].user = settings.user)
    PROVE  SettingsInv'
<1> SUFFICES ASSUME ~overlap', home.settings.json, home.settings.user,
                    "settings" \notin torn'
             PROVE  /\ settings.json /\ settings.user
                    /\ \A q \in Procs :
                          InSettings(q)' /\ sub'[q] \in {"trunc", "write"} => snap'[q].user
  BY DEF SettingsInv
<1>1. \A q \in Procs \ {p} : ~InSettings(q) /\ ~InSettings(q)'
  BY ActiveAt DEF Lone, Others, InSettings, StageSet
<1>2. settings.json /\ settings.user
  BY <1>1 DEF SettingsInv, Lone
<1>3. QED
  BY <1>1, <1>2

LEMMA GpgKept ==
    ASSUME GpgInv, NEW p \in Procs, Others(p), Lone(p),
           UNCHANGED <<home, gpgConf>>, torn \subseteq torn',
           flow[p] = "gpg" /\ sub[p] = "write" => "gpgConf" \in torn',
           flow'[p] = "gpg" /\ sub'[p] \in {"trunc", "write"} =>
               snap'[p].user = gpgConf.user
    PROVE  GpgInv'
<1> SUFFICES ASSUME ~overlap', home.gpgConf.user # "none", "gpgConf" \notin torn'
             PROVE  /\ gpgConf.user # "none"
                    /\ \A q \in Procs :
                          flow'[q] = "gpg" /\ sub'[q] \in {"trunc", "write"} =>
                              snap'[q].user # "none"
  BY DEF GpgInv
<1>1. \A q \in Procs \ {p} : flow[q] # "gpg" /\ flow'[q] # "gpg"
  BY ActiveAt DEF Lone, Others, StageSet
<1>2. gpgConf.user # "none"
  BY <1>1 DEF GpgInv, Lone
<1>3. QED
  BY <1>1, <1>2

(* It asked about the shell's file.                                        *)
Asked(p) == Active(p) /\ flow[p] \notin {"select", "consent"}

LEMMA SectionKept ==
    ASSUME SectionInv, StageInv, NEW p \in Procs, Others(p), Lone(p),
           UNCHANGED <<sections, want>>,
           ~overlap /\ sub'[p] = "append" => sections[flow'[p]] = 0,
           ~overlap /\ Asked(p)' /\ want[p].kind \in {"auto", "init"}
               /\ ~shellHookPresent'[p] =>
               sections["rc"] = 0 \/ (Asked(p) /\ ~shellHookPresent[p])
    PROVE  SectionInv'
<1> SUFFICES ASSUME ~overlap'
             PROVE  /\ \A f \in Sections : sections[f] <= 1
                    /\ \A q \in Procs :
                          /\ sub'[q] = "append" => sections[flow'[q]] = 0
                          /\ Asked(q)' /\ want[q].kind \in {"auto", "init"}
                                /\ ~shellHookPresent'[q] => sections["rc"] = 0
  BY DEF SectionInv, Asked
<1>1. \A q \in Procs \ {p} : sub'[q] # "append" /\ ~Asked(q)'
  BY ActiveAt, StageNames DEF Lone, Others, StageInv, HasRead, Asked, Active
<1>2. ~overlap
  BY DEF Lone
<1>3. QED
  BY <1>1, <1>2 DEF SectionInv, Asked

LEMMA ConfigKept ==
    ASSUME ConfigInv, NEW p \in Procs, Others(p), want' = want,
           config' = "user" => config = "user" /\ WasTold(p)'
    PROVE  ConfigInv'
BY DEF ConfigInv, WasTold, Others, Active

-----------------------------------------------------------------------------
(* The steps of a command, each with what it keeps.                        *)
LEMMA WantFacts ==
    ASSUME FlowTypeOK, NEW p \in Procs
    PROVE  /\ want[p].kind \in {"auto", "init", "update", "force", "pinentry"}
           /\ want[p].action \in {"continue", "overwrite", "exit"}
           /\ want[p].plugins \in Seq(Entries)
           /\ home.binaries \in {None, Other, Current}
           /\ home.settings \in Settings /\ home.gpgConf \in GpgConf
BY FlowAssumption DEF FlowTypeOK

(* It begins: nothing is written, and --auto keeps a configuration that is *)
(* the user's.                                                             *)
LEMMA BeginStep ==
    ASSUME StagesInv, NEW p \in Procs, RunInit(p) \/ RunUpdate(p) \/ RunConfigPinentry(p)
    PROVE  StagesInv'
<1> USE DEF StagesInv
<1>1. /\ flow[p] = "idle" /\ sub[p] = "read" /\ ~Active(p)
      /\ Begins(p)
      /\ UNCHANGED <<dest, home, want, sub, shellHookPresent, claudeHookPresent, snap,
                     config, settings, gpgConf, sections, torn>>
  BY DEF RunInit, RunUpdate, RunConfigPinentry, Begins, userVars, bundleVars, StageInv,
         HasRead, FlowTypeOK, Sections, Active
<1>2. PICK place \in {"cancelled", "select", "error", "done", "extract", "gpg"} :
         /\ Goto(p, place)
         /\ \/ want[p].kind \notin {"auto", "init"} /\ kept' = kept
            \/ place = "cancelled" /\ kept' = kept
            \/ /\ place = "select"
               /\ kept' = [kept EXCEPT ![p] = config # "none" /\ Action(p) = "continue"]
               /\ ~(config # "none" /\ Action(p) = "exit")
  BY DEF RunInit, RunUpdate, RunConfigPinentry
<1>3. /\ flow' \in [Procs -> FlowSet] /\ flow'[p] = place
      /\ \A q \in Procs \ {p} : flow'[q] = flow[q]
  BY <1>2, GotoFacts DEF FlowSet, Ended, StageSet
<1>4. kept' \in [Procs -> BOOLEAN] /\ \A q \in Procs \ {p} : kept'[q] = kept[q]
  BY <1>2 DEF FlowTypeOK
<1>5. Others(p) /\ Lone(p)
  BY <1>1, <1>3, <1>4, LoneBegins DEF Others
<1>6. FlowTypeOK'
  <2>1. overlap' \in BOOLEAN
    BY <1>1 DEF Begins, FlowTypeOK
  <2>2. QED
    BY <1>1, <1>3, <1>4, <2>1 DEF FlowTypeOK
<1>7. GpgHasPinentry'
  BY <1>1 DEF GpgHasPinentry
<1>8. StageInv' /\ AloneInv'
  BY <1>1, <1>5, AloneKept, StageKept DEF HasRead
<1>9. SettingsInv' /\ GpgInv'
  BY <1>1, <1>3, <1>5, SettingsKept, GpgKept DEF InSettings
<1>10. SectionInv'
  <2>1. ~Asked(p)' \/ want[p].kind \notin {"auto", "init"}
    BY <1>2, <1>3 DEF Asked, Active, Ended
  <2>2. sub'[p] # "append"
    BY <1>1
  <2>3. UNCHANGED <<sections, want>>
    BY <1>1
  <2>4. QED
    BY <1>5, <2>1, <2>2, <2>3, SectionKept
<1>11. ConfigInv'
  <2>1. config = "user" => WasTold(p)'
    <3>1. CASE want[p].kind \notin {"auto", "init"} \/ place = "cancelled"
      BY <1>1, <1>3, <3>1 DEF WasTold, Active, Ended
    <3>2. CASE want[p].kind \in {"auto", "init"} /\ place = "select"
      <4>1. config = "user" => (kept'[p] \/ Action(p) = "overwrite")
        BY <1>2, <3>2, WantFacts DEF Action, FlowTypeOK, Loads
      <4>2. config = "user" /\ want[p].kind = "auto" => Action(p) = "continue"
        BY DEF Action, Loads
      <4>3. want[p].kind = "init" => Action(p) = want[p].action
        BY DEF Action
      <4>4. config = "user" /\ ~kept'[p] =>
                want[p].kind = "init" /\ want[p].action = "overwrite"
        BY <3>2, <4>1, <4>2, <4>3
      <4>5. QED
        BY <1>1, <4>4 DEF WasTold
    <3>3. QED
      BY <1>2, <3>1, <3>2
  <2>2. QED
    BY <1>1, <1>5, <2>1, ConfigKept
<1>12. QED
  BY <1>6, <1>7, <1>8, <1>9, <1>10, <1>11

(* It goes on to the next question, to the extraction or to a stage.       *)
LEMMA ChooseStep ==
    ASSUME StagesInv, NEW p \in Procs,
           Select(p) \/ Consent(p) \/ EmptyBundle(p) \/ Extracted(p)
    PROVE  StagesInv'
<1> USE DEF StagesInv
<1>1. /\ flow[p] \in {"select", "consent", "extract"} /\ sub[p] = "read"
      /\ UNCHANGED <<dest, home, want, sub, kept, snap, config, settings, gpgConf,
                     sections, torn, overlap>>
  BY DEF Select, Consent, EmptyBundle, Extracted, userVars, bundleVars, StageInv,
         HasRead, FlowTypeOK, Sections
<1>2. PICK place \in StageSet \cup Ended \cup {"consent", "extract"} :
         /\ Goto(p, place)
         /\ flow[p] = "select" => place \in {"consent", "cancelled"}
  <2>1. StageFrom(p, 1) \in StageSet \cup {"done"}
    BY StageFromFacts
  <2>2. AfterExtract(p) \in StageSet \cup {"done", "error"}
    BY <2>1 DEF AfterExtract
  <2>3. QED
    BY <2>1, <2>2 DEF Select, Consent, EmptyBundle, Extracted, Ended
<1>3. /\ flow' \in [Procs -> FlowSet] /\ flow'[p] = place
      /\ \A q \in Procs \ {p} : flow'[q] = flow[q]
  BY <1>2, GotoFacts DEF FlowSet
<1>4. /\ shellHookPresent' \in [Procs -> BOOLEAN]
      /\ claudeHookPresent' \in [Procs -> BOOLEAN]
      /\ \A q \in Procs \ {p} : shellHookPresent'[q] = shellHookPresent[q]
      /\ shellHookPresent'[p] = shellHookPresent[p]
            \/ (flow[p] = "consent" /\ shellHookPresent'[p] = (sections["rc"] > 0))
      /\ flow[p] # "consent" => shellHookPresent'[p] = shellHookPresent[p]
      /\ flow[p] = "consent" => shellHookPresent'[p] = (sections["rc"] > 0)
  <2>1. CASE Consent(p)
    <3>1. /\ shellHookPresent' = [shellHookPresent EXCEPT ![p] = sections["rc"] > 0]
          /\ claudeHookPresent' = [claudeHookPresent EXCEPT ![p] =
                                      settings.json /\ settings.hook]
          /\ flow[p] = "consent"
      BY <2>1 DEF Consent
    <3>2. (sections["rc"] > 0) \in BOOLEAN /\ (settings.json /\ settings.hook) \in BOOLEAN
      BY DEF FlowTypeOK, Settings
    <3>3. QED
      BY <3>1, <3>2 DEF FlowTypeOK
  <2>2. CASE Select(p) \/ EmptyBundle(p) \/ Extracted(p)
    <3>1. UNCHANGED <<shellHookPresent, claudeHookPresent>> /\ flow[p] # "consent"
      BY <2>2 DEF Select, EmptyBundle, Extracted
    <3>2. QED
      BY <3>1 DEF FlowTypeOK
  <2>3. QED
    BY <2>1, <2>2
<1>5. Others(p) /\ Lone(p) /\ Active(p)
  BY <1>1, <1>3, <1>4, ActiveAt, LoneKept DEF Others
<1>6. FlowTypeOK'
  BY <1>1, <1>3, <1>4 DEF FlowTypeOK
<1>7. GpgHasPinentry'
  BY <1>1 DEF GpgHasPinentry
<1>8. StageInv' /\ AloneInv'
  BY <1>1, <1>5, AloneKept, StageKept DEF HasRead
<1>9. SettingsInv' /\ GpgInv'
  BY <1>1, <1>3, <1>5, SettingsKept, GpgKept DEF InSettings
<1>10. SectionInv'
  <2>1. ASSUME Asked(p)', ~shellHookPresent'[p]
        PROVE  sections["rc"] = 0 \/ (Asked(p) /\ ~shellHookPresent[p])
    <3>1. CASE flow[p] = "consent"
      BY <1>4, <2>1, <3>1, StageNames DEF FlowTypeOK
    <3>2. CASE flow[p] = "extract"
      BY <1>4, <1>5, <2>1, <3>2 DEF Asked
    <3>3. CASE flow[p] = "select"
      BY <1>2, <1>3, <2>1, <3>3 DEF Asked, Active, Ended
    <3>4. QED
      BY <1>1, <3>1, <3>2, <3>3
  <2>2. QED
    BY <1>1, <1>5, <2>1, SectionKept
<1>11. ConfigInv'
  BY <1>1, <1>5, ConfigKept DEF ConfigInv, WasTold
<1>12. QED
  BY <1>6, <1>7, <1>8, <1>9, <1>10, <1>11

(* Sections are looked for, and appended.                                  *)
LEMMA AppendStep ==
    ASSUME StagesInv, NEW p \in Procs, NEW f \in Sections,
           AppendIfAbsent(p, f) \/ Append_(p, f)
    PROVE  StagesInv'
<1> USE DEF StagesInv
<1>1. /\ flow[p] = f /\ f \in StageSet /\ Wanted(p, f)
      /\ UNCHANGED <<dest, home, want, kept, shellHookPresent, claudeHookPresent, snap,
                     config, settings, gpgConf, torn, overlap>>
      /\ Leave(p) \/ Within(p, "append")
  BY StageNames DEF AppendIfAbsent, Append_, At, procVars, userVars, bundleVars
<1>2. /\ flow' \in [Procs -> FlowSet]
      /\ sub' \in [Procs -> {"read", "trunc", "write", "append"}]
      /\ \/ Leave(p) /\ sub'[p] = "read" /\ (f = "rc" => flow'[p] = "done")
         \/ Within(p, "append") /\ sub'[p] = "append" /\ flow' = flow
      /\ \A q \in Procs \ {p} : flow'[q] = flow[q] /\ sub'[q] = sub[q]
  <2>1. CASE Leave(p)
    BY <1>1, <2>1, LeaveFacts
  <2>2. CASE Within(p, "append")
    <3>1. flow' = flow /\ sub'[p] = "append"
          /\ sub' \in [Procs -> {"read", "trunc", "write", "append"}]
          /\ \A q \in Procs \ {p} : sub'[q] = sub[q]
      BY <2>2, WithinFacts
    <3>2. QED
      BY <2>2, <3>1 DEF FlowTypeOK
  <2>3. QED
    BY <1>1, <2>1, <2>2
<1>3. Others(p) /\ Lone(p) /\ Active(p)
  BY <1>1, <1>2, ActiveAt, LoneKept DEF Others
<1>4. sections' \in [Sections -> Nat]
  <2>1. sections' = sections \/ sections' = [sections EXCEPT ![f] = @ + 1]
    BY DEF AppendIfAbsent, Append_, userVars
  <2>2. sections \in [Sections -> Nat]
    BY DEF FlowTypeOK
  <2>3. QED
    BY <2>1, <2>2
<1>5. FlowTypeOK'
  BY <1>1, <1>2, <1>4 DEF FlowTypeOK
<1>6. GpgHasPinentry'
  BY <1>1 DEF GpgHasPinentry
<1>7. HasRead(p)'
  BY <1>1, <1>2 DEF HasRead, Sections
<1>8. StageInv' /\ AloneInv'
  BY <1>1, <1>3, <1>7, AloneKept, StageKept
<1>9. SettingsInv' /\ GpgInv'
  <2>1. ~InSettings(p) /\ flow[p] # "gpg" /\ sub'[p] \notin {"trunc", "write"}
    BY <1>1, <1>2 DEF InSettings, Sections
  <2>2. QED
    BY <1>1, <1>3, <2>1, SettingsKept, GpgKept
<1>10. SectionInv'
  <2>1. Asked(p)
    BY <1>1, <1>3, StageNames DEF Asked, StageSet
  <2>2. CASE AppendIfAbsent(p, f)
    <3>1. UNCHANGED <<sections, want>>
      BY <1>1, <2>2 DEF AppendIfAbsent, userVars
    <3>2. ~overlap /\ sub'[p] = "append" => sections[flow'[p]] = 0
      <4>1. sub'[p] = "append" => flow'[p] = f /\ ~(f # "rc" /\ sections[f] > 0)
        BY <1>1, <1>2, <2>2 DEF AppendIfAbsent, Leave, FlowTypeOK
      <4>2. f = "rc" => want[p].kind \in {"auto", "init"} /\ ~shellHookPresent[p]
        BY <1>1 DEF Wanted
      <4>3. ~overlap /\ f = "rc" => sections[f] = 0
        BY <2>1, <4>2 DEF SectionInv, Asked
      <4>4. sections[f] \in Nat
        BY DEF FlowTypeOK
      <4>5. QED
        BY <4>1, <4>3, <4>4
    <3>3. QED
      BY <1>1, <1>3, <2>1, <3>1, <3>2, SectionKept
  <2>3. CASE Append_(p, f)
    <3>1. /\ sections' = [sections EXCEPT ![f] = @ + 1] /\ sub[p] = "append" /\ Leave(p)
          /\ sub'[p] = "read"
      BY <1>1, <2>3, LeaveFacts DEF Append_, At
    <3> SUFFICES ASSUME ~overlap'
                 PROVE  /\ \A g \in Sections : sections'[g] <= 1
                        /\ \A q \in Procs :
                              /\ sub'[q] = "append" => sections'[flow'[q]] = 0
                              /\ Asked(q)' /\ want[q].kind \in {"auto", "init"}
                                    /\ ~shellHookPresent'[q] => sections'["rc"] = 0
      BY <1>1 DEF SectionInv, Asked
    <3>2. ~overlap /\ sections \in [Sections -> Nat] /\ sections[f] = 0
          /\ \A g \in Sections : sections[g] <= 1
      BY <1>1, <3>1 DEF SectionInv, FlowTypeOK
    <3>3. \A g \in Sections : sections'[g] <= 1
      BY <3>1, <3>2
    <3>4. \A q \in Procs \ {p} : sub'[q] # "append" /\ ~Asked(q)'
      BY <1>3, ActiveAt, StageNames DEF Lone, Others, StageInv, HasRead, Asked, Active
    <3>5. Asked(p)' => f # "rc"
      BY <1>1, <3>1, LeaveFacts DEF Asked, Active, Ended
    <3>6. f # "rc" => sections'["rc"] = sections["rc"]
      BY <3>1, <3>2, StageNames
    <3>7. want[p].kind \in {"auto", "init"} /\ ~shellHookPresent[p] => sections["rc"] = 0
      BY <2>1, <3>2 DEF SectionInv, Asked
    <3>8. QED
      BY <1>1, <3>1, <3>3, <3>4, <3>5, <3>6, <3>7
  <2>4. QED
    BY <2>2, <2>3
<1>11. ConfigInv'
  <2>1. config = "user" => WasTold(p)
    BY DEF ConfigInv
  <2>2. WasTold(p) => WasTold(p)'
    BY <1>1, <1>3 DEF WasTold
  <2>3. QED
    BY <1>1, <1>3, <2>1, <2>2, ConfigKept
<1>12. QED
  BY <1>5, <1>6, <1>8, <1>9, <1>10, <1>11

(* A file is read, to be rewritten: the process now has what the user had. *)
LEMMA ReadStep ==
    ASSUME StagesInv, NEW p \in Procs,
           ReadGpgConf(p) \/ \E stage \in {"allow", "hook"} : ReadSettings(p, stage)
    PROVE  StagesInv'
<1> USE DEF StagesInv
<1>1. /\ flow[p] \in {"gpg", "allow", "hook"} /\ flow[p] \in StageSet /\ sub[p] = "read"
      /\ UNCHANGED <<dest, home, want, kept, shellHookPresent, claudeHookPresent,
                     config, settings, gpgConf, sections, torn, overlap>>
  BY DEF ReadGpgConf, ReadSettings, At, procVars, userVars, bundleVars, StageSet
<1>2. \/ Leave(p) /\ snap' = snap
      \/ /\ Within(p, "trunc") /\ flow[p] = "gpg" /\ dest[Pinentry] # None
         /\ snap' = [snap EXCEPT ![p] = gpgConf]
      \/ /\ Within(p, "trunc") /\ flow[p] \in {"allow", "hook"}
         /\ snap' = [snap EXCEPT ![p] = IF settings.json THEN settings ELSE NoSettings]
  BY DEF ReadGpgConf, ReadSettings, At
<1>3. PICK read \in Settings \cup GpgConf :
         /\ snap' = [snap EXCEPT ![p] = read]
         /\ \/ Leave(p)
            \/ /\ Within(p, "trunc") /\ flow[p] = "gpg" /\ dest[Pinentry] # None
               /\ read = gpgConf
            \/ /\ Within(p, "trunc") /\ flow[p] \in {"allow", "hook"}
               /\ read \in Settings /\ (settings.json => read = settings)
  <2>1. CASE Leave(p) /\ snap' = snap
    <3>1. snap[p] \in Settings \cup GpgConf /\ snap' = [snap EXCEPT ![p] = snap[p]]
      BY <2>1 DEF FlowTypeOK
    <3>2. QED
      BY <2>1, <3>1
  <2>2. CASE /\ Within(p, "trunc") /\ flow[p] = "gpg" /\ dest[Pinentry] # None
             /\ snap' = [snap EXCEPT ![p] = gpgConf]
    BY <2>2 DEF FlowTypeOK
  <2>3. CASE /\ Within(p, "trunc") /\ flow[p] \in {"allow", "hook"}
             /\ snap' = [snap EXCEPT ![p] = IF settings.json THEN settings ELSE NoSettings]
    <3>1. settings \in Settings /\ NoSettings \in Settings
      BY Forms DEF FlowTypeOK
    <3>2. QED
      BY <2>3, <3>1
  <2>4. QED
    BY <1>2, <2>1, <2>2, <2>3
<1>4. /\ snap' \in [Procs -> Settings \cup GpgConf] /\ snap'[p] = read
      /\ \A q \in Procs \ {p} : snap'[q] = snap[q]
  BY <1>3 DEF FlowTypeOK
<1>5. /\ flow' \in [Procs -> FlowSet]
      /\ sub' \in [Procs -> {"read", "trunc", "write", "append"}]
      /\ \/ Leave(p) /\ sub'[p] = "read"
         \/ Within(p, "trunc") /\ sub'[p] = "trunc" /\ flow' = flow
      /\ \A q \in Procs \ {p} : flow'[q] = flow[q] /\ sub'[q] = sub[q]
  <2>1. CASE Leave(p)
    BY <1>1, <2>1, LeaveFacts
  <2>2. CASE Within(p, "trunc")
    <3>1. flow' = flow /\ sub'[p] = "trunc"
          /\ sub' \in [Procs -> {"read", "trunc", "write", "append"}]
          /\ \A q \in Procs \ {p} : sub'[q] = sub[q]
      BY <2>2, WithinFacts
    <3>2. QED
      BY <2>2, <3>1 DEF FlowTypeOK
  <2>3. QED
    BY <1>3, <2>1, <2>2
<1>6. Others(p) /\ Lone(p) /\ Active(p)
  BY <1>1, <1>4, <1>5, ActiveAt, LoneKept DEF Others
<1>7. FlowTypeOK'
  BY <1>1, <1>4, <1>5 DEF FlowTypeOK
<1>8. GpgHasPinentry'
  BY <1>1 DEF GpgHasPinentry
<1>9. sub'[p] = "trunc" => /\ flow'[p] = flow[p]
                           /\ flow[p] = "gpg" => read = gpgConf /\ dest[Pinentry] # None
                           /\ flow[p] \in {"allow", "hook"} =>
                                 read \in Settings /\ (settings.json => read = settings)
  <2>1. Leave(p) => sub'[p] = "read"
    BY <1>1, LeaveFacts
  <2>2. QED
    BY <1>3, <1>5, <2>1
<1>10. HasRead(p)'
  <2>1. sub'[p] \in {"read", "trunc"} /\ (flow[p] = "gpg" => dest'[Pinentry] = dest[Pinentry])
    BY <1>1, <1>5
  <2>2. gpgConf \in GpgConf
    BY DEF FlowTypeOK
  <2>3. QED
    BY <1>1, <1>4, <1>9, <2>1, <2>2 DEF HasRead
<1>11. StageInv' /\ AloneInv'
  BY <1>1, <1>6, <1>10, AloneKept, StageKept
<1>12. SettingsInv' /\ GpgInv'
  <2>1. sub[p] # "write" /\ sub'[p] \in {"read", "trunc"}
    BY <1>1, <1>5
  <2>2. flow'[p] = "gpg" /\ sub'[p] = "trunc" => snap'[p].user = gpgConf.user
    BY <1>4, <1>9
  <2>3. InSettings(p)' /\ sub'[p] = "trunc" =>
            (settings.json => snap'[p].user = settings.user)
    BY <1>4, <1>9 DEF InSettings
  <2>4. SettingsInv'
    BY <1>1, <1>6, <2>1, <2>3, SettingsKept
  <2>5. GpgInv'
    BY <1>1, <1>6, <2>1, <2>2, GpgKept
  <2>6. QED
    BY <2>4, <2>5
<1>13. SectionInv'
  BY <1>1, <1>5, <1>6, SectionKept DEF Asked
<1>14. ConfigInv'
  <2>1. config = "user" => WasTold(p)
    BY DEF ConfigInv
  <2>2. WasTold(p) => WasTold(p)'
    BY <1>1, <1>6 DEF WasTold
  <2>3. QED
    BY <1>1, <1>6, <2>1, <2>2, ConfigKept
<1>15. QED
  BY <1>7, <1>8, <1>11, <1>12, <1>13, <1>14

(* The file is emptied: who does that has what was in it.                  *)
LEMMA TruncateStep ==
    ASSUME StagesInv, NEW p \in Procs, Truncate(p)
    PROVE  StagesInv'
<1> USE DEF StagesInv
<1>1. /\ flow[p] \in {"config", "gpg", "allow", "hook"} /\ flow[p] \in StageSet
      /\ Within(p, "write")
      /\ UNCHANGED <<dest, home, want, kept, shellHookPresent, claudeHookPresent,
                     snap, sections, torn, overlap>>
  BY DEF Truncate, At, procVars, bundleVars, StageSet
<1>2. /\ \/ flow[p] = "config" /\ config' = "empty"
         \/ config' = config /\ sub[p] = "trunc"
      /\ \/ flow[p] = "gpg" /\ sub[p] = "trunc" /\ gpgConf' = NoGpgConf
         \/ flow[p] # "gpg" /\ gpgConf' = gpgConf
      /\ \/ flow[p] \in {"allow", "hook"} /\ sub[p] = "trunc" /\ settings' = NoSettings
         \/ flow[p] \notin {"allow", "hook"} /\ settings' = settings
  BY DEF Truncate, At
<1>3. /\ flow' = flow /\ sub'[p] = "write"
      /\ sub' \in [Procs -> {"read", "trunc", "write", "append"}]
      /\ \A q \in Procs \ {p} : sub'[q] = sub[q]
  BY <1>1, WithinFacts
<1>4. Others(p) /\ Lone(p) /\ Active(p)
  BY <1>1, <1>3, ActiveAt, LoneKept DEF Others
<1>5. FlowTypeOK'
  BY <1>1, <1>2, <1>3, Forms DEF FlowTypeOK
<1>6. GpgHasPinentry'
  BY <1>1, <1>2 DEF GpgHasPinentry, NoGpgConf
<1>7. HasRead(p)'
  BY <1>1, <1>2, <1>3 DEF HasRead, StageInv
<1>8. StageInv' /\ AloneInv'
  BY <1>1, <1>4, <1>7, AloneKept, StageKept
<1>9. SettingsInv'
  <2>1. CASE InSettings(p)
    <3> SUFFICES ASSUME ~overlap', home.settings.json, home.settings.user,
                        "settings" \notin torn
                 PROVE  /\ \E q \in Procs : InSettings(q)' /\ sub'[q] = "write"
                        /\ \A q \in Procs :
                              InSettings(q)' /\ sub'[q] \in {"trunc", "write"}
                                  => snap'[q].user
      BY <1>1 DEF SettingsInv
    <3>1. InSettings(p)' /\ sub'[p] = "write"
      BY <1>3, <2>1 DEF InSettings
    <3>2. snap'[p].user
      BY <1>1, <1>2, <2>1 DEF SettingsInv, InSettings
    <3>3. \A q \in Procs \ {p} : ~InSettings(q)'
      BY <1>3, <1>4, ActiveAt DEF Lone, InSettings, StageSet
    <3>4. QED
      BY <3>1, <3>2, <3>3
  <2>2. CASE ~InSettings(p)
    BY <1>1, <1>2, <1>3, <1>4, <2>2, SettingsKept DEF InSettings
  <2>3. QED
    BY <2>1, <2>2
<1>10. GpgInv'
  <2>1. CASE flow[p] = "gpg"
    <3> SUFFICES ASSUME ~overlap', home.gpgConf.user # "none", "gpgConf" \notin torn
                 PROVE  /\ \E q \in Procs : flow'[q] = "gpg" /\ sub'[q] = "write"
                        /\ \A q \in Procs :
                              flow'[q] = "gpg" /\ sub'[q] \in {"trunc", "write"}
                                  => snap'[q].user # "none"
      BY <1>1 DEF GpgInv
    <3>1. flow'[p] = "gpg" /\ sub'[p] = "write"
      BY <1>3, <2>1
    <3>2. snap'[p].user # "none"
      BY <1>1, <1>2, <2>1 DEF GpgInv
    <3>3. \A q \in Procs \ {p} : flow'[q] # "gpg"
      BY <1>3, <1>4, ActiveAt DEF Lone, StageSet
    <3>4. QED
      BY <3>1, <3>2, <3>3
  <2>2. CASE flow[p] # "gpg"
    BY <1>1, <1>2, <1>3, <1>4, <2>2, GpgKept
  <2>3. QED
    BY <2>1, <2>2
<1>11. SectionInv'
  BY <1>1, <1>3, <1>4, SectionKept DEF Asked, Active
<1>12. ConfigInv'
  <2>1. config' = "user" => config = "user" /\ WasTold(p)
    BY <1>2 DEF ConfigInv
  <2>2. WasTold(p) => WasTold(p)'
    BY <1>1, <1>3 DEF WasTold, Active
  <2>3. QED
    BY <1>1, <1>4, <2>1, <2>2, ConfigKept
<1>13. QED
  BY <1>5, <1>6, <1>8, <1>9, <1>10, <1>11, <1>12

(* The file is written: what the user had is in it again.                  *)
LEMMA RewriteStep ==
    ASSUME StagesInv, NEW p \in Procs,
           \/ writeConfigFile(p) \/ ApplyGPGPinentry(p)
           \/ installClaudeSandbox(p) \/ mergeSettings(p)
    PROVE  StagesInv'
<1> USE DEF StagesInv
<1>1. /\ flow[p] \in {"config", "gpg", "allow", "hook"} /\ flow[p] \in StageSet
      /\ sub[p] = "write" /\ Wanted(p, flow[p])
      /\ Leave(p) /\ snap' = [snap EXCEPT ![p] = NoSettings]
      /\ UNCHANGED <<dest, home, want, kept, shellHookPresent, claudeHookPresent,
                     sections, torn, overlap>>
  BY DEF writeConfigFile, ApplyGPGPinentry, installClaudeSandbox, mergeSettings, Written,
         At, procVars, bundleVars, StageSet
<1>2. /\ \/ flow[p] = "config" /\ config' = "ours"
         \/ flow[p] # "config" /\ config' = config
      /\ \/ /\ flow[p] = "gpg"
            /\ gpgConf' = [user |-> IF snap[p].user = "none" THEN "none" ELSE "comment",
                           ours |-> 1]
         \/ flow[p] # "gpg" /\ gpgConf' = gpgConf
      /\ \/ /\ InSettings(p)
            /\ \/ settings' = [snap[p] EXCEPT !.json = TRUE, !.allow = TRUE]
               \/ settings' = [snap[p] EXCEPT !.json = TRUE, !.hook = TRUE]
         \/ ~InSettings(p) /\ settings' = settings
  BY DEF writeConfigFile, ApplyGPGPinentry, installClaudeSandbox, mergeSettings, At,
         InSettings
<1>3. /\ flow[p] = "gpg" => snap[p] \in GpgConf /\ dest[Pinentry] # None
      /\ InSettings(p) => snap[p] \in Settings
  BY <1>1 DEF StageInv, HasRead, InSettings
<1>4. /\ flow' \in [Procs -> FlowSet] /\ flow'[p] \in StageSet \cup {"done"}
      /\ sub' \in [Procs -> {"read", "trunc", "write", "append"}] /\ sub'[p] = "read"
      /\ \A q \in Procs \ {p} : flow'[q] = flow[q] /\ sub'[q] = sub[q]
  BY <1>1, LeaveFacts
<1>5. /\ snap' \in [Procs -> Settings \cup GpgConf]
      /\ \A q \in Procs \ {p} : snap'[q] = snap[q]
  BY <1>1, Forms DEF FlowTypeOK
<1>6. Others(p) /\ Lone(p) /\ Active(p)
  BY <1>1, <1>4, <1>5, ActiveAt, LoneKept DEF Others
<1>7. /\ settings' \in Settings
      /\ InSettings(p) => settings'.json /\ settings'.user = snap[p].user
  <2>1. CASE InSettings(p)
    <3>1. snap[p] \in Settings
      BY <1>3, <2>1
    <3>2. \/ settings' = [snap[p] EXCEPT !.json = TRUE, !.allow = TRUE]
          \/ settings' = [snap[p] EXCEPT !.json = TRUE, !.hook = TRUE]
      BY <1>2, <2>1
    <3>3. QED
      BY <3>1, <3>2, Forms
  <2>2. CASE ~InSettings(p)
    BY <1>2, <2>2 DEF FlowTypeOK
  <2>3. QED
    BY <2>1, <2>2
<1>8. /\ gpgConf' \in GpgConf
      /\ flow[p] = "gpg" => (gpgConf'.user = "none" <=> snap[p].user = "none")
  <2>1. CASE flow[p] = "gpg"
    <3>1. PICK u \in {"none", "comment"} :
             gpgConf' = [user |-> u, ours |-> 1] /\ (u = "none" <=> snap[p].user = "none")
      BY <1>2, <2>1
    <3>2. QED
      BY <3>1, Forms
  <2>2. CASE flow[p] # "gpg"
    BY <1>2, <2>2 DEF FlowTypeOK
  <2>3. QED
    BY <2>1, <2>2
<1>9. config' \in {"none", "empty", "invalid", "user", "ours"}
  BY <1>2 DEF FlowTypeOK
<1>10. FlowTypeOK'
  BY <1>1, <1>4, <1>5, <1>7, <1>8, <1>9 DEF FlowTypeOK
<1>11. GpgHasPinentry'
  BY <1>1, <1>2, <1>3 DEF GpgHasPinentry
<1>12. HasRead(p)'
  BY <1>4 DEF HasRead
<1>13. StageInv' /\ AloneInv'
  BY <1>1, <1>6, <1>12, AloneKept, StageKept
<1>14. SettingsInv'
  <2>1. CASE InSettings(p)
    <3> SUFFICES ASSUME ~overlap', home.settings.json, home.settings.user,
                        "settings" \notin torn
                 PROVE  /\ settings'.json /\ settings'.user
                        /\ \A q \in Procs : ~(InSettings(q)' /\ sub'[q] \in {"trunc", "write"})
      BY <1>1 DEF SettingsInv
    <3>1. snap[p].user
      BY <1>1, <2>1 DEF SettingsInv
    <3>2. \A q \in Procs \ {p} : ~InSettings(q)'
      BY <1>4, <1>6, ActiveAt DEF Lone, InSettings, StageSet
    <3>3. QED
      BY <1>4, <1>7, <2>1, <3>1, <3>2
  <2>2. CASE ~InSettings(p)
    BY <1>1, <1>2, <1>4, <1>6, <2>2, SettingsKept
  <2>3. QED
    BY <2>1, <2>2
<1>15. GpgInv'
  <2>1. CASE flow[p] = "gpg"
    <3> SUFFICES ASSUME ~overlap', home.gpgConf.user # "none", "gpgConf" \notin torn
                 PROVE  /\ gpgConf'.user # "none"
                        /\ \A q \in Procs :
                              ~(flow'[q] = "gpg" /\ sub'[q] \in {"trunc", "write"})
      BY <1>1 DEF GpgInv
    <3>1. snap[p].user # "none"
      BY <1>1, <2>1 DEF GpgInv
    <3>2. \A q \in Procs \ {p} : flow'[q] # "gpg"
      BY <1>4, <1>6, ActiveAt DEF Lone, StageSet
    <3>3. QED
      BY <1>4, <1>8, <2>1, <3>1, <3>2
  <2>2. CASE flow[p] # "gpg"
    BY <1>1, <1>2, <1>4, <1>6, <2>2, GpgKept
  <2>3. QED
    BY <2>1, <2>2
<1>16. SectionInv'
  <2>1. Asked(p)
    BY <1>1, <1>6 DEF Asked
  <2>2. QED
    BY <1>1, <1>4, <1>6, <2>1, SectionKept
<1>17. ConfigInv'
  <2>1. config' = "user" => config = "user" /\ WasTold(p)
    BY <1>2 DEF ConfigInv
  <2>2. WasTold(p) => WasTold(p)'
    BY <1>1, <1>6 DEF WasTold
  <2>3. QED
    BY <1>1, <1>6, <2>1, <2>2, ConfigKept
<1>18. QED
  BY <1>10, <1>11, <1>13, <1>14, <1>15, <1>16, <1>17

(* A stage fails, or the process dies: what it was writing is torn.        *)
LEMMA EndStep ==
    ASSUME StagesInv, NEW p \in Procs, StageFails(p) \/ Crash(p), dest' = dest
    PROVE  StagesInv'
<1> USE DEF StagesInv
<1>1. /\ Active(p) /\ Tears(p) /\ sub' = [sub EXCEPT ![p] = "read"]
      /\ snap' = [snap EXCEPT ![p] = NoSettings]
      /\ UNCHANGED <<home, want, kept, shellHookPresent, claudeHookPresent,
                     config, settings, gpgConf, sections, overlap>>
      /\ \/ flow[p] \in StageSet /\ Leave(p)
         \/ Goto(p, "error")
  <2>1. StageFails(p) => flow[p] \in StageSet
    BY StageNames DEF StageFails, At
  <2>2. QED
    BY <2>1, ActiveAt DEF StageFails, Crash, userVars, Leave
<1>2. /\ flow' \in [Procs -> FlowSet] /\ flow'[p] \in StageSet \cup Ended
      /\ flow[p] \notin StageSet => ~Active(p)'
      /\ \A q \in Procs \ {p} : flow'[q] = flow[q]
  <2>1. CASE flow[p] \in StageSet /\ Leave(p)
    BY <2>1, LeaveFacts DEF Ended
  <2>2. CASE Goto(p, "error")
    BY <2>2, GotoFacts DEF FlowSet, Ended, Active
  <2>3. QED
    BY <1>1, <2>1, <2>2
<1>3. /\ sub' \in [Procs -> {"read", "trunc", "write", "append"}] /\ sub'[p] = "read"
      /\ snap' \in [Procs -> Settings \cup GpgConf]
      /\ \A q \in Procs \ {p} : sub'[q] = sub[q] /\ snap'[q] = snap[q]
  BY <1>1, Forms DEF FlowTypeOK
<1>4. /\ torn \subseteq torn' /\ torn' \subseteq {"config", "settings", "gpgConf"}
      /\ InSettings(p) /\ sub[p] = "write" => "settings" \in torn'
      /\ flow[p] = "gpg" /\ sub[p] = "write" => "gpgConf" \in torn'
  BY <1>1 DEF Tears, Target, InSettings, FlowTypeOK
<1>5. Others(p) /\ Lone(p)
  BY <1>1, <1>2, <1>3, LoneKept DEF Others
<1>6. FlowTypeOK'
  BY <1>1, <1>2, <1>3, <1>4 DEF FlowTypeOK
<1>7. GpgHasPinentry'
  BY <1>1 DEF GpgHasPinentry
<1>8. StageInv' /\ AloneInv'
  BY <1>3, <1>5, AloneKept, StageKept DEF HasRead
<1>9. SettingsInv' /\ GpgInv'
  BY <1>1, <1>3, <1>4, <1>5, SettingsKept, GpgKept
<1>10. SectionInv'
  <2>1. Asked(p)' => Asked(p)
    BY <1>1, <1>2 DEF Asked, StageSet
  <2>2. QED
    BY <1>1, <1>3, <1>5, <2>1, SectionKept
<1>11. ConfigInv'
  <2>1. config = "user" => WasTold(p)
    BY DEF ConfigInv
  <2>2. WasTold(p) => WasTold(p)'
    BY <1>1 DEF WasTold
  <2>3. QED
    BY <1>1, <1>5, <2>1, <2>2, ConfigKept
<1>12. QED
  BY <1>6, <1>7, <1>8, <1>9, <1>10, <1>11

(* The extraction changes no file of the user's, and takes no binary away. *)
LEMMA ExtractStages ==
    ASSUME StagesInv, UNCHANGED flowVars, dest[Pinentry] # None => dest'[Pinentry] # None
    PROVE  StagesInv'
<1> USE DEF StagesInv, flowVars, userVars
<1>1. FlowTypeOK' /\ GpgHasPinentry'
  BY DEF FlowTypeOK, GpgHasPinentry
<1>2. StageInv' /\ AloneInv'
  BY DEF StageInv, HasRead, AloneInv, Active
<1>3. SettingsInv' /\ GpgInv'
  BY DEF SettingsInv, InSettings, GpgInv
<1>4. SectionInv' /\ ConfigInv'
  BY DEF SectionInv, ConfigInv, WasTold, Active
<1>5. QED
  BY <1>1, <1>2, <1>3, <1>4

-----------------------------------------------------------------------------
(* The invariant.                                                          *)
LEMMA BundleInitInv == Init => BundleInv
<1> SUFFICES ASSUME Init PROVE BundleInv
  OBVIOUS
<1>1. /\ step = [p \in Procs |-> "idle"] /\ offset = [p \in Procs |-> 0]
      /\ open = [p \in Procs |-> None]
  BY DEF Init, BundleInit
<1>2. OpenInv
  <2>1. ASSUME NEW p \in Procs PROVE open[p] = None
    BY <1>1
  <2>2. ASSUME NEW p \in Procs PROVE step[p] # "rename"
    BY <1>1
  <2>3. ASSUME NEW p \in Procs PROVE offset[p] = 0
    BY <1>1
  <2>4. ASSUME NEW p \in Procs PROVE ~(offset[p] > 0)
    BY <2>3
  <2>5. QED
    BY <2>1, <2>2, <2>4 DEF OpenInv
<1> USE DEF Init, BundleInit
<1>3. BundleTypeOK
  BY BundleAssumption DEF BundleTypeOK, Steps
<1>4. ASSUME NEW e \in Entries PROVE WriterInv(e) /\ InodeInv(e)
  <2>1. \A p \in Procs : ~Writing(p, e)
    BY DEF Writing
  <2>2. dest[e] \notin Procs /\ tmp[e] = None
    BY FileAssumption
  <2>3. QED
    BY <2>1, <2>2 DEF WriterInv, InodeInv
<1>5. AgreedInv
  BY DEF AgreedInv
<1>6. QED
  BY <1>2, <1>3, <1>4, <1>5 DEF BundleInv, TmpInv

LEMMA StagesInitInv == Init => StagesInv
<1> SUFFICES ASSUME Init PROVE StagesInv
  OBVIOUS
<1>1. /\ want \in [Procs -> Wants] /\ home \in Homes
      /\ config = home.config /\ settings = home.settings /\ gpgConf = home.gpgConf
      /\ flow = [p \in Procs |-> "idle"] /\ sub = [p \in Procs |-> "read"]
      /\ kept = [p \in Procs |-> FALSE] /\ snap = [p \in Procs |-> NoSettings]
      /\ shellHookPresent = [p \in Procs |-> FALSE]
      /\ claudeHookPresent = [p \in Procs |-> FALSE]
      /\ sections = [f \in Sections |-> 0] /\ overlap = FALSE /\ torn = {}
      /\ dest[Pinentry] = home.binaries
  BY BundleAssumption DEF Init
<1>2. /\ home.config \in {"none", "empty", "invalid", "user", "ours"}
      /\ home.settings \in Settings /\ home.gpgConf \in GpgConf
      /\ home.gpgConf.ours > 0 => home.binaries # None
  BY <1>1, FlowAssumption
<1>3. FlowTypeOK
  BY <1>1, <1>2, Forms DEF FlowTypeOK, FlowSet
<1>4. GpgHasPinentry
  BY <1>1, <1>2 DEF GpgHasPinentry
<1>5. StageInv /\ AloneInv
  BY <1>1 DEF StageInv, HasRead, AloneInv, Active
<1>6. SettingsInv /\ GpgInv
  BY <1>1 DEF SettingsInv, GpgInv
<1>7. SectionInv /\ ConfigInv
  BY <1>1 DEF SectionInv, ConfigInv, WasTold, Active
<1>8. QED
  BY <1>3, <1>4, <1>5, <1>6, <1>7 DEF StagesInv

(* ExtractBundled starts with a list that is not empty.                    *)
LEMMA ListFacts ==
    ASSUME FlowTypeOK, NEW p \in Procs
    PROVE  /\ <<Pinentry>> \o want[p].plugins \in Seq(Entries)
           /\ <<Pinentry>> \o want[p].plugins # <<>>
<1>1. want[p].plugins \in Seq(Entries) /\ <<Pinentry>> \in Seq(Entries)
  BY WantFacts, BundleAssumption
<1>2. Len(<<Pinentry>> \o want[p].plugins) = 1 + Len(want[p].plugins)
      /\ Len(want[p].plugins) \in Nat
  BY <1>1
<1>3. QED
  BY <1>1, <1>2

LEMMA NextInv == IInv /\ [Next]_vars => IInv'
<1> SUFFICES ASSUME IInv, [Next]_vars PROVE IInv'
  OBVIOUS
<1> USE DEF IInv
<1>1. CASE UNCHANGED vars
  BY <1>1, BundleKept, ExtractStages DEF vars, bundleVars
<1>2. ASSUME NEW p \in Procs,
             \/ RunInit(p) \/ RunUpdate(p) \/ RunConfigPinentry(p)
             \/ Select(p) \/ Consent(p) \/ EmptyBundle(p) \/ Extracted(p)
      PROVE  IInv'
  <2>1. UNCHANGED bundleVars
    BY <1>2 DEF RunInit, RunUpdate, RunConfigPinentry, Select, Consent, EmptyBundle,
                Extracted
  <2>2. QED
    BY <1>2, <2>1, BundleKept, BeginStep, ChooseStep
<1>3. ASSUME NEW p \in Procs,
             \/ \E f \in Sections : AppendIfAbsent(p, f) \/ Append_(p, f)
             \/ ReadGpgConf(p) \/ \E stage \in {"allow", "hook"} : ReadSettings(p, stage)
             \/ Truncate(p)
             \/ writeConfigFile(p) \/ ApplyGPGPinentry(p)
             \/ installClaudeSandbox(p) \/ mergeSettings(p)
      PROVE  IInv'
  <2>1. UNCHANGED bundleVars
    BY <1>3 DEF AppendIfAbsent, Append_, ReadGpgConf, ReadSettings, Truncate,
                writeConfigFile, ApplyGPGPinentry, installClaudeSandbox, mergeSettings,
                Written, procVars
  <2>2. QED
    BY <1>3, <2>1, BundleKept, AppendStep, ReadStep, TruncateStep, RewriteStep
<1>4. ASSUME NEW p \in Procs, ExtractBundled(p) PROVE IInv'
  <2>1. /\ Extract(p, <<Pinentry>> \o want[p].plugins) /\ UNCHANGED flowVars
    BY <1>4 DEF ExtractBundled
  <2>2. BundleInv'
    BY <2>1, ListFacts, ExtractBegins DEF StagesInv
  <2>3. StagesInv'
    BY <2>1, ExtractStages DEF Extract
  <2>4. QED
    BY <2>2, <2>3
<1>5. ASSUME NEW p \in Procs, Extracting(p) PROVE IInv'
  <2>1. ExtractStep(p) /\ UNCHANGED flowVars
    BY <1>5 DEF Extracting
  <2>2. dest[Pinentry] # None => dest'[Pinentry] # None
    BY <2>1, FilesStay, BundleAssumption, FileAssumption DEF BundleInv
  <2>3. QED
    BY <2>1, <2>2, BundleStep, ExtractStages
<1>6. ASSUME NEW p \in Procs, StageFails(p) \/ Crash(p) PROVE IInv'
  <2>1. ExtractCrash(p) \/ UNCHANGED bundleVars
    BY <1>6 DEF StageFails, Crash
  <2>2. BundleInv' /\ dest' = dest
    BY <2>1, CrashStep, BundleKept DEF bundleVars
  <2>3. QED
    BY <1>6, <2>2, EndStep
<1>7. QED
  BY <1>1, <1>2, <1>3, <1>4, <1>5, <1>6 DEF Next

(* What holds in every state of any number of commands, also if they fail  *)
(* or die: one process at a time writes a temporary file that is not       *)
(* installed, and while one command edits the user's files, what it        *)
(* emptied it has read.                                                    *)
THEOREM InitInvariance == Spec => []IInv
<1>1. Init => IInv
  BY BundleInitInv, StagesInitInv DEF IInv
<1>2. QED
  BY <1>1, NextInv, PTL DEF Spec

(* extract.go: what is installed is whole and gpg-agent's pinentry is      *)
(* there, whoever crashes while a binary is written, and however many      *)
(* processes extract, so long as no two had one temporary file open.       *)
THEOREM InstallationAlwaysWorks == Spec => []InstallationWorks
<1>1. IInv => InstallationWorks
  <2> SUFFICES ASSUME IInv PROVE InstallationWorks
    OBVIOUS
  <2>1. TypeOK
    BY TypeParts DEF IInv, BundleInv, StagesInv
  <2>2. InstalledWhole
    BY DEF IInv, BundleInv, TmpInv, InodeInv, InstalledWhole
  <2>3. QED
    BY <2>1, <2>2 DEF IInv, StagesInv, InstallationWorks
<1>2. QED
  BY <1>1, InitInvariance, PTL

(* apply.go: a command that fails or dies between two files loses nothing  *)
(* of the user's but what it was writing, and running init again does not  *)
(* append a section twice.                                                 *)
THEOREM UserFilesAlwaysKept == Spec => []UserFilesKept
<1>1. IInv => UserFilesKept
  <2> SUFFICES ASSUME IInv PROVE UserFilesKept
    OBVIOUS
  <2>1. UserDataKept
    <3> SUFFICES ASSUME ~overlap, \A p \in Procs : Active(p) => sub[p] # "write"
                 PROVE  /\ home.settings.json /\ home.settings.user /\ "settings" \notin torn
                              => settings.user
                        /\ home.gpgConf.user # "none" /\ "gpgConf" \notin torn
                              => gpgConf.user # "none"
      BY DEF UserDataKept
    <3>1. \A p \in Procs : InSettings(p) \/ flow[p] = "gpg" => sub[p] # "write"
      BY ActiveAt DEF InSettings, StageSet
    <3>2. QED
      BY <3>1 DEF IInv, StagesInv, SettingsInv, GpgInv
  <2>2. OneSectionEach
    BY DEF IInv, StagesInv, SectionInv, OneSectionEach
  <2>3. QED
    BY <2>1, <2>2 DEF UserFilesKept
<1>2. QED
  BY <1>1, InitInvariance, PTL

(* resolve.go and flow.go: a file that is not the bundle's and a           *)
(* configuration that is valid are replaced only by a process whose user   *)
(* agreed to it.                                                           *)
THEOREM ConsentAlwaysRespected == Spec => ConsentRespected
<1>1. IInv /\ [Next]_vars =>
          [\A e \in Entries :
              dest[e] = Other /\ dest'[e] # Other => \E p \in Procs : <<p, e>> \in agreed]_dest
  <2> SUFFICES ASSUME IInv, [Next]_vars, NEW e \in Entries,
                      dest[e] = Other, dest'[e] # Other
               PROVE  \E p \in Procs : <<p, e>> \in agreed
    OBVIOUS
  <2>1. Next
    BY DEF vars, bundleVars
  <2>2. PICK q \in Procs : ExtractStep(q)
    <3>1. ~UNCHANGED bundleVars
      BY DEF bundleVars
    <3>2. PICK q \in Procs : \/ ExtractBundled(q) \/ Extracting(q) \/ Extracted(q)
                             \/ StageFails(q) \/ Crash(q)
      BY <2>1, <3>1 DEF Next, RunInit, RunUpdate, RunConfigPinentry, Select, Consent,
             EmptyBundle, AppendIfAbsent, Append_, ReadGpgConf, ReadSettings, Truncate,
             writeConfigFile, ApplyGPGPinentry, installClaudeSandbox, mergeSettings,
             Written, procVars
    <3>3. ~ExtractBundled(q) /\ ~Extracted(q) /\ ~StageFails(q) /\ ~Crash(q)
      BY <3>1 DEF ExtractBundled, Extract, Extracted, StageFails, Crash, ExtractCrash,
             procVars, bundleVars
    <3>4. QED
      BY <3>2, <3>3 DEF Extracting
  <2>3. Rename(q) /\ e = Entry(q)
    BY <2>2, FilesStay DEF IInv, BundleInv
  <2>4. QED
    BY <2>3 DEF Rename, IInv, BundleInv, AgreedInv
<1>2. IInv /\ [Next]_vars =>
          [config = "user" /\ config' # "user" =>
              \E p \in Procs : /\ flow[p] = "config" /\ want[p].kind = "init"
                              /\ want[p].action = "overwrite"]_vars
  <2> SUFFICES ASSUME IInv, [Next]_vars, config = "user", config' # "user"
               PROVE  \E p \in Procs : /\ flow[p] = "config" /\ want[p].kind = "init"
                                       /\ want[p].action = "overwrite"
    OBVIOUS
  <2>1. PICK p \in Procs : Truncate(p) \/ writeConfigFile(p)
    BY DEF Next, vars, RunInit, RunUpdate, RunConfigPinentry, Select, Consent, EmptyBundle,
           Extracted, AppendIfAbsent, Append_, ReadGpgConf, ReadSettings,
           ApplyGPGPinentry, installClaudeSandbox, mergeSettings, ExtractBundled,
           Extracting, StageFails, Crash, flowVars, userVars
  <2>2. flow[p] = "config" /\ Wanted(p, "config")
    BY <2>1 DEF Truncate, writeConfigFile, At
  <2>3. Active(p) /\ want[p].kind \in {"auto", "init"} /\ ~kept[p]
    BY <2>2, ActiveAt DEF Wanted, StageSet
  <2>4. WasTold(p)
    BY DEF IInv, StagesInv, ConfigInv
  <2>5. QED
    BY <2>2, <2>3, <2>4 DEF WasTold
<1>3. QED
  BY <1>1, <1>2, InitInvariance, PTL
     DEF Spec, ConsentRespected, OverwrittenOnlyIfAgreed, ValidConfigKept

-----------------------------------------------------------------------------
(* What init delivers.  A process that is alone finds each entry of its    *)
(* list still to come or settled, and each stage behind it done.           *)

Inits(p) == want[p].kind \in {"auto", "init"}

Mid == {"check", "ask", "write", "verify", "rename"}

Listed(p) == {Pinentry} \cup {want[p].plugins[i] : i \in DOMAIN want[p].plugins}
Rest(s)   == {s[i] : i \in DOMAIN s}

(* How a process's extraction goes with its stage.                         *)
LegInv(p) ==
    /\ step[p] \in Mid => flow[p] = "extract"
    /\ flow[p] \in {"idle", "select", "consent"} => step[p] = "idle"
    /\ step[p] = "idle" => \A e \in Entries : <<p, e>> \notin agreed
    /\ step[p] = "done" => names[p] = <<>>
    /\ flow[p] \in StageSet \cup {"done"} /\ Inits(p) /\ ~home.emptyBundle =>
          step[p] = "done"

(* It is the bundle's, or was there and may stay.                          *)
Settled(p, e) == Whole(e, dest[e]) \/ (dest[e] # None /\ <<p, e>> \notin agreed)

Extracts(p) ==
    /\ step[p] \in Mid \cup {"done"} =>
          \A e \in Listed(p) : e \in Rest(names[p]) \/ Settled(p, e)
    /\ \A e \in Entries : <<p, e>> \in agreed =>
          \/ Whole(e, dest[e]) \/ step[p] = "error"
          \/ step[p] \in {"write", "verify", "rename"} /\ Entry(p) = e
    /\ step[p] = "ask" => dest[Entry(p)] # None /\ ~Whole(Entry(p), dest[Entry(p)])

(* The settings, also while p rewrites their file.                         *)
Held(p) == IF InSettings(p) /\ sub[p] = "write" THEN snap[p] ELSE settings

Stands(p, stage) ==
    /\ stage = "config" => config = "ours"
    /\ stage \in {"claudeMd", "agentsMd", "policy"} => sections[stage] > 0
    /\ stage = "allow" => Held(p).json /\ Held(p).allow
    /\ stage = "hook" => Held(p).json /\ Held(p).hook

Index(p) == IF flow[p] = "done" THEN 9 ELSE Place(flow[p])

Behind(p) ==
    flow[p] \in StageSet \cup {"done"} =>
        \A j \in 1 .. (Index(p) - 1) : Wanted(p, Stages[j]) => Stands(p, Stages[j])

Applies(p) ==
    /\ Behind(p)
    /\ InSettings(p) /\ sub[p] = "trunc" /\ settings.json => snap[p] = settings
    /\ claudeHookPresent[p] /\ flow[p] \in {"extract", "done"} \cup StageSet =>
          Stands(p, "hook")

DeliverInv ==
    /\ \A p \in Procs : LegInv(p)
    /\ ~overlap =>
          /\ clash = {}
          /\ \A p \in Procs : Active(p) /\ Inits(p) => Extracts(p) /\ Applies(p)

(* A step of p leaves the others where they are, and keeps all this for p, *)
(* also if it is the last.                                                 *)
Apart(p) ==
    /\ UNCHANGED <<home, want>>
    /\ \A q \in Procs \ {p} : /\ flow'[q] = flow[q] /\ step'[q] = step[q]
                              /\ names'[q] = names[q]
                              /\ \A e \in Entries :
                                    <<q, e>> \in agreed' <=> <<q, e>> \in agreed

Progress(p) ==
    /\ Apart(p) /\ Lone(p) /\ LegInv(p)'
    /\ ~overlap' => clash' = {}
    /\ Inits(p) /\ flow'[p] = "done" => overlap' = overlap
    /\ ~overlap' /\ Inits(p) /\ (Active(p)' \/ flow'[p] = "done") =>
          Extracts(p)' /\ Applies(p)'

LEMMA ProgressKeeps ==
    ASSUME DeliverInv, NEW p \in Procs, Progress(p)
    PROVE  DeliverInv'
<1>1. ASSUME NEW q \in Procs \ {p} PROVE LegInv(q)'
  BY DEF Progress, Apart, LegInv, DeliverInv, Inits
<1>2. ASSUME ~overlap', NEW q \in Procs, Active(q)', Inits(q)'
      PROVE  Extracts(q)' /\ Applies(q)'
  <2>1. q = p
    BY <1>2 DEF Progress, Apart, Lone, Active
  <2>2. QED
    BY <1>2, <2>1 DEF Progress, Apart, Inits
<1>3. QED
  BY <1>1, <1>2 DEF Progress, DeliverInv

(* The extraction: the entry at hand is settled, dropped or gone on with.  *)
LEMMA RestFacts ==
    ASSUME NEW s \in Seq(Entries), s # <<>>
    PROVE  Rest(s) = {Head(s)} \cup Rest(Tail(s))
<1>1. /\ Len(s) \in Nat \ {0} /\ DOMAIN s = 1 .. Len(s)
      /\ DOMAIN Tail(s) = 1 .. (Len(s) - 1)
      /\ Head(s) = s[1]
      /\ \A i \in 1 .. (Len(s) - 1) : Tail(s)[i] = s[i + 1]
  OBVIOUS
<1>2. ASSUME NEW x \in Rest(s) PROVE x \in {Head(s)} \cup Rest(Tail(s))
  <2>1. PICK i \in 1 .. Len(s) : x = s[i]
    BY <1>1 DEF Rest
  <2>2. CASE i = 1
    BY <1>1, <2>1, <2>2
  <2>3. CASE i # 1
    <3>1. i - 1 \in 1 .. (Len(s) - 1) /\ (i - 1) + 1 = i
      BY <1>1, <2>3
    <3>2. Tail(s)[i - 1] = x
      BY <1>1, <2>1, <3>1
    <3>3. QED
      BY <1>1, <3>1, <3>2 DEF Rest
  <2>4. QED
    BY <2>2, <2>3
<1>3. Head(s) \in Rest(s)
  BY <1>1 DEF Rest
<1>4. ASSUME NEW x \in Rest(Tail(s)) PROVE x \in Rest(s)
  <2>1. PICK i \in 1 .. (Len(s) - 1) : x = Tail(s)[i]
    BY <1>1 DEF Rest
  <2>2. x = s[i + 1] /\ i + 1 \in 1 .. Len(s)
    BY <1>1, <2>1
  <2>3. QED
    BY <1>1, <2>2 DEF Rest
<1>5. QED
  BY <1>2, <1>3, <1>4

LEMMA ListedFacts ==
    ASSUME FlowTypeOK, NEW p \in Procs
    PROVE  Rest(<<Pinentry>> \o want[p].plugins) = Listed(p) /\ Listed(p) \subseteq Entries
<1> DEFINE t == want[p].plugins
           s == <<Pinentry>> \o t
<1>1. t \in Seq(Entries) /\ Pinentry \in Entries
  BY WantFacts, BundleAssumption
<1>2. s \in Seq(Entries) /\ s # <<>> /\ Head(s) = Pinentry
  BY <1>1, ListFacts
<1>3. Tail(s) = t
  <2>1. /\ Len(s) = Len(t) + 1 /\ Len(t) \in Nat
        /\ \A i \in 1 .. Len(t) : s[i + 1] = t[i]
    BY <1>1
  <2> HIDE DEF s
  <2>2. Tail(s) \in Seq(Entries) /\ Len(Tail(s)) = Len(t)
    BY <1>2, <2>1
  <2>3. \A i \in 1 .. Len(t) : Tail(s)[i] = t[i]
    BY <1>2, <2>1
  <2>4. QED
    BY <1>1, <2>2, <2>3
<1>4. Rest(t) \subseteq Entries
  BY <1>1 DEF Rest
<1>5. Rest(s) = {Pinentry} \cup Rest(t)
  BY <1>2, <1>3, RestFacts
<1> HIDE DEF s
<1>6. QED
  BY <1>1, <1>4, <1>5 DEF s, Listed, Rest

(* What one step does to the entry at hand, and to another one.            *)
LEMMA EntryAtHand ==
    ASSUME BundleInv, clash = {}, NEW p \in Procs, ExtractStep(p), Extracts(p),
           NEW e \in Entries, e = Entry(p)
    PROVE  \/ step'[p] = "error"
           \/ Advance(p) /\ Settled(p, e)' /\ (<<p, e>> \in agreed' => Whole(e, dest[e])')
           \/ names' = names /\ step'[p] \in {"write", "verify", "rename"}
           \/ /\ names' = names /\ step[p] = "check" /\ step'[p] = "ask"
              /\ UNCHANGED <<dest, content, agreed>>
              /\ dest[e] # None /\ ~Whole(e, dest[e])
<1>1. BundleTypeOK /\ OpenInv /\ WriterInv(e)
  BY DEF BundleInv, TmpInv
<1>2. CASE Check(p)
  <2>1. step[p] = "check" /\ UNCHANGED <<dest, content>>
    BY <1>2 DEF Check
  <2>2. \/ Quit(p)
        \/ Advance(p) /\ Whole(e, dest[e])
        \/ To(p, "ask") /\ ~Whole(e, dest[e]) /\ dest[e] # None /\ agreed' = agreed
        \/ To(p, "write")
    BY <1>2 DEF Check
  <2>3. Whole(e, dest[e]) => Whole(e, dest[e])'
    BY <2>1 DEF Whole
  <2>4. QED
    BY <1>1, <2>1, <2>2, <2>3, QuitFacts, ToFacts DEF Settled, Steps
<1>3. CASE Resolve(p)
  <2>1. step[p] = "ask" /\ UNCHANGED <<dest, content>>
    BY <1>3 DEF Resolve
  <2>2. (Advance(p) /\ agreed' = agreed) \/ To(p, "write")
    BY <1>3 DEF Resolve, Keeps
  <2>3. dest[e] # None /\ <<p, e>> \notin agreed
    BY <2>1 DEF Extracts
  <2>4. QED
    BY <1>1, <2>1, <2>2, <2>3, ToFacts DEF Settled, Steps
<1>4. CASE ResolveFails(p) \/ OpenTmpFails(p) \/ WriteFails(p) \/ RenameFails(p)
  BY <1>1, <1>4, QuitFacts DEF ResolveFails, OpenTmpFails, WriteFails, RenameFails
<1>5. CASE OpenTmp(p) \/ WriteChunk(p)
  BY <1>5 DEF OpenTmp, WriteChunk
<1>6. CASE CloseTmp(p) \/ Verify(p)
  BY <1>1, <1>6, QuitFacts, ToFacts DEF CloseTmp, Verify, Steps
<1>7. CASE Rename(p)
  <2>1. step[p] = "rename" /\ Advance(p) /\ content' = content
    BY <1>7 DEF Rename
  <2>2. Writing(p, e) /\ e \notin Corrupt
    BY <1>1, <2>1 DEF Writing, OpenInv
  <2>3. PICK f \in Procs : f = tmp[e] /\ content[<<f, e>>] = 1 .. Chunks
    BY <1>1, <2>1, <2>2 DEF WriterInv, BundleTypeOK
  <2>4. dest'[e] = f
    BY <1>1, <1>7, <2>3 DEF Rename, BundleTypeOK
  <2>5. Whole(e, dest[e])'
    BY <2>1, <2>3, <2>4 DEF Whole
  <2>6. QED
    BY <2>1, <2>5 DEF Settled
<1>8. QED
  BY <1>2, <1>3, <1>4, <1>5, <1>6, <1>7 DEF ExtractStep

LEMMA EntriesApart ==
    ASSUME BundleTypeOK, NEW p \in Procs, ExtractStep(p)
    PROVE  /\ step[p] \in Mid /\ names[p] \in Seq(Entries) /\ names[p] # <<>>
           /\ Entry(p) \in Entries
           /\ \A q \in Procs, d \in Entries :
                 q # p \/ d # Entry(p) => (<<q, d>> \in agreed' <=> <<q, d>> \in agreed)
           /\ \A d \in Entries \ {Entry(p)} :
                 /\ Settled(p, d) => Settled(p, d)'
                 /\ Whole(d, dest[d]) => Whole(d, dest[d])'
<1>1. step[p] \in Mid /\ names[p] \in Seq(Entries) /\ names[p] # <<>>
      /\ Entry(p) \in Entries
  BY EntryType DEF Mid, ExtractStep, Check, Resolve, ResolveFails, OpenTmp,
                   OpenTmpFails, WriteChunk, CloseTmp, Verify, WriteFails, Rename, RenameFails
<1>2. agreed' = agreed \/ agreed' = agreed \cup {<<p, Entry(p)>>}
  BY DEF ExtractStep, Check, Resolve, ResolveFails, OpenTmp, OpenTmpFails,
         WriteChunk, CloseTmp, Verify, WriteFails, Rename, RenameFails
<1>3. \A q \in Procs, d \in Entries :
          q # p \/ d # Entry(p) => (<<q, d>> \in agreed' <=> <<q, d>> \in agreed)
  BY <1>2
<1>4. ASSUME NEW d \in Entries \ {Entry(p)}
      PROVE  /\ dest'[d] = dest[d]
             /\ \A f \in Procs : content'[<<f, d>>] = content[<<f, d>>]
  <2>1. dest'[d] = dest[d]
    BY FilesStay
  <2>2. \/ content' = content
        \/ \E f \in Procs, new \in SUBSET (1 .. Chunks) :
              content' = [content EXCEPT ![<<f, Entry(p)>>] = new]
    <3>1. CASE OpenTmp(p)
      <4>1. (IF tmp[Entry(p)] = None THEN p ELSE tmp[Entry(p)]) \in Procs
        BY <1>1 DEF BundleTypeOK
      <4>2. QED
        BY <3>1, <4>1 DEF OpenTmp
    <3>2. CASE WriteChunk(p)
      <4> DEFINE new == content[<<open[p], Entry(p)>>] \cup
                           IF Entry(p) \in Corrupt THEN {} ELSE {offset[p] + 1}
      <4>1. open[p] \in Procs /\ content' = [content EXCEPT ![<<open[p], Entry(p)>>] = new]
        BY <3>2 DEF WriteChunk, BundleTypeOK
      <4>2. content' \in [Procs \X Entries -> SUBSET (1 .. Chunks)]
        BY BundleTypeStep DEF BundleTypeOK
      <4>3. <<open[p], Entry(p)>> \in Procs \X Entries
        BY <1>1, <4>1
      <4> HIDE DEF new
      <4>4. content'[<<open[p], Entry(p)>>] = new
        BY <4>1, <4>3 DEF BundleTypeOK
      <4>5. new \in SUBSET (1 .. Chunks)
        BY <4>2, <4>3, <4>4
      <4>6. QED
        BY <4>1, <4>5
    <3>3. QED
      BY <3>1, <3>2 DEF ExtractStep, Check, Resolve, ResolveFails, OpenTmpFails,
                        CloseTmp, Verify, WriteFails, Rename, RenameFails
  <2>3. QED
    BY <1>1, <2>1, <2>2 DEF BundleTypeOK
<1>5. ASSUME NEW d \in Entries \ {Entry(p)}
      PROVE  /\ Settled(p, d) => Settled(p, d)'
             /\ Whole(d, dest[d]) => Whole(d, dest[d])'
  <2>1. dest'[d] = dest[d]
    BY <1>4
  <2>2. Whole(d, dest[d]) => Whole(d, dest[d])'
    BY <1>4, <2>1 DEF Whole
  <2>3. QED
    BY <1>3, <2>1, <2>2 DEF Settled
<1>6. QED
  BY <1>1, <1>3, <1>5

LEMMA ExtractsGoesOn ==
    ASSUME BundleInv, FlowTypeOK, clash = {}, NEW p \in Procs, ExtractStep(p),
           Extracts(p), want' = want
    PROVE  Extracts(p)'
<1>1. BundleTypeOK
  BY DEF BundleInv
<1>2. PICK e \in Entries : e = Entry(p)
  BY <1>1, EntriesApart
<1>3. step[p] \in Mid /\ names[p] \in Seq(Entries) /\ names[p] # <<>>
  BY <1>1, EntriesApart
<1>4. Listed(p)' = Listed(p) /\ Listed(p) \subseteq Entries
  BY ListedFacts DEF Listed
<1>5. ASSUME NEW d \in Entries \ {e}
      PROVE  /\ Settled(p, d) => Settled(p, d)'
             /\ Whole(d, dest[d]) => Whole(d, dest[d])'
             /\ <<p, d>> \in agreed' => Whole(d, dest[d])'
  <2>1. /\ Settled(p, d) => Settled(p, d)'
        /\ Whole(d, dest[d]) => Whole(d, dest[d])'
        /\ <<p, d>> \in agreed' => <<p, d>> \in agreed
    BY <1>1, <1>2, EntriesApart
  <2>2. <<p, d>> \in agreed => Whole(d, dest[d])
    BY <1>2, <1>3 DEF Extracts, Mid
  <2>3. QED
    BY <2>1, <2>2
<1>6. Rest(names[p]) = {e} \cup Rest(Tail(names[p]))
  BY <1>2, <1>3, RestFacts DEF Entry
<1>7. \A d \in Listed(p) : d \in Rest(names[p]) \/ Settled(p, d)
  BY <1>3 DEF Extracts
<1>8. CASE step'[p] = "error"
  BY <1>8 DEF Extracts, Mid
<1>9. CASE Advance(p) /\ Settled(p, e)' /\ (<<p, e>> \in agreed' => Whole(e, dest[e])')
  <2>1. names'[p] = Tail(names[p]) /\ step'[p] \in {"done", "check"}
    BY <1>1, <1>3, <1>9, AdvanceFacts DEF Advance, BundleTypeOK
  <2>2. Rest(names[p])' = Rest(Tail(names[p]))
    BY <2>1 DEF Rest
  <2>3. \A d \in Listed(p) : d \in Rest(names[p])' \/ Settled(p, d)'
    BY <1>4, <1>5, <1>6, <1>7, <1>9, <2>2
  <2>4. \A d \in Entries : <<p, d>> \in agreed' => Whole(d, dest[d])'
    BY <1>5, <1>9
  <2>5. QED
    BY <1>4, <2>1, <2>3, <2>4 DEF Extracts
<1>10. CASE names' = names /\ step'[p] \in {"write", "verify", "rename", "ask"}
            /\ (step'[p] = "ask" => /\ step[p] = "check"
                                    /\ UNCHANGED <<dest, content, agreed>>
                                    /\ dest[e] # None /\ ~Whole(e, dest[e]))
  <2>1. Rest(names[p])' = Rest(names[p]) /\ Entry(p)' = e
    BY <1>2, <1>10 DEF Rest, Entry
  <2>2. \A d \in Listed(p) : d \in Rest(names[p])' \/ Settled(p, d)'
    BY <1>4, <1>5, <1>6, <1>7, <2>1
  <2>3. step'[p] = "ask" => dest'[e] # None /\ ~Whole(e, dest[e])' /\ <<p, e>> \notin agreed'
    BY <1>2, <1>3, <1>10 DEF Whole, Extracts, Mid
  <2>4. \A d \in Entries : <<p, d>> \in agreed' =>
           Whole(d, dest[d])' \/ (step'[p] \in {"write", "verify", "rename"} /\ d = e)
    BY <1>5, <1>10, <2>3
  <2>5. step'[p] = "ask" => dest'[Entry(p)'] # None /\ ~Whole(Entry(p), dest[Entry(p)])'
    BY <2>1, <2>3 DEF Whole
  <2>6. QED
    BY <1>4, <2>1, <2>2, <2>4, <2>5 DEF Extracts
<1>11. QED
  BY <1>2, <1>8, <1>9, <1>10, EntryAtHand

(* The stages: what p leaves behind it stays.                              *)
LEMMA PlaceIs ==
    /\ \A i, j \in 1 .. 8 : Stages[i] = Stages[j] => i = j
    /\ \A i \in 1 .. 8 : Place(Stages[i]) = i
    /\ Stages[1] = "config" /\ Stages[3] = "claudeMd" /\ Stages[4] = "allow"
    /\ Stages[5] = "hook" /\ Stages[6] = "agentsMd" /\ Stages[7] = "policy"
<1>1. \A i, j \in 1 .. 8 : Stages[i] = Stages[j] => i = j
  BY DEF Stages
<1>2. ASSUME NEW i \in 1 .. 8 PROVE Place(Stages[i]) = i
  BY <1>1, StageNames, PlaceFacts
<1>3. QED
  BY <1>1, <1>2 DEF Stages

WantedStill == UNCHANGED <<want, kept, shellHookPresent, claudeHookPresent>>

LEMMA WantedSame ==
    ASSUME WantedStill, NEW p \in Procs, NEW s
    PROVE  Wanted(p, s)' = Wanted(p, s)
BY DEF WantedStill, Wanted, Claude, Codex

(* What the settings have stays, also while they are rewritten.            *)
HeldStays(p) ==
    /\ Held(p).json /\ Held(p).allow => Held(p)'.json /\ Held(p)'.allow
    /\ Held(p).json /\ Held(p).hook => Held(p)'.json /\ Held(p)'.hook

FilesStand(p) ==
    /\ HeldStays(p)
    /\ \A f \in Sections : sections[f] > 0 => sections'[f] > 0
    /\ config' = config \/ flow[p] = "config"

LEMMA StandsStill ==
    ASSUME NEW p \in Procs, FilesStand(p), NEW s \in StageSet, Stands(p, s),
           s # "config" \/ flow[p] # "config"
    PROVE  Stands(p, s)'
BY DEF Stands, FilesStand, HeldStays, Sections

LEMMA BehindStays ==
    ASSUME NEW p \in Procs, FilesStand(p), Behind(p), flow[p] \in StageSet,
           NEW j \in 1 .. (Place(flow[p]) - 1), Wanted(p, Stages[j])
    PROVE  Stands(p, Stages[j])'
<1>1. flow[p] # "done"
  BY DEF StageSet
<1>2. Place(flow[p]) \in 1 .. 8 /\ Stages[Place(flow[p])] = flow[p] /\ j \in 1 .. 8
  BY PlaceFacts
<1>3. Stands(p, Stages[j])
  BY <1>1 DEF Behind, Index
<1>4. Stages[j] # flow[p] /\ Stages[j] \in StageSet
  BY <1>2, PlaceIs, StageNames
<1>5. QED
  BY <1>3, <1>4, StandsStill

(* On to the next stage, from the i-th on.                                 *)
LEMMA Onward ==
    ASSUME NEW p \in Procs, NEW i \in 1 .. 9, WantedStill, flow'[p] = StageFrom(p, i),
           \A j \in 1 .. (i - 1) : Wanted(p, Stages[j]) => Stands(p, Stages[j])'
    PROVE  flow'[p] \in StageSet \cup {"done"} /\ Behind(p)'
<1>1. flow'[p] \in StageSet \cup {"done"}
  BY StageFromFacts
<1>2. PICK k \in i .. 9 : /\ Index(p)' = k
                          /\ \A j \in i .. (k - 1) : ~Wanted(p, Stages[j])
  <2>1. CASE StageFrom(p, i) = "done" /\ \A j \in i .. 8 : ~Wanted(p, Stages[j])
    <3>1. Index(p)' = 9
      BY <2>1 DEF Index
    <3>2. QED
      BY <2>1, <3>1
  <2>2. CASE \E k \in i .. 8 : /\ StageFrom(p, i) = Stages[k]
                               /\ \A j \in i .. (k - 1) : ~Wanted(p, Stages[j])
    <3>1. PICK k \in i .. 8 : /\ StageFrom(p, i) = Stages[k]
                              /\ \A j \in i .. (k - 1) : ~Wanted(p, Stages[j])
      BY <2>2
    <3>2. Stages[k] \in StageSet /\ Place(Stages[k]) = k
      BY PlaceIs, StageNames
    <3>3. Stages[k] # "done"
      BY <3>2 DEF StageSet
    <3>4. Index(p)' = k
      BY <3>1, <3>2, <3>3 DEF Index, Place
    <3>5. QED
      BY <3>1, <3>4
  <2>3. QED
    BY <2>1, <2>2, StageFromFacts
<1>3. ASSUME NEW j \in 1 .. (k - 1), Wanted(p, Stages[j])'
      PROVE  Stands(p, Stages[j])'
  <2>1. Wanted(p, Stages[j])
    BY <1>3, WantedSame
  <2>2. j \notin i .. (k - 1)
    BY <1>2, <2>1
  <2>3. j \in 1 .. (i - 1)
    BY <2>2
  <2>4. QED
    BY <2>1, <2>3
<1>4. Behind(p)'
  BY <1>2, <1>3 DEF Behind
<1>5. QED
  BY <1>1, <1>4

(* A stage goes on or is left, with what was wanted of it done.            *)
LEMMA StageGoesOn ==
    ASSUME FlowTypeOK, NEW p \in Procs, NEW s \in StageSet, flow[p] = s, WantedStill,
           Applies(p), FilesStand(p),
           \/ flow' = flow
           \/ Leave(p) /\ (Wanted(p, s) => Stands(p, s)'),
           InSettings(p)' /\ sub'[p] = "trunc" /\ settings'.json => snap'[p] = settings'
    PROVE  flow'[p] \in StageSet \cup {"done"} /\ Applies(p)'
<1> DEFINE i == Place(s)
<1>1. i \in 1 .. 8 /\ Stages[i] = s
  BY PlaceFacts
<1>2. \A j \in 1 .. (i - 1) : Wanted(p, Stages[j]) => Stands(p, Stages[j])'
  BY BehindStays DEF Applies
<1>3. flow'[p] \in StageSet \cup {"done"} /\ Behind(p)'
  <2>1. CASE flow' = flow
    <3>1. flow[p] # "done" /\ Index(p)' = i
      BY <2>1 DEF StageSet, Index, Place
    <3>2. \A j \in 1 .. (i - 1) : Wanted(p, Stages[j])' => Stands(p, Stages[j])'
      BY <1>2, WantedSame
    <3>3. QED
      BY <2>1, <3>1, <3>2 DEF Behind
  <2>2. CASE Leave(p) /\ (Wanted(p, s) => Stands(p, s)')
    <3>1. flow'[p] = StageFrom(p, i + 1) /\ i + 1 \in 1 .. 9
      BY <1>1, <2>2 DEF Leave, Goto, FlowTypeOK
    <3>2. ASSUME NEW j \in 1 .. ((i + 1) - 1), Wanted(p, Stages[j])
          PROVE  Stands(p, Stages[j])'
      <4>1. CASE j = i
        BY <1>1, <2>2, <3>2, <4>1
      <4>2. CASE j # i
        BY <1>1, <1>2, <3>2, <4>2
      <4>3. QED
        BY <4>1, <4>2
    <3> HIDE DEF i
    <3>3. QED
      BY <3>1, <3>2, Onward
  <2>3. QED
    BY <2>1, <2>2
<1>4. claudeHookPresent'[p] => Stands(p, "hook")'
  <2>1. claudeHookPresent'[p] => Stands(p, "hook")
    BY DEF Applies, WantedStill
  <2>2. QED
    BY <2>1, StandsStill DEF StageSet
<1>5. QED
  BY <1>3, <1>4 DEF Applies

-----------------------------------------------------------------------------
(* Each step keeps what init has delivered so far.                         *)
LEMMA StageProgress ==
    ASSUME StagesInv, DeliverInv, NEW p \in Procs, NEW s \in StageSet, flow[p] = s,
           WantedStill, UNCHANGED <<bundleVars, home, overlap>>,
           \A q \in Procs \ {p} : flow'[q] = flow[q],
           \/ flow'[p] = "error"
           \/ /\ flow' = flow \/ Leave(p)
              /\ Applies(p) => FilesStand(p)
              /\ Leave(p) => Stands(p, s)'
              /\ InSettings(p)' /\ sub'[p] = "trunc" /\ settings'.json
                    => snap'[p] = settings'
    PROVE  Progress(p)
<1> USE DEF StagesInv
<1>1. Active(p) /\ Lone(p)
  BY ActiveAt, LoneKept
<1>2. /\ UNCHANGED <<want, step, names, agreed, dest, content, clash>>
      /\ Apart(p)
  BY DEF WantedStill, bundleVars, Apart
<1>3. flow'[p] \in StageSet \cup {"done", "error"}
  BY LeaveFacts
<1>4. LegInv(p)'
  <2>1. LegInv(p) /\ flow[p] # "extract" /\ step[p] \notin Mid
    BY DEF DeliverInv, LegInv, StageSet
  <2>2. flow'[p] \notin {"idle", "select", "consent"}
    BY <1>3 DEF StageSet
  <2>3. QED
    BY <1>2, <1>3, <2>1, <2>2 DEF LegInv, Inits
<1>5. ASSUME ~overlap', Inits(p), flow'[p] # "error"
      PROVE  Extracts(p)' /\ Applies(p)'
  <2>1. Extracts(p) /\ Applies(p)
    BY <1>1, <1>5 DEF DeliverInv
  <2>2. Extracts(p)'
    BY <1>2, <2>1 DEF Extracts, Settled, Whole, Listed, Rest, Entry
  <2>3. Applies(p)'
    BY <1>5, <2>1, StageGoesOn
  <2>4. QED
    BY <2>2, <2>3
<1>6. ~overlap' => clash' = {}
  BY <1>2 DEF DeliverInv
<1>7. flow'[p] = "error" => ~Active(p)' /\ flow'[p] # "done"
  BY DEF Active, Ended
<1>8. QED
  BY <1>1, <1>2, <1>4, <1>5, <1>6, <1>7 DEF Progress

LEMMA HeldSame ==
    ASSUME NEW p \in Procs, settings' = settings,
           ~(InSettings(p) /\ sub[p] = "write"), ~(InSettings(p)' /\ sub'[p] = "write")
    PROVE  HeldStays(p)
BY DEF HeldStays, Held

LEMMA AppendProgress ==
    ASSUME StagesInv, DeliverInv, NEW p \in Procs, NEW f \in Sections,
           AppendIfAbsent(p, f) \/ Append_(p, f)
    PROVE  Progress(p)
<1> USE DEF StagesInv
<1>1. /\ flow[p] = f /\ f \in StageSet /\ WantedStill
      /\ UNCHANGED <<bundleVars, home, overlap, config, settings, snap>>
      /\ \/ Leave(p) /\ (f = "rc" \/ sections'[f] > 0)
         \/ Within(p, "append")
      /\ \A g \in Sections : sections[g] > 0 => sections'[g] > 0
  <2>1. sections \in [Sections -> Nat]
    BY DEF FlowTypeOK
  <2>2. CASE AppendIfAbsent(p, f)
    BY <2>2, StageNames DEF AppendIfAbsent, At, procVars, userVars, WantedStill
  <2>3. CASE Append_(p, f)
    BY <2>1, <2>3, StageNames DEF Append_, At, procVars, WantedStill
  <2>4. QED
    BY <2>2, <2>3
<1>2. /\ \A q \in Procs \ {p} : flow'[q] = flow[q]
      /\ Leave(p) => sub'[p] = "read"
      /\ Within(p, "append") => sub'[p] = "append" /\ flow' = flow
  BY <1>1, LeaveFacts, WithinFacts
<1>3. ~InSettings(p) /\ sub'[p] \in {"read", "append"}
  BY <1>1, <1>2 DEF InSettings, Sections
<1>4. FilesStand(p)
  BY <1>1, <1>3, HeldSame DEF FilesStand
<1>5. Leave(p) => Stands(p, f)'
  <2>1. f \notin {"config", "allow", "hook"}
    BY DEF Sections
  <2>2. CASE Leave(p) /\ ~Within(p, "append")
    BY <1>1, <2>1, <2>2 DEF Stands
  <2>3. CASE Leave(p) /\ Within(p, "append")
    BY <1>2, <2>3
  <2>4. QED
    BY <2>2, <2>3
<1>6. QED
  BY <1>1, <1>2, <1>3, <1>4, <1>5, StageProgress

LEMMA ReadProgress ==
    ASSUME StagesInv, DeliverInv, NEW p \in Procs,
           ReadGpgConf(p) \/ \E stage \in {"allow", "hook"} : ReadSettings(p, stage)
    PROVE  Progress(p)
<1> USE DEF StagesInv
<1>1. PICK s \in {"gpg", "allow", "hook"} :
         /\ flow[p] = s /\ sub[p] = "read"
         /\ Leave(p) \/ Within(p, "trunc")
         /\ s = "gpg" \/ ReadSettings(p, s)
  BY DEF ReadGpgConf, ReadSettings, At
<1>2. /\ s \in StageSet /\ WantedStill
      /\ UNCHANGED <<bundleVars, home, overlap, config, settings, sections>>
  BY DEF ReadGpgConf, ReadSettings, procVars, userVars, WantedStill, StageSet
<1>3. /\ \A q \in Procs \ {p} : flow'[q] = flow[q]
      /\ Leave(p) => sub'[p] = "read"
      /\ Within(p, "trunc") => sub'[p] = "trunc" /\ flow' = flow
  BY <1>1, <1>2, LeaveFacts, WithinFacts
<1>4. FilesStand(p)
  BY <1>1, <1>2, <1>3, HeldSame DEF FilesStand
<1>5. Leave(p) => Stands(p, s)'
  <2>1. CASE s = "gpg"
    BY <2>1 DEF Stands
  <2>2. CASE ReadSettings(p, s) /\ Leave(p)
    <3>1. s = "hook" /\ settings.json /\ settings.hook
      BY <1>3, <2>2 DEF ReadSettings, NoSettings
    <3>2. Held(p)' = settings
      BY <1>2, <1>3, <2>2 DEF Held
    <3>3. QED
      BY <3>1, <3>2 DEF Stands
  <2>3. QED
    BY <1>1, <2>1, <2>2
<1>6. InSettings(p)' /\ sub'[p] = "trunc" /\ settings'.json => snap'[p] = settings'
  <2> SUFFICES ASSUME InSettings(p)', sub'[p] = "trunc", settings'.json
               PROVE  snap'[p] = settings'
    OBVIOUS
  <2>1. ~Leave(p) /\ flow' = flow
    BY <1>1, <1>3
  <2>2. ReadSettings(p, s)
    BY <1>1, <2>1 DEF InSettings
  <2>3. snap \in [Procs -> Settings \cup GpgConf]
    BY DEF FlowTypeOK
  <2>4. QED
    BY <1>2, <2>1, <2>2, <2>3 DEF ReadSettings
<1>7. QED
  BY <1>1, <1>2, <1>3, <1>4, <1>5, <1>6, StageProgress

LEMMA TruncateProgress ==
    ASSUME StagesInv, DeliverInv, NEW p \in Procs, Truncate(p)
    PROVE  Progress(p)
<1> USE DEF StagesInv
<1>1. PICK s \in {"config", "gpg", "allow", "hook"} :
         /\ flow[p] = s
         /\ \/ InSettings(p) /\ sub[p] = "trunc" /\ settings' = NoSettings
            \/ ~InSettings(p) /\ settings' = settings
         /\ config' = config \/ s = "config"
  BY DEF Truncate, At, InSettings
<1>2. /\ s \in StageSet /\ WantedStill
      /\ UNCHANGED <<bundleVars, home, overlap, snap, sections>>
      /\ flow' = flow /\ sub'[p] = "write"
  BY WithinFacts DEF Truncate, procVars, WantedStill, StageSet
<1>3. ASSUME Applies(p) PROVE FilesStand(p)
  <2>1. CASE ~InSettings(p)
    <3>1. ~InSettings(p)'
      BY <1>2, <2>1 DEF InSettings
    <3>2. HeldStays(p)
      BY <1>1, <2>1, <3>1, HeldSame
    <3>3. QED
      BY <1>1, <1>2, <3>2 DEF FilesStand
  <2>2. CASE InSettings(p)
    <3>1. Held(p) = settings /\ Held(p)' = snap[p]
      BY <1>1, <1>2, <2>2 DEF Held, InSettings
    <3>2. settings.json => snap[p] = settings
      BY <1>1, <1>3, <2>2 DEF Applies
    <3>3. QED
      BY <1>1, <1>2, <3>1, <3>2 DEF FilesStand, HeldStays
  <2>3. QED
    BY <2>1, <2>2
<1>4. ~Leave(p) \/ sub'[p] = "read"
  BY <1>1, <1>2, LeaveFacts
<1>5. QED
  BY <1>1, <1>2, <1>3, <1>4, StageProgress

LEMMA RewriteProgress ==
    ASSUME StagesInv, DeliverInv, NEW p \in Procs,
           \/ writeConfigFile(p) \/ ApplyGPGPinentry(p)
           \/ installClaudeSandbox(p) \/ mergeSettings(p)
    PROVE  Progress(p)
<1> USE DEF StagesInv
<1>1. PICK s \in {"config", "gpg", "allow", "hook"} :
         /\ flow[p] = s /\ sub[p] = "write"
         /\ \/ s = "config" /\ config' = "ours" /\ settings' = settings
            \/ s = "gpg" /\ UNCHANGED <<config, settings>>
            \/ /\ s = "allow" /\ config' = config
               /\ settings' = [snap[p] EXCEPT !.json = TRUE, !.allow = TRUE]
            \/ /\ s = "hook" /\ config' = config
               /\ settings' = [snap[p] EXCEPT !.json = TRUE, !.hook = TRUE]
  BY DEF writeConfigFile, ApplyGPGPinentry, installClaudeSandbox, mergeSettings, At
<1>2. /\ s \in StageSet /\ WantedStill /\ Leave(p)
      /\ UNCHANGED <<bundleVars, home, overlap, sections>>
  BY DEF writeConfigFile, ApplyGPGPinentry, installClaudeSandbox, mergeSettings,
         Written, procVars, WantedStill, StageSet
<1>3. sub'[p] = "read" /\ \A q \in Procs \ {p} : flow'[q] = flow[q]
  BY <1>1, <1>2, LeaveFacts
<1>4. Held(p)' = settings'
  BY <1>3 DEF Held
<1>5. HeldStays(p) /\ Stands(p, s)'
  <2>1. CASE s \in {"config", "gpg"}
    BY <1>1, <1>3, <2>1, HeldSame DEF InSettings, Stands
  <2>2. CASE s \in {"allow", "hook"}
    <3>1. snap[p] \in Settings /\ Held(p) = snap[p]
      BY <1>1, <2>2 DEF StageInv, HasRead, Held, InSettings
    <3>2. /\ settings'.json
          /\ s = "allow" => settings'.allow /\ settings'.hook = snap[p].hook
          /\ s = "hook" => settings'.hook /\ settings'.allow = snap[p].allow
      BY <1>1, <2>2, <3>1 DEF Settings
    <3>3. QED
      BY <1>4, <2>2, <3>1, <3>2 DEF HeldStays, Stands
  <2>3. QED
    BY <2>1, <2>2
<1>6. FilesStand(p)
  BY <1>1, <1>2, <1>5 DEF FilesStand
<1>7. QED
  BY <1>1, <1>2, <1>3, <1>5, <1>6, StageProgress

(* What has not to do with a stage.                                        *)
LEMMA BeginProgress ==
    ASSUME StagesInv, DeliverInv, NEW p \in Procs,
           RunInit(p) \/ RunUpdate(p) \/ RunConfigPinentry(p)
    PROVE  Progress(p)
<1> USE DEF StagesInv
<1>1. /\ flow[p] = "idle" /\ Begins(p)
      /\ UNCHANGED <<bundleVars, home, want>>
      /\ \E place \in FlowSet : Goto(p, place)
  BY DEF RunInit, RunUpdate, RunConfigPinentry, Begins, FlowSet, Ended, StageSet
<1>2. /\ flow[p] = "idle" /\ Lone(p)
      /\ UNCHANGED <<step, names, agreed, dest, content, clash>>
      /\ \A q \in Procs \ {p} : flow'[q] = flow[q]
  BY <1>1, LoneBegins, GotoFacts
     DEF RunInit, RunUpdate, RunConfigPinentry, Begins, bundleVars
<1>3. Apart(p)
  BY <1>1, <1>2 DEF Apart
<1>4. LegInv(p) /\ step[p] = "idle" /\ \A e \in Entries : <<p, e>> \notin agreed
  BY <1>2 DEF DeliverInv, LegInv
<1>5. ~overlap' => clash' = {}
  BY <1>2 DEF DeliverInv, Lone
<1>6. CASE RunInit(p)
  <2>1. flow'[p] \in {"select", "cancelled"}
    BY <1>6 DEF RunInit, Goto, FlowTypeOK
  <2>2. LegInv(p)'
    BY <1>2, <1>4, <2>1 DEF LegInv, Mid, StageSet
  <2>3. Extracts(p)'
    BY <1>2, <1>4 DEF Extracts, Mid
  <2>4. Applies(p)'
    BY <2>1 DEF Applies, Behind, InSettings, StageSet
  <2>5. QED
    BY <1>2, <1>3, <1>5, <2>1, <2>2, <2>3, <2>4 DEF Progress
<1>7. CASE RunUpdate(p) \/ RunConfigPinentry(p)
  <2>1. ~Inits(p) /\ ~Inits(p)'
    BY <1>1, <1>7 DEF RunUpdate, RunConfigPinentry, Inits
  <2>2. LegInv(p)'
    BY <1>2, <1>4, <2>1 DEF LegInv, Mid
  <2>3. QED
    BY <1>2, <1>3, <1>5, <2>1, <2>2 DEF Progress
<1>8. QED
  BY <1>6, <1>7

LEMMA ChooseProgress ==
    ASSUME StagesInv, DeliverInv, NEW p \in Procs, Select(p) \/ Consent(p)
    PROVE  Progress(p)
<1> USE DEF StagesInv
<1>1. /\ flow[p] \in {"select", "consent"} /\ Active(p) /\ sub[p] = "read"
      /\ UNCHANGED <<step, names, agreed, dest, content, clash, home, want, overlap, sub,
                     settings>>
  BY ActiveAt DEF Select, Consent, bundleVars, userVars, StageInv, HasRead, FlowTypeOK,
                  Sections
<1>2. /\ flow'[p] \in {"consent", "cancelled", "extract"}
      /\ flow'[p] = "extract" /\ claudeHookPresent'[p] =>
            settings.json /\ settings.hook
      /\ \A q \in Procs \ {p} : flow'[q] = flow[q]
  BY <1>1 DEF Select, Consent, Goto, FlowTypeOK
<1>3. Apart(p) /\ Lone(p)
  BY <1>1, <1>2, LoneKept DEF Apart
<1>4. step[p] = "idle" /\ \A e \in Entries : <<p, e>> \notin agreed
  BY <1>1 DEF DeliverInv, LegInv
<1>5. LegInv(p)'
  BY <1>1, <1>2, <1>4 DEF LegInv, Mid, StageSet
<1>6. Extracts(p)'
  BY <1>1, <1>4 DEF Extracts, Mid
<1>7. Applies(p)'
  BY <1>1, <1>2 DEF Applies, Behind, InSettings, StageSet, Stands, Held
<1>8. ~overlap' => clash' = {}
  BY <1>1 DEF DeliverInv
<1>9. QED
  BY <1>1, <1>3, <1>5, <1>6, <1>7, <1>8 DEF Progress

LEMMA ExtractedProgress ==
    ASSUME StagesInv, DeliverInv, NEW p \in Procs, EmptyBundle(p) \/ Extracted(p)
    PROVE  Progress(p)
<1> USE DEF StagesInv
<1>1. /\ flow[p] = "extract" /\ Active(p) /\ sub[p] = "read" /\ WantedStill
      /\ UNCHANGED <<step, names, agreed, dest, content, clash, home, want, overlap, sub,
                     settings>>
  BY ActiveAt DEF EmptyBundle, Extracted, bundleVars, userVars, StageInv, HasRead,
                  FlowTypeOK, Sections, WantedStill
<1>2. /\ \A q \in Procs \ {p} : flow'[q] = flow[q]
      /\ Inits(p) => \/ /\ flow'[p] = StageFrom(p, 1)
                        /\ home.emptyBundle \/ step[p] = "done"
                     \/ flow'[p] = "error"
      /\ flow'[p] \in StageSet \cup {"done", "error"}
      /\ step[p] \notin Mid
  <2>1. StageFrom(p, 1) \in StageSet \cup {"done"}
    BY StageFromFacts
  <2>2. CASE EmptyBundle(p)
    BY <2>1, <2>2 DEF EmptyBundle, Goto, FlowTypeOK, Inits, Mid
  <2>3. CASE Extracted(p)
    <3>1. Goto(p, AfterExtract(p)) /\ step[p] \in {"done", "error"}
      BY <2>3 DEF Extracted
    <3>2. AfterExtract(p) \in StageSet \cup {"done", "error"}
      BY <2>1 DEF AfterExtract
    <3>3. Inits(p) /\ step[p] = "done" => AfterExtract(p) = StageFrom(p, 1)
      BY DEF AfterExtract, Inits
    <3>4. step[p] = "error" => AfterExtract(p) = "error"
      BY DEF AfterExtract
    <3>5. QED
      BY <3>1, <3>2, <3>3, <3>4 DEF Goto, FlowTypeOK, Mid
  <2>4. QED
    BY <2>2, <2>3
<1>3. Apart(p) /\ Lone(p)
  BY <1>1, <1>2, LoneKept DEF Apart
<1>4. LegInv(p)'
  <2>1. LegInv(p)
    BY DEF DeliverInv
  <2>2. flow'[p] \notin {"idle", "select", "consent"}
    BY <1>2 DEF StageSet
  <2>3. flow'[p] \in StageSet \cup {"done"} => flow'[p] # "error"
    BY DEF StageSet
  <2>4. QED
    BY <1>1, <1>2, <2>1, <2>2, <2>3 DEF LegInv, Inits
<1>5. ASSUME ~overlap', Inits(p), Active(p)' \/ flow'[p] = "done"
      PROVE  Extracts(p)' /\ Applies(p)'
  <2>1. Extracts(p) /\ Applies(p)
    BY <1>1, <1>5 DEF DeliverInv
  <2>2. Extracts(p)'
    BY <1>1, <2>1 DEF Extracts, Settled, Whole, Listed, Rest, Entry
  <2>3. flow'[p] = StageFrom(p, 1)
    BY <1>2, <1>5 DEF Active, Ended
  <2>4. Behind(p)'
    BY <1>1, <2>3, Onward
  <2>5. claudeHookPresent'[p] => Stands(p, "hook")'
    BY <1>1, <2>1 DEF Applies, Stands, Held, WantedStill
  <2>6. QED
    BY <1>1, <2>2, <2>4, <2>5 DEF Applies
<1>6. ~overlap' => clash' = {}
  BY <1>1 DEF DeliverInv
<1>7. QED
  BY <1>1, <1>3, <1>4, <1>5, <1>6 DEF Progress

LEMMA ListProgress ==
    ASSUME StagesInv, BundleInv, DeliverInv, NEW p \in Procs, ExtractBundled(p)
    PROVE  Progress(p)
<1> USE DEF StagesInv
<1> DEFINE list == <<Pinentry>> \o want[p].plugins
<1>1. /\ flow[p] = "extract" /\ Active(p) /\ UNCHANGED flowVars
      /\ step[p] = "idle" /\ step'[p] = "check" /\ names'[p] = list
      /\ UNCHANGED <<agreed, dest, content, clash>>
      /\ \A q \in Procs \ {p} : step'[q] = step[q] /\ names'[q] = names[q]
  BY ActiveAt DEF ExtractBundled, Extract, BundleInv, BundleTypeOK
<1>2. Apart(p) /\ Lone(p)
  BY <1>1, LoneKept DEF Apart, flowVars
<1>3. \A e \in Entries : <<p, e>> \notin agreed
  BY <1>1 DEF DeliverInv, LegInv
<1>4. LegInv(p)'
  BY <1>1 DEF LegInv, flowVars, StageSet
<1>5. ASSUME ~overlap', Inits(p) PROVE Extracts(p)' /\ Applies(p)'
  <2>1. Applies(p)
    BY <1>1, <1>5 DEF DeliverInv, flowVars
  <2>2. Rest(names[p])' = Listed(p) /\ Listed(p)' = Listed(p)
    BY <1>1, ListedFacts DEF Rest, Listed, flowVars
  <2>3. Extracts(p)'
    BY <1>1, <1>3, <2>2 DEF Extracts
  <2>4. Applies(p)'
    BY <1>1, <2>1 DEF Applies, Behind, Stands, Held, InSettings, flowVars, userVars,
                      StageSet
  <2>5. QED
    BY <2>3, <2>4
<1>6. ~overlap' => clash' = {}
  BY <1>1 DEF DeliverInv, flowVars
<1>7. overlap' = overlap
  BY <1>1 DEF flowVars
<1>8. QED
  BY <1>2, <1>4, <1>5, <1>6, <1>7 DEF Progress

LEMMA EntryProgress ==
    ASSUME StagesInv, BundleInv, DeliverInv, NEW p \in Procs, Extracting(p)
    PROVE  Progress(p)
<1> USE DEF StagesInv
<1>1. /\ flow[p] = "extract" /\ Active(p) /\ UNCHANGED flowVars /\ ExtractStep(p)
      /\ BundleTypeOK /\ BundleTypeOK' /\ Only(p)
  BY ActiveAt, BundleTypeStep DEF Extracting, BundleInv
<1>2. Apart(p) /\ Lone(p)
  BY <1>1, LoneKept, EntriesApart DEF Apart, flowVars, Only
<1>3. step'[p] # "idle" /\ (step'[p] = "done" => names'[p] = <<>>)
  <2>1. step[p] \in Mid /\ names[p] \in Seq(Entries) /\ names[p] # <<>>
    BY <1>1, EntriesApart
  <2>2. CASE Advance(p)
    <3>1. /\ names'[p] = Tail(names[p])
          /\ step'[p] = IF Len(names[p]) = 1 THEN "done" ELSE "check"
      BY <1>1, <2>2 DEF Advance, BundleTypeOK
    <3>2. Len(names[p]) = 1 => Tail(names[p]) = <<>>
      <4>1. PICK s \in Seq(Entries) : s = names[p] /\ s # <<>>
        BY <2>1
      <4>2. Tail(s) \in Seq(Entries) /\ (Len(s) = 1 => Len(Tail(s)) = 0)
        BY <4>1
      <4>3. \A r \in Seq(Entries) : Len(r) = 0 => r = <<>>
        OBVIOUS
      <4>4. QED
        BY <4>1, <4>2, <4>3
    <3>3. QED
      BY <3>1, <3>2
  <2>3. CASE Quit(p)
    BY <1>1, <2>3, QuitFacts
  <2>4. CASE step'[p] \in Mid
    BY <2>4 DEF Mid
  <2>5. Advance(p) \/ Quit(p) \/ step'[p] \in Mid
    BY <1>1, <2>1 DEF ExtractStep, Check, Resolve, ResolveFails, OpenTmp,
           OpenTmpFails, WriteChunk, CloseTmp, Verify, WriteFails, Rename, RenameFails,
           To, Mid, BundleTypeOK
  <2>6. QED
    BY <2>2, <2>3, <2>4, <2>5
<1>4. LegInv(p)'
  BY <1>1, <1>3 DEF LegInv, flowVars, StageSet
<1>5. ASSUME ~overlap' PROVE clash' = {} /\ clash = {}
  <2>1. clash = {} /\ \A q \in Procs \ {p} : ~Active(q)
    BY <1>2, <1>5 DEF DeliverInv, Lone
  <2>2. ASSUME NEW q \in Procs \ {p} PROVE ~Writing(q, Entry(p))
    <3>1. LegInv(q) /\ ~Active(q)
      BY <2>1 DEF DeliverInv
    <3>2. flow[q] # "extract"
      BY <3>1, ActiveAt
    <3>3. QED
      BY <3>1, <3>2 DEF LegInv, Writing, Mid
  <2>3. CASE OpenTmp(p)
    <3>1. ~Writing(p, Entry(p))
      BY <2>3 DEF OpenTmp, Writing
    <3>2. QED
      BY <2>1, <2>2, <2>3, <3>1 DEF OpenTmp
  <2>4. CASE ~OpenTmp(p)
    BY <1>1, <2>1, <2>4 DEF ExtractStep, Check, Resolve, ResolveFails, OpenTmpFails,
           WriteChunk, CloseTmp, Verify, WriteFails, Rename, RenameFails
  <2>5. QED
    BY <2>1, <2>3, <2>4
<1>6. ASSUME ~overlap', Inits(p) PROVE Extracts(p)' /\ Applies(p)'
  <2>1. Extracts(p) /\ Applies(p)
    BY <1>1, <1>6 DEF DeliverInv, flowVars
  <2>2. Extracts(p)'
    BY <1>1, <1>5, <1>6, <2>1, ExtractsGoesOn DEF flowVars
  <2>3. Applies(p)'
    BY <1>1, <2>1 DEF Applies, Behind, Stands, Held, InSettings, flowVars, userVars,
                      StageSet
  <2>4. QED
    BY <2>2, <2>3
<1>7. overlap' = overlap
  BY <1>1 DEF flowVars
<1>8. QED
  BY <1>2, <1>4, <1>5, <1>6, <1>7 DEF Progress

LEMMA EndProgress ==
    ASSUME StagesInv, BundleInv, DeliverInv, NEW p \in Procs, StageFails(p) \/ Crash(p)
    PROVE  Progress(p)
<1> USE DEF StagesInv
<1>1. CASE StageFails(p)
  <2>1. PICK s \in StageSet : flow[p] = s
    BY <1>1, StageNames DEF StageFails, At
  <2>2. /\ UNCHANGED <<bundleVars, home, overlap, settings, config, sections>> /\ WantedStill
        /\ \/ s \in {"rc", "gpg"} /\ Leave(p)
           \/ Goto(p, "error")
    BY <1>1, <2>1 DEF StageFails, userVars, WantedStill
  <2>3. CASE s \in {"rc", "gpg"} /\ Leave(p)
    <3>1. sub'[p] = "read" /\ \A q \in Procs \ {p} : flow'[q] = flow[q]
      BY <2>1, <2>3, LeaveFacts
    <3>2. FilesStand(p)
      BY <2>1, <2>2, <2>3, <3>1, HeldSame DEF FilesStand, InSettings
    <3>3. Stands(p, s)'
      BY <2>3 DEF Stands
    <3>4. QED
      BY <2>1, <2>2, <2>3, <3>1, <3>2, <3>3, StageProgress
  <2>4. CASE Goto(p, "error")
    <3>1. flow'[p] = "error" /\ \A q \in Procs \ {p} : flow'[q] = flow[q]
      BY <2>4 DEF Goto, FlowTypeOK
    <3>2. QED
      BY <2>1, <2>2, <3>1, StageProgress
  <2>5. QED
    BY <2>2, <2>3, <2>4
<1>2. CASE Crash(p)
  <2>1. /\ Active(p) /\ UNCHANGED <<home, want, overlap>>
        /\ flow'[p] = "error" /\ \A q \in Procs \ {p} : flow'[q] = flow[q]
    BY <1>2 DEF Crash, Goto, FlowTypeOK
  <2>2. /\ UNCHANGED <<agreed, clash>>
        /\ \A q \in Procs \ {p} : step'[q] = step[q] /\ names'[q] = names[q]
        /\ \/ step'[p] = "error"
           \/ step' = step /\ names' = names /\ flow[p] # "extract"
    <3>1. CASE flow[p] = "extract"
      BY <1>2, <3>1, QuitFacts DEF Crash, ExtractCrash, BundleInv
    <3>2. CASE flow[p] # "extract"
      BY <1>2, <3>2 DEF Crash, bundleVars
    <3>3. QED
      BY <3>1, <3>2
  <2>3. LegInv(p)'
    BY <2>1, <2>2 DEF DeliverInv, LegInv, Mid, StageSet
  <2>4. Apart(p) /\ Lone(p)
    BY <2>1, <2>2, LoneKept DEF Apart
  <2>5. ~Active(p)' /\ flow'[p] # "done"
    BY <2>1 DEF Active, Ended
  <2>6. ~overlap' => clash' = {}
    BY <2>1, <2>2 DEF DeliverInv
  <2>7. QED
    BY <2>3, <2>4, <2>5, <2>6 DEF Progress
<1>3. QED
  BY <1>1, <1>2

LEMMA NextProgress ==
    ASSUME IInv, DeliverInv, Next
    PROVE  \E p \in Procs : Progress(p)
<1> USE DEF IInv
<1>1. PICK p \in Procs :
        \/ RunInit(p) \/ Select(p) \/ Consent(p)
        \/ RunUpdate(p) \/ RunConfigPinentry(p)
        \/ EmptyBundle(p) \/ ExtractBundled(p) \/ Extracting(p) \/ Extracted(p)
        \/ \E f \in Sections : AppendIfAbsent(p, f) \/ Append_(p, f)
        \/ \E stage \in {"allow", "hook"} : ReadSettings(p, stage)
        \/ ReadGpgConf(p)
        \/ Truncate(p)
        \/ writeConfigFile(p) \/ ApplyGPGPinentry(p)
        \/ installClaudeSandbox(p) \/ mergeSettings(p)
        \/ StageFails(p) \/ Crash(p)
  BY DEF Next
<1>2. Progress(p)
  BY <1>1, BeginProgress, ChooseProgress, ExtractedProgress, ListProgress, EntryProgress,
     AppendProgress, ReadProgress, TruncateProgress, RewriteProgress, EndProgress
<1>3. QED
  BY <1>2

LEMMA DeliveredAtTheEnd ==
    ASSUME NEW p \in Procs, flow'[p] = "done", Inits(p)', LegInv(p)', Extracts(p)',
           Applies(p)'
    PROVE  Delivered(p)'
<1>1. ASSUME NEW j \in 1 .. 8, Wanted(p, Stages[j])'
      PROVE  Stands(p, Stages[j])'
  <2>1. Index(p)' = 9
    BY DEF Index
  <2>2. QED
    BY <1>1, <2>1 DEF Applies, Behind
<1>2. Held(p)' = settings'
  BY DEF Held, InSettings
<1>3. ~kept'[p] => config' = "ours"
  <2>1. ~kept'[p] => Wanted(p, Stages[1])'
    BY PlaceIs DEF Wanted, Inits
  <2>2. Stands(p, Stages[1])' => config' = "ours"
    BY PlaceIs DEF Stands
  <2>3. QED
    BY <1>1, <2>1, <2>2
<1>4. ASSUME ~home'.emptyBundle, NEW e \in Listed(p)'
      PROVE  Whole(e, dest[e])' \/ (dest'[e] # None /\ <<p, e>> \notin agreed')
  <2>1. step'[p] = "done" /\ names'[p] = <<>>
    BY <1>4 DEF LegInv
  <2>2. e \notin Rest(names[p])'
    BY <2>1 DEF Rest
  <2>3. Settled(p, e)'
    BY <1>4, <2>1, <2>2 DEF Extracts
  <2>4. QED
    BY <2>3 DEF Settled
<1>5. Claude(p)' => /\ sections'["claudeMd"] > 0
                    /\ want'[p].sandbox => settings'.json /\ settings'.allow
                    /\ want'[p].hook => settings'.json /\ settings'.hook
  <2> SUFFICES ASSUME Claude(p)'
               PROVE  /\ sections'["claudeMd"] > 0
                      /\ want'[p].sandbox => settings'.json /\ settings'.allow
                      /\ want'[p].hook => settings'.json /\ settings'.hook
    OBVIOUS
  <2>1. /\ Wanted(p, Stages[3])'
        /\ want'[p].sandbox => Wanted(p, Stages[4])'
        /\ want'[p].hook => claudeHookPresent'[p] \/ Wanted(p, Stages[5])'
    BY PlaceIs DEF Wanted, Inits
  <2>2. /\ Stands(p, "claudeMd")'
        /\ want'[p].sandbox => Stands(p, "allow")'
        /\ want'[p].hook => Stands(p, "hook")'
    BY <1>1, <2>1, PlaceIs DEF Applies
  <2>3. QED
    BY <1>2, <2>2 DEF Stands
<1>6. Codex(p)' => /\ sections'["agentsMd"] > 0
                   /\ want'[p].sandbox => sections'["policy"] > 0
  <2> SUFFICES ASSUME Codex(p)'
               PROVE  /\ sections'["agentsMd"] > 0
                      /\ want'[p].sandbox => sections'["policy"] > 0
    OBVIOUS
  <2>1. Wanted(p, Stages[6])' /\ (want'[p].sandbox => Wanted(p, Stages[7])')
    BY PlaceIs DEF Wanted, Inits
  <2>2. Stands(p, "agentsMd")' /\ (want'[p].sandbox => Stands(p, "policy")')
    BY <1>1, <2>1, PlaceIs
  <2>3. QED
    BY <2>2 DEF Stands
<1>7. QED
  <2> DEFINE Fine(e) == Whole(e, dest[e]) \/ (dest[e] # None /\ <<p, e>> \notin agreed)
  <2>1. Delivered(p)' <=>
          /\ ~kept'[p] => config' = "ours"
          /\ ~home'.emptyBundle => \A e \in Listed(p)' : Fine(e)'
          /\ Claude(p)' => /\ sections'["claudeMd"] > 0
                           /\ want'[p].sandbox => settings'.json /\ settings'.allow
                           /\ want'[p].hook => settings'.json /\ settings'.hook
          /\ Codex(p)' => /\ sections'["agentsMd"] > 0
                          /\ want'[p].sandbox => sections'["policy"] > 0
    BY DEF Delivered, Listed
  <2>2. ~home'.emptyBundle => \A e \in Listed(p)' : Fine(e)'
    BY <1>4
  <2> HIDE DEF Fine
  <2>3. QED
    BY <1>3, <1>5, <1>6, <2>1, <2>2

(* flow.go applyInit: an init that ends well, and that no other command    *)
(* overlapped, has written the configuration, installed what it was asked  *)
(* to (or left a file that it was told to keep), and put its parts into    *)
(* the agents' files, whatever failed or crashed before it.                *)
THEOREM InitAlwaysDelivers == Spec => InitDelivers
<1> DEFINE Delivers ==
      \A p \in Procs :
          /\ want[p].kind \in {"auto", "init"}
          /\ flow[p] # "done" /\ flow'[p] = "done"
          /\ ~overlap
          => Delivered(p)'
<1>1. Init => DeliverInv
  <2> SUFFICES ASSUME Init PROVE DeliverInv
    OBVIOUS
  <2>1. /\ flow = [p \in Procs |-> "idle"] /\ step = [p \in Procs |-> "idle"]
        /\ agreed = {} /\ clash = {}
    BY DEF Init, BundleInit
  <2>2. \A p \in Procs : LegInv(p) /\ ~Active(p)
    BY <2>1 DEF LegInv, Mid, Active, StageSet
  <2>3. QED
    BY <2>1, <2>2 DEF DeliverInv
<1>2. ASSUME IInv, DeliverInv, [Next]_vars PROVE DeliverInv'
  <2>1. CASE UNCHANGED vars
    <3>1. UNCHANGED bundleVars /\ UNCHANGED flowVars
      BY <2>1 DEF vars
    <3>2. ASSUME NEW p \in Procs
          PROVE  /\ Inits(p)' = Inits(p) /\ Active(p)' = Active(p)
                 /\ LegInv(p) => LegInv(p)'
                 /\ Extracts(p) => Extracts(p)'
                 /\ Applies(p) => Applies(p)'
      <4>1. UNCHANGED <<home, want, flow, sub, snap, settings, config, sections,
                        claudeHookPresent>> /\ WantedStill
        BY <3>1 DEF flowVars, userVars, WantedStill
      <4>2. UNCHANGED <<step, names, agreed, dest, content>>
        BY <3>1 DEF bundleVars
      <4>3. Inits(p)' = Inits(p) /\ Active(p)' = Active(p)
        BY <4>1 DEF Inits, Active
      <4>4. LegInv(p) => LegInv(p)'
        BY <4>1, <4>2 DEF LegInv, Inits
      <4>5. Extracts(p) => Extracts(p)'
        BY <4>1, <4>2 DEF Extracts, Settled, Whole, Listed, Rest, Entry
      <4>6. Index(p)' = Index(p) /\ Held(p)' = Held(p)
        BY <4>1 DEF Index, Place, Held, InSettings
      <4>7. \A s : Wanted(p, s)' = Wanted(p, s) /\ Stands(p, s)' = Stands(p, s)
        BY <4>1, <4>6, WantedSame DEF Stands
      <4>8. Applies(p) => Applies(p)'
        BY <4>1, <4>6, <4>7 DEF Applies, Behind, InSettings
      <4>9. QED
        BY <4>3, <4>4, <4>5, <4>8
    <3>3. UNCHANGED <<overlap, clash>>
      BY <3>1 DEF flowVars, bundleVars
    <3>4. QED
      BY <1>2, <3>2, <3>3 DEF DeliverInv
  <2>2. CASE Next
    BY <1>2, <2>2, NextProgress, ProgressKeeps
  <2>3. QED
    BY <1>2, <2>1, <2>2
<1>3. ASSUME IInv, DeliverInv, [Next]_vars PROVE [Delivers]_vars
  <2> SUFFICES ASSUME Next, NEW p \in Procs, want[p].kind \in {"auto", "init"},
                      flow[p] # "done", flow'[p] = "done", ~overlap
               PROVE  Delivered(p)'
    BY <1>3
  <2>1. PICK q \in Procs : Progress(q)
    BY <1>3, NextProgress
  <2>2. q = p
    BY <2>1 DEF Progress, Apart
  <2>3. Inits(p) /\ Inits(p)' /\ LegInv(p)'
    BY <2>1, <2>2 DEF Progress, Apart, Inits
  <2>4. ~overlap'
    BY <2>1, <2>2, <2>3 DEF Progress
  <2>5. Extracts(p)' /\ Applies(p)'
    BY <2>1, <2>2, <2>3, <2>4 DEF Progress
  <2>6. QED
    BY <2>3, <2>5, DeliveredAtTheEnd
<1>4. QED
  BY <1>1, <1>2, <1>3, InitInvariance, PTL DEF Spec, InitDelivers
=============================================================================
